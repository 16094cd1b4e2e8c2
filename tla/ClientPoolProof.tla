--------------------------- MODULE ClientPoolProof ---------------------------
(***************************************************************************)
(* Proofs about ClientPool for any set of handlers: its invariants, its    *)
(* action properties and the safety part of its refinement of              *)
(* SharedConnection, all from one inductive invariant.                     *)
(***************************************************************************)
EXTENDS ClientPool, TLAPS

\* Handlers past get, whose client somebody has published before them.
Using(h) == pc[h] \in {"open", "opening", "discard", "drop", "relay"}

\* Handlers that have discarded at[h].
Discarded(h) == pc[h] = "drop" \/ (pc[h] = "get" /\ try[h] = "retry")

\* p.inflight is the handshake of the one leading handler, and while there is
\* one no client is on offer.
Leader ==
    /\ \A h \in Handlers :
          /\ Leading(h) \/ pc[h] = "announce" => at[h] = <<h, try[h]>>
          /\ Leading(h) => inflight = at[h] /\ client = None
    /\ inflight # None => \E h \in Handlers : Leading(h)

\* A try that has not dialled yet has no transport; one whose dial failed
\* never gets one.
Unstarted ==
    \A h \in Handlers :
        /\ pc[h] \in {"get", "dial"} => conn[<<h, try[h]>>] = "none"
        /\ try[h] = "first" => conn[<<h, "retry">>] = "none"
        /\ pc[h] = "publish" /\ outcome[at[h]] = "error" => conn[at[h]] = "none"

\* A handshake is announced only by its own try, after it has dialled.
Unannounced ==
    \A h \in Handlers :
        /\ pc[h] \in {"get", "dial", "publish"} => <<h, try[h]>> \notin done
        /\ try[h] = "first" => <<h, "retry">> \notin done

\* Whatever is tended, announced, on offer, in use or discarded was published
\* by its leader, who gave it a tend goroutine then.
Published ==
    /\ \A a \in Attempts :
          /\ tend[a] # "none" \/ outcome[a] = "client" => conn[a] # "none"
          /\ client = a \/ dropping = a => tend[a] # "none"
          /\ a \in done /\ outcome[a] = "client" => tend[a] # "none"
    /\ \A h \in Handlers :
          /\ pc[h] \notin {"get", "failed"} => at[h] \in Attempts
          /\ Leading(h) => tend[at[h]] = "none"
          /\ pc[h] = "announce" /\ outcome[at[h]] = "client"
                => tend[at[h]] # "none"
          /\ Using(h) \/ Discarded(h)
                => at[h] \in Attempts /\ tend[at[h]] # "none"

\* What is discarded is never on offer again, and worked no more unless the
\* whole tunnel is being cancelled.
Dropped ==
    /\ dropping # None => closed /\ \A h \in Handlers : ~Leading(h)
    /\ closed => client = None
    /\ \A h \in Handlers :
          /\ pc[h] \in {"discard", "drop"} => cancelled \/ conn[at[h]] # "live"
          /\ Discarded(h) => client # at[h]

IInv ==
    /\ TypeOK
    /\ Leader
    /\ Unstarted
    /\ Unannounced
    /\ Published
    /\ Dropped
    /\ LiveIsOwned
    /\ OneConnection

-----------------------------------------------------------------------------
(* The inductive invariant is kept: one lemma for each of its parts.       *)

\* Every step keeps the types.
LEMMA TypeOKStep == IInv /\ [Next]_vars => TypeOK'
<1> SUFFICES ASSUME IInv, [Next]_vars PROVE TypeOK'
  OBVIOUS
<1> USE NoneAssumption DEF IInv, TypeOK, Published, PCs, Tries, Attempts,
        Forget, poolVars, netVars
<1>1. ASSUME NEW h \in Handlers, GetClosed(h) PROVE TypeOK'
  BY <1>1 DEF GetClosed, Goto
<1>2. ASSUME NEW h \in Handlers, GetCached(h) PROVE TypeOK'
  BY <1>2 DEF GetCached, Goto
<1>3. ASSUME NEW h \in Handlers, GetJoin(h) PROVE TypeOK'
  BY <1>3 DEF GetJoin, Goto
<1>4. ASSUME NEW h \in Handlers, GetLead(h) PROVE TypeOK'
  BY <1>4 DEF GetLead, Goto
<1>5. ASSUME NEW h \in Handlers, WaitDone(h) PROVE TypeOK'
  BY <1>5 DEF WaitDone, Goto
<1>6. ASSUME NEW h \in Handlers, WaitCancelled(h) PROVE TypeOK'
  BY <1>6 DEF WaitCancelled, Goto
<1>7. ASSUME NEW h \in Handlers, DialOk(h) PROVE TypeOK'
  BY <1>7 DEF DialOk, Goto
<1>8. ASSUME NEW h \in Handlers, DialErr(h) PROVE TypeOK'
  BY <1>8 DEF DialErr, Goto
<1>9. ASSUME NEW h \in Handlers, PublishErr(h) PROVE TypeOK'
  BY <1>9 DEF PublishErr, Goto
<1>10. ASSUME NEW h \in Handlers, PublishClosed(h) PROVE TypeOK'
  BY <1>10 DEF PublishClosed, Goto
<1>11. ASSUME NEW h \in Handlers, PublishClient(h) PROVE TypeOK'
  BY <1>11 DEF PublishClient, Goto
<1>12. ASSUME NEW h \in Handlers, Announce(h) PROVE TypeOK'
  BY <1>12 DEF Announce, Goto
<1>13. ASSUME NEW h \in Handlers, OpenStart(h) PROVE TypeOK'
  BY <1>13 DEF OpenStart, Goto
<1>14. ASSUME NEW h \in Handlers, OpenOk(h) PROVE TypeOK'
  BY <1>14 DEF OpenOk, Goto
<1>15. ASSUME NEW h \in Handlers, OpenRejected(h) PROVE TypeOK'
  BY <1>15 DEF OpenRejected, Goto
<1>16. ASSUME NEW h \in Handlers, OpenFailed(h) PROVE TypeOK'
  BY <1>16 DEF OpenFailed, Goto
<1>17. ASSUME NEW h \in Handlers, Discard(h) PROVE TypeOK'
  BY <1>17 DEF Discard, Goto
<1>18. ASSUME NEW h \in Handlers, Drop(h) PROVE TypeOK'
  <2>1. at[h] \in Attempts
    BY <1>18 DEF IInv, Published, Discarded, Drop
  <2>2. QED
    BY <1>18, <2>1 DEF IInv, TypeOK, PCs, Tries, Drop, Goto, poolVars
<1>19. ASSUME NEW a \in Attempts, Tend(a) PROVE TypeOK'
  BY <1>19 DEF Tend
<1>20. ASSUME NEW a \in Attempts, Lose(a) PROVE TypeOK'
  BY <1>20 DEF Lose
<1>21. CASE PoolClose
  BY <1>21 DEF PoolClose
<1>22. CASE PoolDrop
  BY <1>22 DEF PoolDrop
<1>23. CASE Cancel
  BY <1>23 DEF Cancel
<1>24. CASE UNCHANGED vars
  BY <1>24 DEF vars
<1>25. QED
  BY <1>1, <1>2, <1>3, <1>4, <1>5, <1>6, <1>7, <1>8, <1>9, <1>10, <1>11, <1>12,
     <1>13, <1>14, <1>15, <1>16, <1>17, <1>18, <1>19, <1>20, <1>21, <1>22,
     <1>23, <1>24
     DEF Next, Handler, Get, Wait, Dial, Publish, Open

\* At most one handler leads, and what it leads is in flight.
LEMMA LeaderStep == IInv /\ [Next]_vars => Leader'
<1> SUFFICES ASSUME IInv, [Next]_vars PROVE Leader'
  OBVIOUS
<1> USE NoneAssumption DEF IInv, TypeOK, Leader, Published, Leading, Attempts,
        Forget, PCs, Dropped, poolVars, netVars
<1>1. ASSUME NEW h \in Handlers, GetClosed(h) PROVE Leader'
  BY <1>1 DEF GetClosed, Goto
<1>2. ASSUME NEW h \in Handlers, GetCached(h) PROVE Leader'
  BY <1>2 DEF GetCached, Goto
<1>3. ASSUME NEW h \in Handlers, GetJoin(h) PROVE Leader'
  BY <1>3 DEF GetJoin, Goto
<1>4. ASSUME NEW h \in Handlers, GetLead(h) PROVE Leader'
  BY <1>4 DEF GetLead, Goto
<1>5. ASSUME NEW h \in Handlers, WaitDone(h) PROVE Leader'
  BY <1>5 DEF WaitDone, Goto
<1>6. ASSUME NEW h \in Handlers, WaitCancelled(h) PROVE Leader'
  BY <1>6 DEF WaitCancelled, Goto
<1>7. ASSUME NEW h \in Handlers, DialOk(h) PROVE Leader'
  BY <1>7 DEF DialOk, Goto
<1>8. ASSUME NEW h \in Handlers, DialErr(h) PROVE Leader'
  BY <1>8 DEF DialErr, Goto
<1>9. ASSUME NEW h \in Handlers, PublishErr(h) PROVE Leader'
  BY <1>9 DEF PublishErr, Goto
<1>10. ASSUME NEW h \in Handlers, PublishClosed(h) PROVE Leader'
  BY <1>10 DEF PublishClosed, Goto
<1>11. ASSUME NEW h \in Handlers, PublishClient(h) PROVE Leader'
  BY <1>11 DEF PublishClient, Goto
<1>12. ASSUME NEW h \in Handlers, Announce(h) PROVE Leader'
  BY <1>12 DEF Announce, Goto
<1>13. ASSUME NEW h \in Handlers, OpenStart(h) PROVE Leader'
  BY <1>13 DEF OpenStart, Goto
<1>14. ASSUME NEW h \in Handlers, OpenOk(h) PROVE Leader'
  BY <1>14 DEF OpenOk, Goto
<1>15. ASSUME NEW h \in Handlers, OpenRejected(h) PROVE Leader'
  BY <1>15 DEF OpenRejected, Goto
<1>16. ASSUME NEW h \in Handlers, OpenFailed(h) PROVE Leader'
  BY <1>16 DEF OpenFailed, Goto
<1>17. ASSUME NEW h \in Handlers, Discard(h) PROVE Leader'
  BY <1>17 DEF Discard, Goto
<1>18. ASSUME NEW h \in Handlers, Drop(h) PROVE Leader'
  BY <1>18 DEF Drop, Goto
<1>19. ASSUME NEW a \in Attempts, Tend(a) PROVE Leader'
  BY <1>19 DEF Tend
<1>20. ASSUME NEW a \in Attempts, Lose(a) PROVE Leader'
  BY <1>20 DEF Lose
<1>21. CASE PoolClose
  BY <1>21 DEF PoolClose
<1>22. CASE PoolDrop
  BY <1>22 DEF PoolDrop
<1>23. CASE Cancel
  BY <1>23 DEF Cancel
<1>24. CASE UNCHANGED vars
  BY <1>24 DEF vars
<1>25. QED
  BY <1>1, <1>2, <1>3, <1>4, <1>5, <1>6, <1>7, <1>8, <1>9, <1>10, <1>11, <1>12,
     <1>13, <1>14, <1>15, <1>16, <1>17, <1>18, <1>19, <1>20, <1>21, <1>22,
     <1>23, <1>24
     DEF Next, Handler, Get, Wait, Dial, Publish, Open

\* A step that starts no transport and delivers no failed dial.
StartsNothing ==
    /\ \A b \in Attempts : conn[b] = "none" => conn'[b] = "none"
    /\ \A g \in Handlers :
          /\ pc'[g] \in {"get", "dial"} =>
                \/ pc[g] \in {"get", "dial"} /\ try'[g] = try[g]
                \/ try[g] = "first" /\ try'[g] = "retry"
          /\ try'[g] = "first" => try[g] = "first"
          /\ pc'[g] = "publish" =>
                pc[g] = "publish" /\ at'[g] = at[g] /\ outcome'[at[g]] = outcome[at[g]]

\* Such a step leaves the tries that have not dialled without a transport.
LEMMA StartsNothingKeeps ==
    ASSUME IInv, TypeOK', StartsNothing PROVE Unstarted'
<1> SUFFICES ASSUME NEW g \in Handlers
             PROVE /\ pc'[g] \in {"get", "dial"} => conn'[<<g, try'[g]>>] = "none"
                   /\ try'[g] = "first" => conn'[<<g, "retry">>] = "none"
                   /\ pc'[g] = "publish" /\ outcome'[at'[g]] = "error"
                         => conn'[at'[g]] = "none"
  BY DEF Unstarted
<1>0. \A n \in Tries : <<g, n>> \in Attempts
  BY DEF Attempts
<1>1. ASSUME pc'[g] \in {"get", "dial"} PROVE conn'[<<g, try'[g]>>] = "none"
  <2>1. CASE pc[g] \in {"get", "dial"} /\ try'[g] = try[g]
    <3>1. try[g] \in Tries
      BY DEF IInv, TypeOK
    <3>2. conn[<<g, try[g]>>] = "none"
      BY <2>1 DEF IInv, Unstarted
    <3>3. QED
      BY <1>0, <2>1, <3>1, <3>2 DEF StartsNothing
  <2>2. CASE try[g] = "first" /\ try'[g] = "retry"
    BY <1>0, <2>2 DEF IInv, Unstarted, StartsNothing, Tries
  <2>3. QED
    BY <1>1, <2>1, <2>2 DEF StartsNothing
<1>2. ASSUME try'[g] = "first" PROVE conn'[<<g, "retry">>] = "none"
  BY <1>0, <1>2 DEF IInv, Unstarted, StartsNothing, Tries
<1>3. ASSUME pc'[g] = "publish", outcome'[at'[g]] = "error"
      PROVE conn'[at'[g]] = "none"
  <2>1. pc[g] = "publish" /\ at'[g] = at[g] /\ outcome[at[g]] = "error"
    BY <1>3 DEF StartsNothing
  <2>2. at[g] \in Attempts
    BY <2>1 DEF IInv, Published
  <2>3. conn[at[g]] = "none"
    BY <2>1 DEF IInv, Unstarted
  <2>4. QED
    BY <2>1, <2>2, <2>3 DEF StartsNothing
<1>4. QED
  BY <1>1, <1>2, <1>3

\* A transport exists only for a try whose dial has succeeded.
LEMMA UnstartedStep == IInv /\ TypeOK' /\ [Next]_vars => Unstarted'
<1> SUFFICES ASSUME IInv, TypeOK', [Next]_vars PROVE Unstarted'
  OBVIOUS
<1> USE DEF IInv, TypeOK, StartsNothing, poolVars, netVars
<1>0. \A g \in Handlers : \A n \in Tries : <<g, n>> \in Attempts
  BY DEF Attempts
<1>1. ASSUME NEW h \in Handlers, GetClosed(h) PROVE StartsNothing
  BY <1>1 DEF GetClosed, Goto
<1>2. ASSUME NEW h \in Handlers, GetCached(h) PROVE StartsNothing
  BY <1>2 DEF GetCached, Goto
<1>3. ASSUME NEW h \in Handlers, GetJoin(h) PROVE StartsNothing
  BY <1>3 DEF GetJoin, Goto
<1>4. ASSUME NEW h \in Handlers, GetLead(h) PROVE StartsNothing
  BY <1>4 DEF GetLead, Goto
<1>5. ASSUME NEW h \in Handlers, WaitDone(h) PROVE StartsNothing
  BY <1>5 DEF WaitDone, Goto
<1>6. ASSUME NEW h \in Handlers, WaitCancelled(h) PROVE StartsNothing
  BY <1>6 DEF WaitCancelled, Goto
<1>7. ASSUME NEW h \in Handlers, DialOk(h) PROVE Unstarted'
  <2>1. at[h] = <<h, try[h]>> /\ at[h] \in Attempts /\ inflight = at[h]
    BY <1>7, <1>0 DEF Leader, Leading, DialOk
  <2>2. \A g \in Handlers : g # h => ~Leading(g)
    BY <2>1 DEF Leader
  <2>3. \A b \in Attempts : b # at[h] => conn'[b] = conn[b]
    BY <2>1, <1>7 DEF DialOk
  <2>4. /\ UNCHANGED <<try, at>>
        /\ outcome'[at[h]] = "client"
        /\ \A g \in Handlers : pc'[g] = "publish" => g = h
        /\ \A g \in Handlers : pc'[g] \in {"get", "dial"} => pc'[g] = pc[g] /\ g # h
    BY <1>7, <2>1, <2>2 DEF Leading, DialOk, Goto
  <2>5. \A g \in Handlers : pc'[g] \in {"get", "dial"} => conn'[<<g, try[g]>>] = "none"
    <3>1. \A g \in Handlers : try[g] \in Tries /\ <<g, try[g]>> \in Attempts
      BY <1>0
    <3>2. \A g \in Handlers : g # h => <<g, try[g]>> # at[h]
      BY <2>1
    <3>3. QED
      BY <2>3, <2>4, <3>1, <3>2 DEF Unstarted
  <2>6. \A g \in Handlers : try[g] = "first" => conn'[<<g, "retry">>] = "none"
    <3>1. \A g \in Handlers : try[g] = "first" => <<g, "retry">> # at[h]
      BY <2>1
    <3>2. QED
      BY <1>0, <2>3, <3>1 DEF Unstarted, Tries
  <2>7. QED
    BY <2>4, <2>5, <2>6 DEF Unstarted
<1>8. ASSUME NEW h \in Handlers, DialErr(h) PROVE Unstarted'
  <2>1. at[h] = <<h, try[h]>> /\ at[h] \in Attempts /\ inflight = at[h]
    BY <1>8, <1>0 DEF IInv, TypeOK, Leader, Leading, DialErr
  <2>a. conn[at[h]] = "none"
    BY <1>8, <2>1 DEF IInv, Unstarted, DialErr
  <2>2. \A g \in Handlers : g # h => ~Leading(g)
    BY <1>8, <2>1 DEF IInv, Leader
  <2>3. /\ UNCHANGED <<conn, try, at>>
        /\ \A g \in Handlers : pc'[g] = "publish" => g = h
        /\ \A g \in Handlers : pc'[g] \in {"get", "dial"} => pc'[g] = pc[g]
    BY <1>8, <2>2 DEF IInv, TypeOK, Leading, DialErr, Goto
  <2>4. QED
    BY <2>a, <2>3 DEF IInv, Unstarted
<1>9. ASSUME NEW h \in Handlers, PublishErr(h) PROVE StartsNothing
  BY <1>9 DEF Leader, Leading, PublishErr, Goto
<1>10. ASSUME NEW h \in Handlers, PublishClosed(h) PROVE StartsNothing
  BY <1>10 DEF Leader, Leading, Published, PublishClosed, Goto
<1>11. ASSUME NEW h \in Handlers, PublishClient(h) PROVE StartsNothing
  BY <1>11 DEF PublishClient, Goto
<1>12. ASSUME NEW h \in Handlers, Announce(h) PROVE StartsNothing
  BY <1>12 DEF Announce, Goto
<1>13. ASSUME NEW h \in Handlers, OpenStart(h) PROVE StartsNothing
  BY <1>13 DEF OpenStart, Goto
<1>14. ASSUME NEW h \in Handlers, OpenOk(h) PROVE StartsNothing
  BY <1>14 DEF OpenOk, Goto
<1>15. ASSUME NEW h \in Handlers, OpenRejected(h) PROVE StartsNothing
  BY <1>15 DEF OpenRejected, Goto
<1>16. ASSUME NEW h \in Handlers, OpenFailed(h) PROVE StartsNothing
  BY <1>16 DEF OpenFailed, Goto
<1>17. ASSUME NEW h \in Handlers, Discard(h) PROVE StartsNothing
  BY <1>17 DEF Discard, Goto
<1>18. ASSUME NEW h \in Handlers, Drop(h) PROVE StartsNothing
  BY <1>18 DEF Published, Discarded, Drop, Goto
<1>19. ASSUME NEW a \in Attempts, Tend(a) PROVE StartsNothing
  BY <1>19 DEF Published, Tend
<1>20. ASSUME NEW a \in Attempts, Lose(a) PROVE StartsNothing
  BY <1>20 DEF Lose
<1>21. ASSUME PoolClose PROVE StartsNothing
  BY <1>21 DEF PoolClose
<1>22. ASSUME PoolDrop PROVE StartsNothing
  BY <1>22 DEF Published, PoolDrop
<1>23. ASSUME Cancel PROVE StartsNothing
  BY <1>23 DEF Cancel
<1>24. ASSUME UNCHANGED vars PROVE StartsNothing
  BY <1>24 DEF vars
<1>25. QED
  BY StartsNothingKeeps, <1>1, <1>2, <1>3, <1>4, <1>5, <1>6, <1>7, <1>8, <1>9,
     <1>10, <1>11, <1>12, <1>13, <1>14, <1>15, <1>16, <1>17, <1>18, <1>19,
     <1>20, <1>21, <1>22, <1>23, <1>24
     DEF Next, Handler, Get, Wait, Dial, Publish, Open

\* A handshake's done channel is closed by its own try only.
LEMMA UnannouncedStep == IInv /\ [Next]_vars => Unannounced'
<1> SUFFICES ASSUME IInv, [Next]_vars PROVE Unannounced'
  OBVIOUS
<1> USE DEF IInv, TypeOK, Leader, Leading, Unannounced, Attempts, Tries,
        poolVars, netVars
<1>1. ASSUME NEW h \in Handlers, GetClosed(h) PROVE Unannounced'
  BY <1>1 DEF GetClosed, Goto
<1>2. ASSUME NEW h \in Handlers, GetCached(h) PROVE Unannounced'
  BY <1>2 DEF GetCached, Goto
<1>3. ASSUME NEW h \in Handlers, GetJoin(h) PROVE Unannounced'
  BY <1>3 DEF GetJoin, Goto
<1>4. ASSUME NEW h \in Handlers, GetLead(h) PROVE Unannounced'
  BY <1>4 DEF GetLead, Goto
<1>5. ASSUME NEW h \in Handlers, WaitDone(h) PROVE Unannounced'
  BY <1>5 DEF WaitDone, Goto
<1>6. ASSUME NEW h \in Handlers, WaitCancelled(h) PROVE Unannounced'
  BY <1>6 DEF WaitCancelled, Goto
<1>7. ASSUME NEW h \in Handlers, DialOk(h) PROVE Unannounced'
  BY <1>7 DEF DialOk, Goto
<1>8. ASSUME NEW h \in Handlers, DialErr(h) PROVE Unannounced'
  BY <1>8 DEF DialErr, Goto
<1>9. ASSUME NEW h \in Handlers, PublishErr(h) PROVE Unannounced'
  BY <1>9 DEF PublishErr, Goto
<1>10. ASSUME NEW h \in Handlers, PublishClosed(h) PROVE Unannounced'
  BY <1>10 DEF PublishClosed, Goto
<1>11. ASSUME NEW h \in Handlers, PublishClient(h) PROVE Unannounced'
  BY <1>11 DEF PublishClient, Goto
<1>12. ASSUME NEW h \in Handlers, Announce(h) PROVE Unannounced'
  <2>1. at[h] = <<h, try[h]>> /\ done' = done \cup {<<h, try[h]>>} /\ UNCHANGED try
    BY <1>12 DEF IInv, Leader, Announce
  <2>2. \A g \in Handlers :
           pc'[g] \in {"get", "dial", "publish"} => pc'[g] = pc[g] /\ g # h
    BY <1>12 DEF IInv, TypeOK, Announce, Goto
  <2>3. \A g \in Handlers : try[g] = "first" => <<g, "retry">> # <<h, try[h]>>
    OBVIOUS
  <2>4. QED
    BY <2>1, <2>2, <2>3 DEF IInv, Unannounced
<1>13. ASSUME NEW h \in Handlers, OpenStart(h) PROVE Unannounced'
  BY <1>13 DEF OpenStart, Goto
<1>14. ASSUME NEW h \in Handlers, OpenOk(h) PROVE Unannounced'
  BY <1>14 DEF OpenOk, Goto
<1>15. ASSUME NEW h \in Handlers, OpenRejected(h) PROVE Unannounced'
  BY <1>15 DEF OpenRejected, Goto
<1>16. ASSUME NEW h \in Handlers, OpenFailed(h) PROVE Unannounced'
  BY <1>16 DEF OpenFailed, Goto
<1>17. ASSUME NEW h \in Handlers, Discard(h) PROVE Unannounced'
  BY <1>17 DEF Discard, Goto
<1>18. ASSUME NEW h \in Handlers, Drop(h) PROVE Unannounced'
  <2>1. /\ \A g \in Handlers : pc'[g] \in {"dial", "publish"} => pc[g] = pc'[g] /\ g # h
        /\ \A g \in Handlers : g # h => pc'[g] = pc[g] /\ try'[g] = try[g]
        /\ \/ pc'[h] = "get" /\ try[h] = "first" /\ try'[h] = "retry"
           \/ pc'[h] = "failed" /\ try'[h] = try[h]
        /\ UNCHANGED done
    BY <1>18 DEF IInv, TypeOK, Drop, Goto
  <2>2. QED
    BY <2>1 DEF IInv, Unannounced
<1>19. ASSUME NEW a \in Attempts, Tend(a) PROVE Unannounced'
  BY <1>19 DEF Tend
<1>20. ASSUME NEW a \in Attempts, Lose(a) PROVE Unannounced'
  BY <1>20 DEF Lose
<1>21. CASE PoolClose
  BY <1>21 DEF PoolClose
<1>22. CASE PoolDrop
  BY <1>22 DEF PoolDrop
<1>23. CASE Cancel
  BY <1>23 DEF Cancel
<1>24. CASE UNCHANGED vars
  BY <1>24 DEF vars
<1>25. QED
  BY <1>1, <1>2, <1>3, <1>4, <1>5, <1>6, <1>7, <1>8, <1>9, <1>10, <1>11, <1>12,
     <1>13, <1>14, <1>15, <1>16, <1>17, <1>18, <1>19, <1>20, <1>21, <1>22,
     <1>23, <1>24
     DEF Next, Handler, Get, Wait, Dial, Publish, Open

\* A client in anybody's hands went through its leader's critical section.
LEMMA PublishedStep == IInv /\ [Next]_vars => Published'
<1> SUFFICES ASSUME IInv, [Next]_vars PROVE Published'
  OBVIOUS
<1> USE NoneAssumption DEF IInv, TypeOK, Leader, Unstarted, Published,
        Leading, Using, Discarded, Attempts, Tries, Forget, PCs, Dropped,
        poolVars, netVars
<1>0. \A g \in Handlers : \A n \in Tries : <<g, n>> \in Attempts
  BY DEF Attempts
<1>1. ASSUME NEW h \in Handlers, GetClosed(h) PROVE Published'
  BY <1>1 DEF GetClosed, Goto
<1>2. ASSUME NEW h \in Handlers, GetCached(h) PROVE Published'
  BY <1>2 DEF GetCached, Goto
<1>3. ASSUME NEW h \in Handlers, GetJoin(h) PROVE Published'
  BY <1>3 DEF GetJoin, Goto
<1>4. ASSUME NEW h \in Handlers, GetLead(h) PROVE Published'
  <2>1. <<h, try[h]>> \in Attempts /\ conn[<<h, try[h]>>] = "none"
    BY <1>4, <1>0 DEF IInv, TypeOK, Unstarted, GetLead
  <2>2. tend[<<h, try[h]>>] = "none"
    BY <2>1 DEF IInv, Published
  <2>3. QED
    BY <1>4, <2>1, <2>2
       DEF IInv, TypeOK, Published, Leading, Using, Discarded, GetLead, Goto,
           netVars
<1>5. ASSUME NEW h \in Handlers, WaitDone(h) PROVE Published'
  BY <1>5 DEF WaitDone, Goto
<1>6. ASSUME NEW h \in Handlers, WaitCancelled(h) PROVE Published'
  BY <1>6 DEF WaitCancelled, Goto
<1>7. ASSUME NEW h \in Handlers, DialOk(h) PROVE Published'
  <2>1. at[h] = <<h, try[h]>> /\ at[h] \in Attempts /\ inflight = at[h]
    BY <1>7, <1>0 DEF IInv, TypeOK, Leader, Leading, DialOk
  <2>a. pc[h] = "dial"
    BY <1>7 DEF DialOk
  <2>2. at[h] \notin done /\ tend[at[h]] = "none"
    <3>1. <<h, try[h]>> \notin done
      BY <2>a DEF Unannounced
    <3>2. tend[at[h]] = "none"
      BY <2>a
    <3>3. QED
      BY <2>1, <3>1, <3>2
  <2>3. \A g \in Handlers : pc[g] = "announce" => at[g] # at[h]
    BY <1>7, <2>1 DEF IInv, Leader, DialOk
  <2>4. /\ \A b \in Attempts : conn[b] # "none" => conn'[b] # "none"
        /\ conn'[at[h]] = "live"
        /\ \A b \in Attempts : b # at[h] => outcome'[b] = outcome[b]
        /\ UNCHANGED <<client, dropping, done, tend, try, at>>
    BY <1>7, <2>1 DEF IInv, TypeOK, DialOk, poolVars
  <2>5. /\ \A g \in Handlers : g # h => pc'[g] = pc[g]
        /\ pc[h] = "dial" /\ pc'[h] = "publish"
    BY <1>7 DEF IInv, TypeOK, DialOk, Goto
  <2>6. \A a \in Attempts :
           /\ tend[a] # "none" \/ outcome'[a] = "client" => conn'[a] # "none"
           /\ client = a \/ dropping = a => tend[a] # "none"
           /\ a \in done /\ outcome'[a] = "client" => tend[a] # "none"
    BY <2>1, <2>2, <2>4 DEF IInv, Published
  <2>7. \A g \in Handlers :
           /\ pc'[g] \notin {"get", "failed"} => at[g] \in Attempts
           /\ pc'[g] \in {"dial", "publish"} => tend[at[g]] = "none"
           /\ pc'[g] = "announce" /\ outcome'[at[g]] = "client"
                 => tend[at[g]] # "none"
           /\ Using(g)' \/ Discarded(g)' => Using(g) \/ Discarded(g)
    BY <2>1, <2>2, <2>3, <2>4, <2>5
       DEF IInv, Published, Leading, Using, Discarded
  <2>8. QED
    BY <2>4, <2>6, <2>7 DEF IInv, Published, Leading
<1>8. ASSUME NEW h \in Handlers, DialErr(h) PROVE Published'
  BY <1>8 DEF DialErr, Goto
<1>9. ASSUME NEW h \in Handlers, PublishErr(h) PROVE Published'
  BY <1>9 DEF PublishErr, Goto
<1>10. ASSUME NEW h \in Handlers, PublishClosed(h) PROVE Published'
  BY <1>10 DEF PublishClosed, Goto
<1>11. ASSUME NEW h \in Handlers, PublishClient(h) PROVE Published'
  BY <1>11 DEF PublishClient, Goto
<1>12. ASSUME NEW h \in Handlers, Announce(h) PROVE Published'
  <2>1. at[h] \in Attempts
    BY <1>12 DEF IInv, Published, Announce
  <2>2. QED
    BY <1>12, <2>1
       DEF IInv, TypeOK, Leader, Published, Leading, Using, Discarded,
           Announce, Goto, poolVars
<1>13. ASSUME NEW h \in Handlers, OpenStart(h) PROVE Published'
  BY <1>13 DEF OpenStart, Goto
<1>14. ASSUME NEW h \in Handlers, OpenOk(h) PROVE Published'
  BY <1>14 DEF OpenOk, Goto
<1>15. ASSUME NEW h \in Handlers, OpenRejected(h) PROVE Published'
  BY <1>15 DEF OpenRejected, Goto
<1>16. ASSUME NEW h \in Handlers, OpenFailed(h) PROVE Published'
  BY <1>16 DEF OpenFailed, Goto
<1>17. ASSUME NEW h \in Handlers, Discard(h) PROVE Published'
  BY <1>17 DEF Discard, Goto
<1>18. ASSUME NEW h \in Handlers, Drop(h) PROVE Published'
  BY <1>18 DEF Drop, Goto
<1>19. ASSUME NEW a \in Attempts, Tend(a) PROVE Published'
  BY <1>19 DEF Tend
<1>20. ASSUME NEW a \in Attempts, Lose(a) PROVE Published'
  BY <1>20 DEF Lose
<1>21. CASE PoolClose
  BY <1>21 DEF PoolClose
<1>22. CASE PoolDrop
  BY <1>22 DEF PoolDrop
<1>23. CASE Cancel
  BY <1>23 DEF Cancel
<1>24. CASE UNCHANGED vars
  BY <1>24 DEF vars
<1>25. QED
  BY <1>1, <1>2, <1>3, <1>4, <1>5, <1>6, <1>7, <1>8, <1>9, <1>10, <1>11, <1>12,
     <1>13, <1>14, <1>15, <1>16, <1>17, <1>18, <1>19, <1>20, <1>21, <1>22,
     <1>23, <1>24
     DEF Next, Handler, Get, Wait, Dial, Publish, Open

\* A discarded client is neither on offer nor, before cancellation, working.
LEMMA DroppedStep == IInv /\ [Next]_vars => Dropped'
<1> SUFFICES ASSUME IInv, [Next]_vars PROVE Dropped'
  OBVIOUS
<1> USE NoneAssumption DEF IInv, TypeOK, Leader, Unstarted, Published,
        Leading, Using, Discarded, Attempts, Tries, Forget, PCs, Dropped,
        LiveIsOwned, Held, poolVars, netVars
<1>1. ASSUME NEW h \in Handlers, GetClosed(h) PROVE Dropped'
  BY <1>1 DEF GetClosed, Goto
<1>2. ASSUME NEW h \in Handlers, GetCached(h) PROVE Dropped'
  BY <1>2 DEF GetCached, Goto
<1>3. ASSUME NEW h \in Handlers, GetJoin(h) PROVE Dropped'
  BY <1>3 DEF GetJoin, Goto
<1>4. ASSUME NEW h \in Handlers, GetLead(h) PROVE Dropped'
  BY <1>4 DEF GetLead, Goto
<1>5. ASSUME NEW h \in Handlers, WaitDone(h) PROVE Dropped'
  BY <1>5 DEF WaitDone, Goto
<1>6. ASSUME NEW h \in Handlers, WaitCancelled(h) PROVE Dropped'
  BY <1>6 DEF WaitCancelled, Goto
<1>7. ASSUME NEW h \in Handlers, DialOk(h) PROVE Dropped'
  BY <1>7 DEF DialOk, Goto
<1>8. ASSUME NEW h \in Handlers, DialErr(h) PROVE Dropped'
  BY <1>8 DEF DialErr, Goto
<1>9. ASSUME NEW h \in Handlers, PublishErr(h) PROVE Dropped'
  BY <1>9 DEF PublishErr, Goto
<1>10. ASSUME NEW h \in Handlers, PublishClosed(h) PROVE Dropped'
  BY <1>10 DEF PublishClosed, Goto
<1>11. ASSUME NEW h \in Handlers, PublishClient(h) PROVE Dropped'
  BY <1>11 DEF PublishClient, Goto
<1>12. ASSUME NEW h \in Handlers, Announce(h) PROVE Dropped'
  BY <1>12 DEF Announce, Goto
<1>13. ASSUME NEW h \in Handlers, OpenStart(h) PROVE Dropped'
  BY <1>13 DEF OpenStart, Goto
<1>14. ASSUME NEW h \in Handlers, OpenOk(h) PROVE Dropped'
  BY <1>14 DEF OpenOk, Goto
<1>15. ASSUME NEW h \in Handlers, OpenRejected(h) PROVE Dropped'
  BY <1>15 DEF OpenRejected, Goto
<1>16. ASSUME NEW h \in Handlers, OpenFailed(h) PROVE Dropped'
  BY <1>16 DEF OpenFailed, Goto
<1>17. ASSUME NEW h \in Handlers, Discard(h) PROVE Dropped'
  BY <1>17 DEF Discard, Goto
<1>18. ASSUME NEW h \in Handlers, Drop(h) PROVE Dropped'
  BY <1>18 DEF Drop, Goto
<1>19. ASSUME NEW a \in Attempts, Tend(a) PROVE Dropped'
  BY <1>19 DEF Tend
<1>20. ASSUME NEW a \in Attempts, Lose(a) PROVE Dropped'
  BY <1>20 DEF Lose
<1>21. CASE PoolClose
  BY <1>21 DEF PoolClose
<1>22. CASE PoolDrop
  BY <1>22 DEF PoolDrop
<1>23. CASE Cancel
  BY <1>23 DEF Cancel
<1>24. CASE UNCHANGED vars
  BY <1>24 DEF vars
<1>25. QED
  BY <1>1, <1>2, <1>3, <1>4, <1>5, <1>6, <1>7, <1>8, <1>9, <1>10, <1>11, <1>12,
     <1>13, <1>14, <1>15, <1>16, <1>17, <1>18, <1>19, <1>20, <1>21, <1>22,
     <1>23, <1>24
     DEF Next, Handler, Get, Wait, Dial, Publish, Open

\* A working connection is on offer or about to be closed.
LEMMA LiveIsOwnedStep == IInv /\ [Next]_vars => LiveIsOwned'
<1> SUFFICES ASSUME IInv, [Next]_vars PROVE LiveIsOwned'
  OBVIOUS
<1> USE NoneAssumption DEF IInv, TypeOK, Leader, Unstarted, Leading, Attempts,
        Forget, PCs, Dropped, LiveIsOwned, Held, poolVars, netVars
<1>1. ASSUME NEW h \in Handlers, GetClosed(h) PROVE LiveIsOwned'
  BY <1>1 DEF GetClosed, Goto
<1>2. ASSUME NEW h \in Handlers, GetCached(h) PROVE LiveIsOwned'
  BY <1>2 DEF GetCached, Goto
<1>3. ASSUME NEW h \in Handlers, GetJoin(h) PROVE LiveIsOwned'
  BY <1>3 DEF GetJoin, Goto
<1>4. ASSUME NEW h \in Handlers, GetLead(h) PROVE LiveIsOwned'
  BY <1>4 DEF GetLead, Goto
<1>5. ASSUME NEW h \in Handlers, WaitDone(h) PROVE LiveIsOwned'
  BY <1>5 DEF WaitDone, Goto
<1>6. ASSUME NEW h \in Handlers, WaitCancelled(h) PROVE LiveIsOwned'
  BY <1>6 DEF WaitCancelled, Goto
<1>7. ASSUME NEW h \in Handlers, DialOk(h) PROVE LiveIsOwned'
  BY <1>7 DEF DialOk, Goto
<1>8. ASSUME NEW h \in Handlers, DialErr(h) PROVE LiveIsOwned'
  BY <1>8 DEF DialErr, Goto
<1>9. ASSUME NEW h \in Handlers, PublishErr(h) PROVE LiveIsOwned'
  <2>1. at[h] \in Attempts /\ conn[at[h]] = "none"
    BY <1>9 DEF IInv, Leader, Leading, Unstarted, Published, PublishErr
  <2>2. \A a \in Attempts : Held(a) /\ conn[a] = "live" => Held(a)'
    BY <1>9, <2>1 DEF IInv, TypeOK, Held, PublishErr, Goto
  <2>3. QED
    BY <1>9, <2>2 DEF IInv, LiveIsOwned, PublishErr, netVars
<1>10. ASSUME NEW h \in Handlers, PublishClosed(h) PROVE LiveIsOwned'
  BY <1>10 DEF PublishClosed, Goto
<1>11. ASSUME NEW h \in Handlers, PublishClient(h) PROVE LiveIsOwned'
  BY <1>11 DEF PublishClient, Goto
<1>12. ASSUME NEW h \in Handlers, Announce(h) PROVE LiveIsOwned'
  BY <1>12 DEF Announce, Goto
<1>13. ASSUME NEW h \in Handlers, OpenStart(h) PROVE LiveIsOwned'
  BY <1>13 DEF OpenStart, Goto
<1>14. ASSUME NEW h \in Handlers, OpenOk(h) PROVE LiveIsOwned'
  BY <1>14 DEF OpenOk, Goto
<1>15. ASSUME NEW h \in Handlers, OpenRejected(h) PROVE LiveIsOwned'
  BY <1>15 DEF OpenRejected, Goto
<1>16. ASSUME NEW h \in Handlers, OpenFailed(h) PROVE LiveIsOwned'
  BY <1>16 DEF OpenFailed, Goto
<1>17. ASSUME NEW h \in Handlers, Discard(h) PROVE LiveIsOwned'
  BY <1>17 DEF Discard, Goto
<1>18. ASSUME NEW h \in Handlers, Drop(h) PROVE LiveIsOwned'
  BY <1>18 DEF Drop, Goto
<1>19. ASSUME NEW a \in Attempts, Tend(a) PROVE LiveIsOwned'
  BY <1>19 DEF Tend
<1>20. ASSUME NEW a \in Attempts, Lose(a) PROVE LiveIsOwned'
  BY <1>20 DEF Lose
<1>21. CASE PoolClose
  BY <1>21 DEF PoolClose
<1>22. CASE PoolDrop
  BY <1>22 DEF PoolDrop
<1>23. CASE Cancel
  BY <1>23 DEF Cancel
<1>24. CASE UNCHANGED vars
  BY <1>24 DEF vars
<1>25. QED
  BY <1>1, <1>2, <1>3, <1>4, <1>5, <1>6, <1>7, <1>8, <1>9, <1>10, <1>11, <1>12,
     <1>13, <1>14, <1>15, <1>16, <1>17, <1>18, <1>19, <1>20, <1>21, <1>22,
     <1>23, <1>24
     DEF Next, Handler, Get, Wait, Dial, Publish, Open

\* A dial never succeeds beside a working connection.
LEMMA OneConnectionStep == IInv /\ [Next]_vars => OneConnection'
<1> SUFFICES ASSUME IInv, [Next]_vars PROVE OneConnection'
  OBVIOUS
<1> USE NoneAssumption DEF IInv, TypeOK, Leader, Unstarted, Leading, Attempts,
        Forget, PCs, Dropped, LiveIsOwned, Held, OneConnection, poolVars,
        netVars
<1>1. ASSUME NEW h \in Handlers, GetClosed(h) PROVE OneConnection'
  BY <1>1 DEF GetClosed, Goto
<1>2. ASSUME NEW h \in Handlers, GetCached(h) PROVE OneConnection'
  BY <1>2 DEF GetCached, Goto
<1>3. ASSUME NEW h \in Handlers, GetJoin(h) PROVE OneConnection'
  BY <1>3 DEF GetJoin, Goto
<1>4. ASSUME NEW h \in Handlers, GetLead(h) PROVE OneConnection'
  BY <1>4 DEF GetLead, Goto
<1>5. ASSUME NEW h \in Handlers, WaitDone(h) PROVE OneConnection'
  BY <1>5 DEF WaitDone, Goto
<1>6. ASSUME NEW h \in Handlers, WaitCancelled(h) PROVE OneConnection'
  BY <1>6 DEF WaitCancelled, Goto
<1>7. ASSUME NEW h \in Handlers, DialOk(h) PROVE OneConnection'
  BY <1>7 DEF DialOk, Goto
<1>8. ASSUME NEW h \in Handlers, DialErr(h) PROVE OneConnection'
  BY <1>8 DEF DialErr, Goto
<1>9. ASSUME NEW h \in Handlers, PublishErr(h) PROVE OneConnection'
  BY <1>9 DEF PublishErr, Goto
<1>10. ASSUME NEW h \in Handlers, PublishClosed(h) PROVE OneConnection'
  BY <1>10 DEF PublishClosed, Goto
<1>11. ASSUME NEW h \in Handlers, PublishClient(h) PROVE OneConnection'
  BY <1>11 DEF PublishClient, Goto
<1>12. ASSUME NEW h \in Handlers, Announce(h) PROVE OneConnection'
  BY <1>12 DEF Announce, Goto
<1>13. ASSUME NEW h \in Handlers, OpenStart(h) PROVE OneConnection'
  BY <1>13 DEF OpenStart, Goto
<1>14. ASSUME NEW h \in Handlers, OpenOk(h) PROVE OneConnection'
  BY <1>14 DEF OpenOk, Goto
<1>15. ASSUME NEW h \in Handlers, OpenRejected(h) PROVE OneConnection'
  BY <1>15 DEF OpenRejected, Goto
<1>16. ASSUME NEW h \in Handlers, OpenFailed(h) PROVE OneConnection'
  BY <1>16 DEF OpenFailed, Goto
<1>17. ASSUME NEW h \in Handlers, Discard(h) PROVE OneConnection'
  BY <1>17 DEF Discard, Goto
<1>18. ASSUME NEW h \in Handlers, Drop(h) PROVE OneConnection'
  BY <1>18 DEF Drop, Goto
<1>19. ASSUME NEW a \in Attempts, Tend(a) PROVE OneConnection'
  BY <1>19 DEF Tend
<1>20. ASSUME NEW a \in Attempts, Lose(a) PROVE OneConnection'
  BY <1>20 DEF Lose
<1>21. CASE PoolClose
  BY <1>21 DEF PoolClose
<1>22. CASE PoolDrop
  BY <1>22 DEF PoolDrop
<1>23. CASE Cancel
  BY <1>23 DEF Cancel
<1>24. CASE UNCHANGED vars
  BY <1>24 DEF vars
<1>25. QED
  BY <1>1, <1>2, <1>3, <1>4, <1>5, <1>6, <1>7, <1>8, <1>9, <1>10, <1>11, <1>12,
     <1>13, <1>14, <1>15, <1>16, <1>17, <1>18, <1>19, <1>20, <1>21, <1>22,
     <1>23, <1>24
     DEF Next, Handler, Get, Wait, Dial, Publish, Open

-----------------------------------------------------------------------------
(* The theorems.                                                           *)

\* The pool starts idle, with every handler about to call get.
LEMMA InitIInv == Init => IInv
<1> SUFFICES ASSUME Init PROVE IInv
  OBVIOUS
<1> USE NoneAssumption DEF Init
<1>1. TypeOK
  BY DEF TypeOK, PCs, Tries
<1>2. Leader
  BY DEF Leader, Leading
<1>3. Unstarted
  <2>1. \A h \in Handlers : \A n \in Tries : conn[<<h, n>>] = "none"
    BY DEF Attempts
  <2>2. QED
    BY <2>1 DEF Unstarted, Tries
<1>4. Unannounced
  BY DEF Unannounced
<1>5. Published
  BY DEF Published, Leading, Using, Discarded
<1>6. Dropped
  BY DEF Dropped, Leading, Discarded
<1>7. LiveIsOwned /\ OneConnection
  BY DEF LiveIsOwned, OneConnection
<1>8. QED
  BY <1>1, <1>2, <1>3, <1>4, <1>5, <1>6, <1>7 DEF IInv

\* Every step keeps the inductive invariant.
LEMMA NextIInv == IInv /\ [Next]_vars => IInv'
  BY TypeOKStep, LeaderStep, UnstartedStep, UnannouncedStep, PublishedStep,
     DroppedStep, LiveIsOwnedStep, OneConnectionStep
     DEF IInv

\* The inductive invariant holds of every behaviour of the pool.
THEOREM Invariance == Spec => []IInv
<1>1. Init => IInv
  BY InitIInv
<1>2. IInv /\ [Next]_vars => IInv'
  BY NextIInv
<1>3. QED
  BY <1>1, <1>2, PTL DEF Spec

\* Every field and local of client.go and of dialTarget keeps its type.
THEOREM TypeCorrect == Spec => []TypeOK
<1>1. IInv => TypeOK
  BY DEF IInv
<1>2. QED
  BY <1>1, Invariance, PTL

\* Whoever leads is the one whose handshake is recorded, so there is one.
LEMMA SafetyFollows == IInv => SingleFlight /\ LiveIsOwned /\ OneConnection
<1> SUFFICES ASSUME IInv PROVE SingleFlight
  BY DEF IInv
<1> SUFFICES ASSUME NEW h \in Handlers, Leading(h)
             PROVE client = None /\ \A g \in Handlers : Leading(g) => g = h
  BY DEF SingleFlight
<1>1. client = None /\ inflight = <<h, try[h]>>
  BY DEF IInv, Leader
<1>2. \A g \in Handlers : Leading(g) => inflight = <<g, try[g]>>
  BY DEF IInv, Leader
<1>3. QED
  BY <1>1, <1>2

\* get never lets two handlers dial at once, for any number of handlers.
THEOREM HandshakesAreShared == Spec => []SingleFlight
  BY SafetyFollows, Invariance, PTL

\* No SSH connection is left without an owner, whatever close() races with.
THEOREM ConnectionsAreOwned == Spec => []LiveIsOwned
  BY SafetyFollows, Invariance, PTL

\* The pool never keeps two SSH connections up.
THEOREM ConnectionIsShared == Spec => []OneConnection
  BY SafetyFollows, Invariance, PTL

\* While the tunnel is up no step closes a connection that works.
LEMMA WorkingKept ==
    IInv /\ [Next]_vars /\ ~cancelled /\ ~closed =>
        \A a \in Attempts : conn[a] = "live" => conn'[a] # "shut"
<1> SUFFICES ASSUME IInv, [Next]_vars, ~cancelled, ~closed,
                    NEW a \in Attempts, conn[a] = "live"
             PROVE conn'[a] # "shut"
  OBVIOUS
<1> USE DEF IInv, TypeOK
<1>1. ASSUME NEW h \in Handlers, Handler(h) PROVE conn'[a] # "shut"
  <2>1. ~PublishClosed(h)
    BY DEF PublishClosed
  <2>2. CASE DialOk(h)
    BY <2>2 DEF DialOk
  <2>3. CASE Drop(h)
    <3>1. at[h] # a
      BY <2>3 DEF Dropped, Drop
    <3>2. QED
      BY <2>3, <3>1 DEF Drop
  <2>4. CASE UNCHANGED conn
    BY <2>4
  <2>5. DialOk(h) \/ Drop(h) \/ UNCHANGED conn
    BY <1>1, <2>1
       DEF Handler, Get, Wait, Dial, Publish, Open, GetClosed, GetCached,
           GetJoin, GetLead, WaitDone, WaitCancelled, DialErr, PublishErr,
           PublishClient, Announce, OpenStart, OpenOk, OpenRejected,
           OpenFailed, Discard, netVars
  <2>6. QED
    BY <2>2, <2>3, <2>4, <2>5
<1>2. ASSUME NEW b \in Attempts, Tend(b) \/ Lose(b) PROVE conn'[a] # "shut"
  BY <1>2 DEF Tend, Lose
<1>3. CASE PoolClose \/ Cancel
  BY <1>3 DEF PoolClose, Cancel, netVars
<1>4. CASE PoolDrop
  BY <1>4 DEF PoolDrop, Dropped
<1>5. CASE UNCHANGED vars
  BY <1>5 DEF vars, netVars
<1>6. QED
  BY <1>1, <1>2, <1>3, <1>4, <1>5 DEF Next

\* No handler, tend or handshake closes a working connection while the tunnel
\* is up: a target that refuses one handler costs the others nothing.
THEOREM WorkingConnectionKept == Spec => ChannelsSurvive
<1>1. IInv /\ [Next]_vars =>
        [ ~cancelled /\ ~closed =>
            \A a \in Attempts : conn[a] = "live" => conn'[a] # "shut" ]_vars
  BY WorkingKept
<1>2. QED
  BY <1>1, Invariance, PTL DEF Spec, ChannelsSurvive

\* The second try of dialTarget is never given the client that failed it.
THEOREM RetryGetsAnother == Spec => RetryIsFresh
<1>1. IInv /\ [Next]_vars =>
        [ \A h \in Handlers :
            pc[h] = "get" /\ pc'[h] \in {"open", "wait"} /\ try[h] = "retry"
              => at'[h] # at[h] ]_vars
  <2> SUFFICES ASSUME IInv, [Next]_vars, NEW h \in Handlers, pc[h] = "get",
                      pc'[h] \in {"open", "wait"}, try[h] = "retry"
               PROVE at'[h] # at[h]
    OBVIOUS
  <2> USE NoneAssumption DEF IInv, TypeOK
  <2>0. at[h] \in Attempts /\ tend[at[h]] # "none" /\ client # at[h]
    BY DEF Published, Dropped, Discarded
  <2>1. GetCached(h) \/ GetJoin(h)
    <3>1. ASSUME NEW g \in Handlers, Handler(g), g # h PROVE pc'[h] = pc[h]
      BY <3>1
         DEF Handler, Get, Wait, Dial, Publish, Open, GetClosed, GetCached,
             GetJoin, GetLead, WaitDone, WaitCancelled, DialOk, DialErr,
             PublishErr, PublishClosed, PublishClient, Announce, OpenStart,
             OpenOk, OpenRejected, OpenFailed, Discard, Drop, Goto
    <3>2. ASSUME Handler(h) PROVE GetCached(h) \/ GetJoin(h)
      BY <3>2
         DEF Handler, Get, Wait, Dial, Publish, Open, GetClosed, GetLead,
             WaitDone, WaitCancelled, DialOk, DialErr, PublishErr,
             PublishClosed, PublishClient, Announce, OpenStart, OpenOk,
             OpenRejected, OpenFailed, Discard, Drop, Goto
    <3>3. QED
      BY <3>1, <3>2
         DEF Next, Tend, Lose, PoolClose, PoolDrop, Cancel, vars
  <2>2. CASE GetCached(h)
    BY <2>0, <2>2 DEF GetCached
  <2>3. CASE GetJoin(h)
    <3>1. PICK g \in Handlers : Leading(g)
      BY <2>3 DEF GetJoin, Leader
    <3>2. inflight = at[g] /\ tend[at[g]] = "none"
      BY <3>1 DEF Leader, Published
    <3>3. QED
      BY <2>0, <2>3, <3>2 DEF GetJoin
  <2>4. QED
    BY <2>1, <2>2, <2>3
<1>2. QED
  BY <1>1, Invariance, PTL DEF Spec, RetryIsFresh

\* The pool's promise, step by step: what happens to its fields is a step of
\* the one shared link, or nothing the callers can see.
THEOREM PoolImplementsLink == Spec => Shared!Init /\ [][Shared!Next]_Link
<1>1. Init => Shared!Init
  BY DEF Init, Shared!Init, Link
<1>2. IInv /\ [Next]_vars => [Shared!Next]_Link
  <2> SUFFICES ASSUME IInv, [Next]_vars PROVE Shared!Next \/ UNCHANGED Link
    OBVIOUS
  <2> USE NoneAssumption
          DEF Shared!Next, Shared!Connect, Shared!Resolve, Shared!Drop, Shared!Stop
  <2>1. CASE closed
    <3>1. closed'
      BY <2>1
         DEF Next, Handler, Get, Wait, Dial, Publish, Open, GetClosed,
             GetCached, GetJoin, GetLead, WaitDone, WaitCancelled, DialOk,
             DialErr, PublishErr, PublishClosed, PublishClient, Announce,
             OpenStart, OpenOk, OpenRejected, OpenFailed, Discard, Drop, Tend,
             Lose, PoolClose, PoolDrop, Cancel, vars, poolVars
    <3>2. QED
      BY <2>1, <3>1 DEF Link
  <2>2. CASE ~closed
    <3>1. ASSUME NEW h \in Handlers, GetLead(h) PROVE Shared!Next
      BY <2>2, <3>1 DEF IInv, TypeOK, Attempts, Tries, GetLead, Link
    <3>2. ASSUME NEW h \in Handlers, PublishErr(h) PROVE Shared!Next
      BY <2>2, <3>2
         DEF IInv, TypeOK, Leader, Leading, Published, PublishErr, Link
    <3>3. ASSUME NEW h \in Handlers, PublishClient(h) PROVE Shared!Next
      BY <2>2, <3>3
         DEF IInv, TypeOK, Leader, Leading, Published, PublishClient, Link
    <3>4. ASSUME NEW a \in Attempts, client' = Forget(a), UNCHANGED <<inflight, closed>>
          PROVE Shared!Next \/ UNCHANGED Link
      <4>1. client # None => inflight = None
        BY DEF IInv, Leader
      <4>2. QED
        BY <2>2, <3>4, <4>1 DEF Link, Forget
    <3>5. ASSUME NEW h \in Handlers, Discard(h) PROVE Shared!Next \/ UNCHANGED Link
      BY <3>4, <3>5 DEF IInv, Published, Discard
    <3>6. ASSUME NEW a \in Attempts, Tend(a) PROVE Shared!Next \/ UNCHANGED Link
      BY <3>4, <3>6 DEF Tend
    <3>7. CASE PoolClose
      BY <2>2, <3>7 DEF PoolClose, Link
    <3>8. CASE UNCHANGED <<client, inflight, closed>>
      BY <3>8 DEF Link
    <3>9. QED
      BY <2>2, <3>1, <3>2, <3>3, <3>5, <3>6, <3>7, <3>8
         DEF Next, Handler, Get, Wait, Dial, Publish, Open, GetClosed,
             GetCached, GetJoin, WaitDone, WaitCancelled, DialOk, DialErr,
             PublishClosed, Announce, OpenStart, OpenOk, OpenRejected,
             OpenFailed, Drop, Lose, PoolDrop, Cancel, vars, poolVars
  <2>3. QED
    BY <2>1, <2>2
<1>3. QED
  BY <1>1, <1>2, Invariance, PTL DEF Spec
=============================================================================
