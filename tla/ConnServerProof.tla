--------------------------- MODULE ConnServerProof ---------------------------
(***************************************************************************)
(* Proofs about ConnServer for any finite set of local connections: its    *)
(* invariants, from one inductive invariant.                               *)
(***************************************************************************)
EXTENDS ConnServer, FiniteSetTheorems, TLAPS

\* The wait group counts the handlers that have not called wg.Done().
WgCounts ==
    /\ wg = Cardinality(Counted)
    /\ serve = "returned" => wg = 0

\* An open connection is in Serve's hand or in its handler's.
InHand ==
    /\ serve = "register" <=> accepted # None
    /\ \A c \in Conns :
          /\ c = accepted => handler[c] = "none" /\ sock[c] = "open"
          /\ sock[c] = "open" => c = accepted \/ handler[c] \in {"running", "closing"}
          /\ sock[c] = "none" => handler[c] = "none"

\* What Close finds in s.conns it closes, and nothing is listed afterwards.
ListedIsClosed ==
    /\ \A c \in conns : handler[c] # "none"
    /\ closed => \A c \in conns : sock[c] = "closed"

IInv ==
    /\ TypeOK
    /\ WgCounts
    /\ InHand
    /\ ListedIsClosed
    /\ EveryHandlerIsListed

-----------------------------------------------------------------------------

\* Starting a handler adds one to the handlers still counted.
LEMMA CountedGrows ==
    ASSUME TypeOK, NEW c \in Conns, handler[c] = "none",
           handler' = [handler EXCEPT ![c] = "running"]
    PROVE  Cardinality(Counted') = Cardinality(Counted) + 1
<1>1. IsFiniteSet(Counted)
  BY ConnsAssumption, FS_Subset DEF Counted
<1>2. Counted' = Counted \cup {c} /\ c \notin Counted
  BY DEF Counted, TypeOK
<1>3. QED
  BY <1>1, <1>2, FS_AddElement

\* wg.Done() takes one from them.
LEMMA CountedShrinks ==
    ASSUME TypeOK, NEW c \in Conns, handler[c] = "leaving",
           handler' = [handler EXCEPT ![c] = "done"]
    PROVE  /\ Cardinality(Counted') = Cardinality(Counted) - 1
           /\ Cardinality(Counted) \in Nat \ {0}
<1>1. IsFiniteSet(Counted)
  BY ConnsAssumption, FS_Subset DEF Counted
<1>2. Counted' = Counted \ {c} /\ c \in Counted
  BY DEF Counted, TypeOK
<1>3. Cardinality(Counted) \in Nat /\ Cardinality(Counted) # 0
  BY <1>1, <1>2, FS_CardinalityType, FS_EmptySet
<1>4. QED
  BY <1>1, <1>2, <1>3, FS_RemoveElement

\* No handler is counted once the counter is zero.
LEMMA NoneCounted ==
    ASSUME wg = Cardinality(Counted), wg = 0 PROVE Counted = {}
  BY ConnsAssumption, FS_Subset, FS_EmptySet DEF Counted

LEMMA InitIInv == Init => IInv
<1> SUFFICES ASSUME Init PROVE IInv
  OBVIOUS
<1>1. Counted = {}
  BY DEF Init, Counted
<1>2. WgCounts
  BY <1>1, FS_EmptySet DEF Init, WgCounts
<1>3. QED
  BY <1>2, ConnsAssumption
     DEF Init, IInv, TypeOK, Hooks, Handlers, Serves, InHand, ListedIsClosed,
         EveryHandlerIsListed

\* Close keeps the inductive invariant whenever it is called, also by an owner
\* whose Serve has not run.
LEMMA CloseIInv ==
    ASSUME IInv, CloseAll, UNCHANGED <<cancelled, hook, conns, wg, handler, serve, accepted>>
    PROVE  IInv'
<1>1. Counted' = Counted
  BY DEF Counted
<1>2. WgCounts'
  BY <1>1 DEF IInv, WgCounts
<1>3. QED
  BY <1>2, ConnsAssumption
     DEF IInv, TypeOK, Hooks, Handlers, Serves, InHand, ListedIsClosed,
         EveryHandlerIsListed, CloseAll

\* Every step keeps the inductive invariant.
LEMMA NextIInv == IInv /\ [Next]_vars => IInv'
<1> SUFFICES ASSUME IInv, [Next]_vars PROVE IInv'
  OBVIOUS
<1> USE ConnsAssumption DEF IInv, TypeOK, Hooks, Handlers, Serves, InHand,
        ListedIsClosed, EveryHandlerIsListed
<1>1. CASE Arm
  <2>1. Counted' = Counted
    BY <1>1 DEF Counted, Arm
  <2>2. WgCounts'
    BY <1>1, <2>1 DEF WgCounts, Arm
  <2>3. QED
    BY <1>1, <2>2 DEF Arm
<1>2. CASE AcceptClosed
  <2>1. Counted' = Counted
    BY <1>2 DEF Counted, AcceptClosed
  <2>2. WgCounts'
    BY <1>2, <2>1 DEF WgCounts, AcceptClosed
  <2>3. QED
    BY <1>2, <2>2 DEF AcceptClosed
<1>3. CASE AcceptError
  <2>1. Counted' = Counted
    BY <1>3 DEF Counted, AcceptError
  <2>2. WgCounts'
    BY <1>3, <2>1 DEF WgCounts, AcceptError
  <2>3. QED
    BY <1>3, <2>2 DEF AcceptError
<1>4. CASE Refuse
  <2>1. Counted' = Counted
    BY <1>4 DEF Counted, Refuse
  <2>2. WgCounts'
    BY <1>4, <2>1 DEF WgCounts, Refuse
  <2>3. QED
    BY <1>4, <2>2 DEF Refuse
<1>5. CASE Register
  <2>1. accepted \in Conns /\ handler[accepted] = "none"
    BY <1>5 DEF Register
  <2>2. wg' = Cardinality(Counted')
    <3>1. Cardinality(Counted') = Cardinality(Counted) + 1
      BY <1>5, <2>1, CountedGrows DEF Register
    <3>2. QED
      BY <1>5, <3>1 DEF WgCounts, Register
  <2>3. WgCounts'
    BY <1>5, <2>2 DEF WgCounts, Register
  <2>4. QED
    BY <1>5, <2>1, <2>3 DEF Register
<1>6. CASE Stop
  <2>1. Counted' = Counted
    BY <1>6 DEF Counted, Stop
  <2>2. WgCounts'
    BY <1>6, <2>1 DEF WgCounts, Stop
  <2>3. QED
    BY <1>6, <2>2 DEF Stop
<1>7. CASE Return
  <2>1. Counted' = Counted
    BY <1>7 DEF Counted, Return
  <2>2. WgCounts'
    BY <1>7, <2>1 DEF WgCounts, Return
  <2>3. QED
    BY <1>7, <2>2 DEF Return
<1>8. ASSUME NEW c \in Conns, Accept(c) PROVE IInv'
  <2>1. Counted' = Counted
    BY <1>8 DEF Counted, Accept
  <2>2. WgCounts'
    BY <1>8, <2>1 DEF WgCounts, Accept
  <2>3. QED
    BY <1>8, <2>2 DEF Accept
<1>9. ASSUME NEW c \in Conns, HandlerEnds(c) PROVE IInv'
  <2>1. Counted' = Counted
    BY <1>9 DEF Counted, HandlerEnds
  <2>2. WgCounts'
    BY <1>9, <2>1 DEF WgCounts, HandlerEnds
  <2>3. QED
    BY <1>9, <2>2 DEF HandlerEnds
<1>10. ASSUME NEW c \in Conns, RunClose(c) PROVE IInv'
  <2>1. Counted' = Counted
    BY <1>10 DEF Counted, RunClose
  <2>2. WgCounts'
    BY <1>10, <2>1 DEF WgCounts, RunClose
  <2>3. QED
    BY <1>10, <2>2 DEF RunClose
<1>11. ASSUME NEW c \in Conns, Forget(c) PROVE IInv'
  <2>1. Counted' = Counted
    BY <1>11 DEF Counted, Forget
  <2>2. WgCounts'
    BY <1>11, <2>1 DEF WgCounts, Forget
  <2>3. QED
    BY <1>11, <2>2 DEF Forget
<1>12. ASSUME NEW c \in Conns, Done(c) PROVE IInv'
  <2>1. Cardinality(Counted') = Cardinality(Counted) - 1
    BY <1>12, CountedShrinks DEF Done
  <2>2. wg # 0
    BY <1>12, CountedShrinks DEF WgCounts, Done
  <2>3. WgCounts'
    BY <1>12, <2>1, <2>2 DEF WgCounts, Done
  <2>4. QED
    BY <1>12, <2>2, <2>3 DEF Done
<1>13. CASE HookFires
  <2>1. Counted' = Counted
    BY <1>13 DEF Counted, HookFires
  <2>2. WgCounts'
    BY <1>13, <2>1 DEF WgCounts, HookFires
  <2>3. QED
    BY <1>13, <2>2 DEF HookFires
<1>14. CASE HookCloses
  <2>1. Counted' = Counted
    BY <1>14 DEF Counted, HookCloses
  <2>2. WgCounts'
    BY <1>14, <2>1 DEF WgCounts, HookCloses
  <2>3. QED
    BY <1>14, <2>2 DEF HookCloses, CloseAll
<1>15. CASE OwnerCloses
  BY <1>15, CloseIInv DEF OwnerCloses
<1>16. CASE Cancel
  <2>1. Counted' = Counted
    BY <1>16 DEF Counted, Cancel
  <2>2. WgCounts'
    BY <1>16, <2>1 DEF WgCounts, Cancel
  <2>3. QED
    BY <1>16, <2>2 DEF Cancel
<1>17. CASE UNCHANGED vars
  <2>1. Counted' = Counted
    BY <1>17 DEF Counted, vars
  <2>2. WgCounts'
    BY <1>17, <2>1 DEF WgCounts, vars
  <2>3. QED
    BY <1>17, <2>2 DEF vars
<1>18. QED
  BY <1>1, <1>2, <1>3, <1>4, <1>5, <1>6, <1>7, <1>8, <1>9, <1>10, <1>11,
     <1>12, <1>13, <1>14, <1>15, <1>16, <1>17
     DEF Next, Serving, Run

-----------------------------------------------------------------------------

\* The inductive invariant holds of every behaviour of the server.
THEOREM Invariance == Spec => []IInv
<1>1. QED
  BY InitIInv, NextIInv, PTL DEF Spec

\* Types are kept and the wait group never goes negative.
THEOREM TypeCorrect == Spec => []TypeOK
<1>1. IInv => TypeOK
  BY DEF IInv
<1>2. QED
  BY <1>1, Invariance, PTL

\* No handler is counted once Serve has returned.
LEMMA NoneServed == IInv /\ serve = "returned" => Counted = {}
  BY NoneCounted DEF IInv, WgCounts

\* A connection Serve has accepted is in its hand until it registers it, and
\* has no handler until then; so what is open once it has returned is nobody's.
LEMMA QuietFollows == IInv => QuietAfterServe
<1> SUFFICES ASSUME IInv, serve = "returned", NEW c \in Conns
             PROVE handler[c] \in {"none", "done"} /\ sock[c] # "open"
  BY DEF QuietAfterServe
<1>1. Counted = {}
  BY NoneServed
<1>2. handler[c] \in {"none", "done"}
  BY <1>1 DEF Counted
<1>3. sock[c] # "open"
  BY <1>2, ConnsAssumption DEF IInv, TypeOK, InHand
<1>4. QED
  BY <1>2, <1>3

\* Serve never returns over a running handler or an open connection, for any
\* number of connections.
THEOREM ServeWaits == Spec => []QuietAfterServe
  BY QuietFollows, Invariance, PTL

\* An open connection is in hand, or listed and so closed by Close.
LEMMA DropsFollow == IInv => CloseDropsAll
  BY DEF IInv, CloseDropsAll, InHand, ListedIsClosed, EveryHandlerIsListed

\* No connection slips through a Close.
THEOREM CloseIsComplete == Spec => []CloseDropsAll
  BY DropsFollow, Invariance, PTL

\* Every connection a handler owns is where Close looks for it.
THEOREM HandlersAreListed == Spec => []EveryHandlerIsListed
<1>1. IInv => EveryHandlerIsListed
  BY DEF IInv
<1>2. QED
  BY <1>1, Invariance, PTL
=============================================================================
