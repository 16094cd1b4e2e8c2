------------------------ MODULE KubernetesTunnelProof ------------------------
(***************************************************************************)
(* Proofs about KubernetesTunnel for any pods, services and ports: the      *)
(* endpoint it selects and the readiness it signals, from one inductive     *)
(* invariant.                                                               *)
(***************************************************************************)
EXTENDS KubernetesTunnel, TLAPS

clusterPhases == {"config", "rejected", "service", "pods"}
early == clusterPhases \cup {"scan", "forward", "starting", "recheck", "signal"}

\* What holds until the pods are listed, and until one is selected.
Unlisted ==
    /\ pc \notin {"config", "rejected"} => target \in 1..MaxPort
    /\ pc \in clusterPhases => DOMAIN pods = {} /\ ~portErr
    /\ pc \in clusterPhases \cup {"scan"} => endpoint = None

\* The pods the loop has passed are of no use, and it remembers a ready one.
Passed ==
    /\ \A p \in DOMAIN pods \ left :
          /\ p \notin Usable
          /\ PodReady(pods[p]) => portErr
    /\ portErr => \E p \in DOMAIN pods : PodReady(pods[p])

\* An error is final; those of the loop come after its last pod.
Reported ==
    /\ err # "none" => pc = "ended"
    /\ err \in {"port", "pods"} => left = {} /\ (err = "port" <=> portErr)

\* What each place on the way to the signal knows of the ready channel.
Checked ==
    /\ late => cancelled
    /\ pc \in early => ~advertised
    /\ pc \in {"recheck", "signal"} => ready
    /\ pc = "signal" => ~late

IInv ==
    /\ TypeOK
    /\ Unlisted
    /\ Passed
    /\ Reported
    /\ Checked
    /\ EndpointIsMeant
    /\ ReadyIsReal

-----------------------------------------------------------------------------

\* A port survives int32().
LEMMA PortIsInt32 == ASSUME NEW n \in 1..MaxPort PROVE Int32(n) = n
<1> DEFINE half == Int32Size \div 2
<1>1. half \in Nat /\ n + half \in 0..(Int32Size - 1)
  BY ConstantsAssumption
<1>2. (n + half) % Int32Size = n + half
  BY <1>1, ConstantsAssumption
<1>3. QED
  BY <1>1, <1>2 DEF Int32

LEMMA InitIInv == Init => IInv
  BY DEF Init, IInv, TypeOK, Unlisted, Passed, Reported, Checked, EndpointIsMeant,
         ReadyIsReal, early, clusterPhases

\* What is said of the pods depends on these variables only.
LEMMA ClusterKept ==
    ASSUME UNCHANGED <<service, pods, target>>
    PROVE  /\ \A p \in DOMAIN pods : PortOf(p)' = PortOf(p)
           /\ Usable' = Usable
  BY DEF PortOf, Usable

-----------------------------------------------------------------------------
(* The steps that find the endpoint                                        *)

LEMMA ConfigureKeeps == IInv /\ Configure => IInv'
<1> SUFFICES ASSUME IInv, Configure PROVE IInv'
  OBVIOUS
<1>1. Usable' = Usable
  BY ClusterKept DEF Configure, configVars, clusterVars
<1>2. TypeOK' /\ Unlisted'
  BY ConstantsAssumption DEF IInv, TypeOK, Unlisted, Configure, clusterPhases, configVars,
         clusterVars, forwardVars, signalVars
<1>3. Passed' /\ Reported' /\ Checked'
  BY <1>1 DEF IInv, Unlisted, Passed, Reported, Checked, Configure, clusterPhases, early,
         configVars, clusterVars, forwardVars, signalVars
<1>4. EndpointIsMeant' /\ ReadyIsReal'
  BY <1>1 DEF IInv, Unlisted, Reported, EndpointIsMeant, ReadyIsReal, Configure,
         clusterPhases, configVars, clusterVars, forwardVars, signalVars
<1>5. QED
  BY <1>2, <1>3, <1>4 DEF IInv

\* While nothing is listed, nothing is usable, and nothing is claimed.
LEMMA GetServiceKeeps == IInv /\ GetService => IInv'
<1> SUFFICES ASSUME IInv, GetService PROVE IInv'
  OBVIOUS
<1> USE DEF GetService, End, configVars, forwardVars, signalVars, clusterPhases, early
<1>1. TypeOK' /\ Unlisted'
  BY DEF IInv, TypeOK, Unlisted
<1>2. DOMAIN pods' = {} /\ endpoint' = None /\ err' \in {"none", "selector"}
  BY DEF IInv, Unlisted, Reported
<1>3. Passed' /\ Reported' /\ Checked'
  BY <1>2 DEF IInv, Unlisted, Passed, Reported, Checked
<1>4. EndpointIsMeant' /\ ReadyIsReal'
  BY <1>2 DEF IInv, EndpointIsMeant, ReadyIsReal
<1>5. QED
  BY <1>1, <1>3, <1>4 DEF IInv

LEMMA ListPodsKeeps == IInv /\ ListPods => IInv'
<1> SUFFICES ASSUME IInv, ListPods PROVE IInv'
  OBVIOUS
<1> USE DEF ListPods, configVars, forwardVars, signalVars, clusterPhases, early
<1>1. left' = DOMAIN pods' /\ left' \subseteq Pods /\ endpoint' = None /\ ~portErr'
      /\ err' = "none"
  BY DEF IInv, Unlisted, Reported
<1>2. TypeOK' /\ Unlisted'
  BY <1>1 DEF IInv, TypeOK, Unlisted
<1>3. Passed' /\ Reported' /\ Checked'
  BY <1>1 DEF IInv, Passed, Reported, Checked
<1>4. EndpointIsMeant' /\ ReadyIsReal'
  BY <1>1 DEF IInv, EndpointIsMeant, ReadyIsReal
<1>5. QED
  BY <1>2, <1>3, <1>4 DEF IInv

LEMMA SkipKeeps ==
    ASSUME IInv, NEW p \in Pods, Skip(p) \/ Unresolved(p) PROVE IInv'
<1> USE DEF Skip, Unresolved, Least, configVars, forwardVars, signalVars, clusterPhases, early
<1>1. Usable' = Usable /\ p \in DOMAIN pods /\ p \notin Usable
  BY ClusterKept DEF IInv, TypeOK, Usable
<1>2. Unlisted'
  BY DEF IInv, Unlisted
<1>3. TypeOK'
  <2>1. CASE Skip(p)
    BY <2>1 DEF IInv, TypeOK
  <2>2. CASE Unresolved(p)
    BY <2>2 DEF IInv, TypeOK
  <2>3. QED
    BY <2>1, <2>2
<1>4. err' = "none" /\ endpoint' = None /\ pods' = pods /\ left' = left \ {p}
  BY DEF IInv, Unlisted, Reported
<1>5. Passed'
  BY <1>1, <1>4 DEF IInv, Passed
<1>6. Reported' /\ Checked'
  BY <1>4 DEF IInv, Reported, Checked
<1>7. EndpointIsMeant' /\ ReadyIsReal'
  BY <1>4 DEF IInv, EndpointIsMeant, ReadyIsReal
<1>8. QED
  BY <1>2, <1>3, <1>5, <1>6, <1>7 DEF IInv

\* The least pod left is the least usable one: those before it were passed.
LEMMA SelectKeeps ==
    ASSUME IInv, NEW p \in Pods, Select(p) PROVE IInv'
<1> USE DEF Select, Least, configVars, forwardVars, signalVars, clusterPhases, early
<1>1. Usable' = Usable /\ PortOf(p)' = PortOf(p) /\ p \in Usable
  BY ClusterKept DEF IInv, TypeOK, Usable
<1>2. TypeOK' /\ Unlisted'
  BY DEF IInv, TypeOK, Unlisted
<1>3. Passed' /\ Reported' /\ Checked'
  BY <1>1 DEF IInv, Passed, Reported, Checked
<1>4. \A q \in Usable : p <= q
  BY DEF IInv, Passed, Usable
<1>5. FindServicePort(service, target) = None => PortOf(p) = target
  BY PortIsInt32 DEF IInv, Unlisted, PortOf, ResolvePodPort
<1>6. err' = "none" /\ endpoint'.pod = p /\ endpoint'.port = PortOf(p)
  BY DEF IInv, Reported
<1>7. EndpointIsMeant'
  BY <1>1, <1>4, <1>5, <1>6 DEF EndpointIsMeant
<1>8. ReadyIsReal'
  BY DEF IInv, ReadyIsReal
<1>9. QED
  BY <1>2, <1>3, <1>7, <1>8 DEF IInv

LEMMA ExhaustedKeeps == IInv /\ Exhausted => IInv'
<1> SUFFICES ASSUME IInv, Exhausted PROVE IInv'
  OBVIOUS
<1> USE DEF Exhausted, End, configVars, clusterVars, forwardVars, signalVars, clusterPhases, early
<1>1. Usable' = Usable /\ endpoint' = None
  BY ClusterKept DEF IInv, Unlisted
<1>2. TypeOK' /\ Unlisted'
  BY DEF IInv, TypeOK, Unlisted
<1>3. Passed' /\ Reported' /\ Checked'
  BY <1>1 DEF IInv, Passed, Reported, Checked
<1>4. EndpointIsMeant' /\ ReadyIsReal'
  BY <1>1 DEF IInv, Passed, Usable, EndpointIsMeant, ReadyIsReal
<1>5. QED
  BY <1>2, <1>3, <1>4 DEF IInv

-----------------------------------------------------------------------------
(* The steps that leave the endpoint alone                                 *)

\* What is said of the endpoint holds on if the tunnel goes on, or ends for
\* another reason than the loop's.
LEMMA EndpointKept ==
    ASSUME IInv, UNCHANGED <<configVars, clusterVars>>,
           pc' = pc \/ (pc \notin {"config", "rejected"} /\ pc' \notin clusterPhases \cup {"scan"}),
           err' = err \/ (err' \notin {"none", "port", "pods"} /\ pc' = "ended"),
           err # "none" => pc' = "ended"
    PROVE  Unlisted' /\ Passed' /\ Reported' /\ EndpointIsMeant'
<1> USE DEF configVars, clusterVars, clusterPhases
<1>1. Usable' = Usable /\ \A p \in DOMAIN pods : PortOf(p)' = PortOf(p)
  BY ClusterKept
<1>2. Unlisted'
  BY DEF IInv, Unlisted
<1>3. Passed' /\ Reported'
  BY <1>1 DEF IInv, Passed, Reported
<1>4. endpoint # None => endpoint.pod \in DOMAIN pods
  BY DEF IInv, EndpointIsMeant, Usable
<1>5. EndpointIsMeant'
  BY <1>1, <1>4 DEF IInv, EndpointIsMeant
<1>6. QED
  BY <1>2, <1>3, <1>5

LEMMA MainKeeps ==
    IInv /\ (RequestFails \/ Forward) => IInv'
<1> SUFFICES ASSUME IInv, RequestFails \/ Forward PROVE IInv'
  OBVIOUS
<1> USE DEF RequestFails, Forward, NewForwardFails, Run, RunCancelled, Ended, StartReady,
            Recheck, Signal, SignalFails, Return, End, configVars, forwardVars, signalVars,
            clusterPhases, early
<1>1. UNCHANGED <<configVars, clusterVars, cancelled>>
  OBVIOUS
<1>2. err = "none"
  BY DEF IInv, Reported
<1>3. Unlisted' /\ Passed' /\ Reported' /\ EndpointIsMeant'
  BY <1>1, <1>2, EndpointKept
<1>4. TypeOK'
  <2>1. CASE RequestFails
    BY <2>1 DEF IInv, TypeOK, clusterVars
  <2>2. CASE NewForwardFails
    BY <2>2 DEF IInv, TypeOK, clusterVars
  <2>3. CASE Run
    BY <2>3 DEF IInv, TypeOK, clusterVars
  <2>4. CASE RunCancelled
    BY <2>4 DEF IInv, TypeOK, clusterVars
  <2>5. CASE Ended
    BY <2>5 DEF IInv, TypeOK, clusterVars
  <2>6. CASE StartReady
    BY <2>6 DEF IInv, TypeOK, clusterVars
  <2>7. CASE Recheck
    BY <2>7 DEF IInv, TypeOK, clusterVars
  <2>8. CASE Signal
    BY <2>8 DEF IInv, TypeOK, clusterVars
  <2>9. CASE SignalFails
    BY <2>9 DEF IInv, TypeOK, clusterVars
  <2>10. QED
    BY <2>1, <2>2, <2>3, <2>4, <2>5, <2>6, <2>7, <2>8, <2>9
<1>5. Checked' /\ ReadyIsReal'
  BY <1>1, <1>2 DEF IInv, TypeOK, Checked, ReadyIsReal
<1>6. QED
  BY <1>3, <1>4, <1>5 DEF IInv

LEMMA ForwarderKeeps ==
    IInv /\ (Dialled \/ Listen \/ Stopped \/ ConnectionLost \/ Send \/ Interrupted) => IInv'
<1> SUFFICES ASSUME IInv,
                    Dialled \/ Listen \/ Stopped \/ ConnectionLost \/ Send \/ Interrupted
             PROVE  IInv'
  OBVIOUS
<1> USE DEF Dialled, Listen, Stopped, ConnectionLost, Send, Interrupted, Forwarder,
            configVars, forwardVars, signalVars
<1>1. UNCHANGED <<pc, err, configVars, clusterVars, signalVars>>
  OBVIOUS
<1>2. Unlisted' /\ Passed' /\ Reported' /\ EndpointIsMeant'
  BY <1>1, EndpointKept DEF IInv, Reported
<1>3. TypeOK'
  <2>1. CASE Dialled
    BY <2>1 DEF IInv, TypeOK, clusterVars
  <2>2. CASE Listen
    <3>1. /\ forwarder' \in {"forwarding", "over"} /\ ready' \in BOOLEAN
          /\ UNCHANGED <<pc, target, clusterVars, cancelled, stop, done, advertised, late, err>>
      BY <2>2 DEF IInv, TypeOK
    <3>2. QED
      BY <3>1 DEF IInv, TypeOK, clusterVars
  <2>3. CASE Stopped
    BY <2>3 DEF IInv, TypeOK, clusterVars
  <2>4. CASE ConnectionLost
    BY <2>4 DEF IInv, TypeOK, clusterVars
  <2>5. CASE Send
    BY <2>5 DEF IInv, TypeOK, clusterVars
  <2>6. CASE Interrupted
    BY <2>6 DEF IInv, TypeOK, clusterVars
  <2>7. QED
    BY <2>1, <2>2, <2>3, <2>4, <2>5, <2>6
<1>4. Checked' /\ ReadyIsReal'
  BY DEF IInv, TypeOK, Checked, ReadyIsReal
<1>5. QED
  BY <1>2, <1>3, <1>4 DEF IInv

LEMMA StutterKeeps == IInv /\ UNCHANGED vars => IInv'
  BY DEF IInv, vars, configVars, clusterVars, forwardVars, signalVars, TypeOK, Unlisted, Passed,
         Reported, Checked, EndpointIsMeant, ReadyIsReal, Usable, PortOf

LEMMA NextKeeps == IInv /\ [Next]_vars => IInv'
<1> SUFFICES ASSUME IInv, [Next]_vars PROVE IInv'
  OBVIOUS
<1>1. CASE Configure
  BY <1>1, ConfigureKeeps
<1>2. CASE Resolve
  BY <1>2, GetServiceKeeps, ListPodsKeeps, MainKeeps, ExhaustedKeeps, SkipKeeps, SelectKeeps
     DEF Resolve
<1>3. CASE Forward
  BY <1>3, MainKeeps
<1>4. CASE Dialled \/ Listen \/ Stopped \/ ConnectionLost \/ Send \/ Interrupted
  BY <1>4, ForwarderKeeps
<1>5. CASE UNCHANGED vars
  BY <1>5, StutterKeeps
<1>6. QED
  BY <1>1, <1>2, <1>3, <1>4, <1>5 DEF Next

-----------------------------------------------------------------------------

\* The inductive invariant holds in every behaviour.
THEOREM Invariance == Spec => []IInv
  BY InitIInv, NextKeeps, PTL DEF Spec

\* The tunnel's state is well typed, whatever the API answers.
THEOREM TypeCorrect == Spec => []TypeOK
<1>1. IInv => TypeOK
  BY DEF IInv
<1>2. QED
  BY <1>1, Invariance, PTL

\* resolveEndpoint selects the first usable pod and the port that was meant,
\* or blames what is to blame, for any services, pods and ports.
THEOREM EndpointIsRight == Spec => []EndpointIsMeant
<1>1. IInv => EndpointIsMeant
  BY DEF IInv
<1>2. QED
  BY <1>1, Invariance, PTL

\* run advertises only a bound listener that was not seen cancelled, and ends
\* without an error only when cancelled.
THEOREM ReadinessIsReal == Spec => []ReadyIsReal
<1>1. IInv => ReadyIsReal
  BY DEF IInv
<1>2. QED
  BY <1>1, Invariance, PTL
=============================================================================
