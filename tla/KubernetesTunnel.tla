--------------------------- MODULE KubernetesTunnel ---------------------------
(***************************************************************************)
(* A Kubernetes tunnel: the ports it is configured with                     *)
(* (provider/kubernetes.go), the pod it picks (kubernetes/endpoints.go) and *)
(* the port forward it runs (kubernetes/forward.go, tunnel.go) next to the  *)
(* goroutine that executes client-go's ForwardPorts.                        *)
(*                                                                         *)
(* Services.Get and Pods.List are two requests: what they answer is         *)
(* arbitrary and need not belong together.  Pods are named by numbers,      *)
(* ordered as their names are.                                              *)
(***************************************************************************)
EXTENDS Integers, Sequences, FiniteSets

CONSTANTS
    Pods,       \* pod names
    PodStates,  \* what the API may say of a pod
    Services,   \* what the API may answer for the service
    Requested,  \* the target_port values users write
    MaxPort,    \* 65535
    Int32Size,  \* 2^32
    None        \* nothing

ASSUME ConstantsAssumption ==
    /\ Pods \subseteq Nat /\ IsFiniteSet(Pods) /\ None \notin Pods
    /\ Requested \subseteq Int
    /\ MaxPort \in Nat /\ Int32Size \in Nat /\ 2 * MaxPort < Int32Size

VARIABLES
    pc,         \* where the tunnel is: first in the provider, then in its process
    target,     \* the target_port of the configuration
    credential, \* "static", or "exec": from a command it names (kubernetes.exec)
    service,    \* the Service, once the API has answered
    pods,       \* the pods listed: a function from their names
    left,       \* the names the loop over pods.Items has still to visit
    portErr,    \* portErr # nil
    endpoint,   \* the endpoint selected
    cancelled,  \* SIGINT has come: runCtx is done
    forwarder,  \* client-go's ForwardPorts and the goroutine that runs it
    ready,      \* the ready channel is closed
    stop,       \* the stop channel is closed
    done,       \* an end waits in the channel done
    advertised, \* readiness has been signalled
    late,       \* runCtx was done when the select took readiness (history)
    err         \* how the tunnel ended

configVars  == <<target, credential>>
clusterVars == <<service, pods, left, portErr, endpoint>>
forwardVars == <<forwarder, ready, stop, done>>
signalVars  == <<advertised, late>>
vars == <<pc, configVars, clusterVars, cancelled, forwardVars, signalVars, err>>

Credentials == {"static", "exec"}

Init ==
    /\ pc = "config" /\ err = "none"
    /\ target \in Requested /\ credential \in Credentials
    /\ service = None /\ pods = [p \in {} |-> None] /\ left = {} /\ portErr = FALSE
    /\ endpoint = None
    /\ cancelled = FALSE
    /\ forwarder = "none" /\ ready = FALSE /\ stop = FALSE /\ done = FALSE
    /\ advertised = FALSE /\ late = FALSE

-----------------------------------------------------------------------------
(* Which pod, which port                                                   *)

\* int32(configuredPort).
Int32(n) == ((n + Int32Size \div 2) % Int32Size) - Int32Size \div 2

\* The first port of the Service with this number.
FindServicePort(s, port) ==
    LET same == SelectSeq(s.ports, LAMBDA q : q.port = port)
    IN  IF same = <<>> THEN None ELSE Head(same)

\* Running, not terminating, and its first Ready condition true.
PodReady(pod) ==
    LET conditions == SelectSeq(pod.conditions, LAMBDA c : c.type = "Ready")
    IN  /\ ~pod.deleting
        /\ pod.phase = "Running"
        /\ conditions # <<>>
        /\ Head(conditions).status = "True"

\* The numeric port on this pod, None for an error.  An omitted targetPort is
\* a zero integer and means the Service's own port; a named one is looked up
\* in the pod's containers.
ResolvePodPort(pod, port, servicePort) ==
    IF servicePort = None THEN Int32(port)
    ELSE CASE servicePort.type = "int" /\ servicePort.value # 0 -> servicePort.value
           [] servicePort.type = "int" /\ servicePort.value = 0 -> servicePort.port
           [] servicePort.type = "string" ->
                LET named == SelectSeq(pod.ports, LAMBDA q : q.name = servicePort.value)
                IN  IF named = <<>> THEN None ELSE Head(named).port
           [] OTHER -> None

\* The tunnel ends, with an error or with nil.
End(how) ==
    /\ pc' = "ended"
    /\ err' = how

\* The port the pod is asked for under the service found.
PortOf(p) == ResolvePodPort(pods[p], target, FindServicePort(service, target))

\* Mutation: no upper bound.
ConfigureUnbounded ==
    /\ pc = "config"
    /\ pc' = IF target >= 1 THEN "service" ELSE "rejected"
    /\ UNCHANGED <<configVars, clusterVars, cancelled, forwardVars, signalVars, err>>

\* kubernetesConfig, in the provider.  The local port, another setting or the
\* fork may fail a valid target.
Configure ==
    /\ pc = "config"
    /\ \/ target >= 1 /\ target <= MaxPort /\ pc' = "service"
       \/ pc' = "rejected"
    /\ UNCHANGED <<configVars, clusterVars, cancelled, forwardVars, signalVars, err>>

GetService ==
    /\ pc = "service"
    /\ \E s \in Services :
          /\ service' = s
          /\ IF s.selects THEN pc' = "pods" /\ UNCHANGED err ELSE End("selector")
    /\ UNCHANGED <<configVars, pods, left, portErr, endpoint, cancelled, forwardVars, signalVars>>

\* The list comes in any order and is sorted by name, so the loop visits the
\* least name left.
ListPods ==
    /\ pc = "pods"
    /\ \E listed \in SUBSET Pods : \E found \in [listed -> PodStates] :
          /\ pods' = found
          /\ left' = listed
    /\ pc' = "scan"
    /\ UNCHANGED <<configVars, service, portErr, endpoint, cancelled, forwardVars, signalVars, err>>

\* The configuration cannot be loaded, a request fails, or runCtx is done.  The
\* credential command runs inside the request, but knows nothing of runCtx.
RequestFails ==
    /\ pc \in {"service", "pods"}
    /\ End("request")
    /\ UNCHANGED <<configVars, clusterVars, cancelled, forwardVars, signalVars>>

\* Mutation: the loop without the sort.
AnyOf(p) == p \in left

Least(p) == p \in left /\ \A q \in left : p <= q

Skip(p) ==
    /\ pc = "scan"
    /\ Least(p)
    /\ ~PodReady(pods[p])
    /\ left' = left \ {p}
    /\ UNCHANGED <<pc, configVars, service, pods, portErr, endpoint, cancelled, forwardVars, signalVars, err>>

Unresolved(p) ==
    /\ pc = "scan"
    /\ Least(p)
    /\ PodReady(pods[p]) /\ PortOf(p) = None
    /\ left' = left \ {p}
    /\ portErr' = TRUE
    /\ UNCHANGED <<pc, configVars, service, pods, endpoint, cancelled, forwardVars, signalVars, err>>

Select(p) ==
    /\ pc = "scan"
    /\ Least(p)
    /\ PodReady(pods[p]) /\ PortOf(p) # None
    /\ endpoint' = [pod |-> p, port |-> PortOf(p)]
    /\ pc' = "forward"
    /\ UNCHANGED <<configVars, service, pods, left, portErr, cancelled, forwardVars, signalVars, err>>

Exhausted ==
    /\ pc = "scan"
    /\ left = {}
    /\ End(IF portErr THEN "port" ELSE "pods")
    /\ UNCHANGED <<configVars, clusterVars, cancelled, forwardVars, signalVars>>

-----------------------------------------------------------------------------
(* portForward.run                                                         *)

\* run returns: the deferred close(f.stop).
Return(how) ==
    /\ End(how)
    /\ stop' = TRUE

NewForwardFails ==
    /\ pc = "forward"
    /\ End("forwarder")
    /\ UNCHANGED <<configVars, clusterVars, cancelled, forwardVars, signalVars>>

\* newPortForward, run's first look at the context, and the goroutine.
Run ==
    /\ pc = "forward"
    /\ ~cancelled
    /\ pc' = "starting"
    /\ forwarder' = "dialling"
    /\ UNCHANGED <<configVars, clusterVars, cancelled, ready, stop, done, signalVars, err>>

\* Mutation: the first select has no case for the context.
RunCancelledLate ==
    /\ pc \in {"forward", "recheck", "serving"}
    /\ cancelled
    /\ Return("nil")
    /\ UNCHANGED <<configVars, clusterVars, cancelled, forwarder, ready, done, signalVars>>

\* Wherever run looks at the context, it is done.
RunCancelled ==
    /\ pc \in {"forward", "starting", "recheck", "serving"}
    /\ cancelled
    /\ Return("nil")
    /\ UNCHANGED <<configVars, clusterVars, cancelled, forwarder, ready, done, signalVars>>

\* The selects receive the forwarder's end.
Ended ==
    /\ pc \in {"starting", "serving"}
    /\ done
    /\ done' = FALSE
    /\ Return(IF pc = "starting" THEN "start" ELSE "lost")
    /\ UNCHANGED <<configVars, clusterVars, cancelled, forwarder, ready, signalVars>>

\* Mutation: a done context is not looked for again.
StartReadyAtOnce ==
    /\ pc = "starting"
    /\ ready
    /\ pc' = "signal"
    /\ late' = cancelled
    /\ UNCHANGED <<configVars, clusterVars, cancelled, forwardVars, advertised, err>>

StartReady ==
    /\ pc = "starting"
    /\ ready
    /\ pc' = "recheck"
    /\ late' = cancelled
    /\ UNCHANGED <<configVars, clusterVars, cancelled, forwardVars, advertised, err>>

\* "Readiness can win the select when cancellation happens at the same time."
Recheck ==
    /\ pc = "recheck"
    /\ ~cancelled
    /\ pc' = "signal"
    /\ UNCHANGED <<configVars, clusterVars, cancelled, forwardVars, signalVars, err>>

Signal ==
    /\ pc = "signal"
    /\ advertised' = TRUE
    /\ pc' = "serving"
    /\ UNCHANGED <<configVars, clusterVars, cancelled, forwardVars, late, err>>

SignalFails ==
    /\ pc = "signal"
    /\ Return("signal")
    /\ UNCHANGED <<configVars, clusterVars, cancelled, forwarder, ready, done, signalVars>>

-----------------------------------------------------------------------------
(* client-go's forwarder, and the goroutine that sends its result          *)

\* One step of the forwarder that leaves its channels alone.
Forwarder(from, to) ==
    /\ forwarder = from
    /\ forwarder' = to
    /\ UNCHANGED <<pc, configVars, clusterVars, cancelled, ready, stop, done, signalVars, err>>

\* The connection to the pod is dialled first; nothing interrupts that.
Dialled == Forwarder("dialling", "dialled") \/ Forwarder("dialling", "over")

\* It listens, and closes the ready channel; or the port is taken.
Listen ==
    \/ /\ forwarder = "dialled"
       /\ forwarder' = "forwarding"
       /\ ready' = TRUE
       /\ UNCHANGED <<pc, configVars, clusterVars, cancelled, stop, done, signalVars, err>>
    \/ Forwarder("dialled", "over")

\* The stop channel ends the forwarding, without an error; so may the pod.
Stopped == stop /\ Forwarder("forwarding", "over")
ConnectionLost == Forwarder("forwarding", "over")

\* Mutation: a channel without a buffer.
SendUnbuffered ==
    /\ forwarder = "over"
    /\ pc \in {"starting", "serving"}
    /\ done' = TRUE
    /\ forwarder' = "gone"
    /\ UNCHANGED <<pc, configVars, clusterVars, cancelled, ready, stop, signalVars, err>>

\* done <- f.serve(): the buffer of one takes it, whoever still receives.
Send ==
    /\ forwarder = "over"
    /\ done' = TRUE
    /\ forwarder' = "gone"
    /\ UNCHANGED <<pc, configVars, clusterVars, cancelled, ready, stop, signalVars, err>>

\* SIGINT, from the watcher or from Close.  It counts from NotifyContext on.
Interrupted ==
    /\ pc \notin {"config", "rejected"}
    /\ ~cancelled
    /\ cancelled' = TRUE
    /\ UNCHANGED <<pc, configVars, clusterVars, forwardVars, signalVars, err>>

Resolve ==
    \/ GetService \/ ListPods \/ RequestFails \/ Exhausted
    \/ \E p \in Pods : Skip(p) \/ Unresolved(p) \/ Select(p)

Forward ==
    \/ NewForwardFails \/ Run \/ RunCancelled \/ Ended
    \/ StartReady \/ Recheck \/ Signal \/ SignalFails

Next ==
    \/ Configure \/ Resolve \/ Forward
    \/ Dialled \/ Listen \/ Stopped \/ ConnectionLost \/ Send
    \/ Interrupted

\* The tunnel's goroutine runs.  The API need not answer, but a request ends
\* with its context, unless client-go is running the credential command, which
\* need not end.  Nor need a dial of the pod; what follows it does.
Fairness ==
    /\ WF_vars(pc = "scan" /\ Resolve)
    /\ WF_vars(cancelled /\ credential # "exec" /\ RequestFails)
    /\ WF_vars(Forward)
    /\ WF_vars(Listen) /\ WF_vars(Stopped) /\ WF_vars(Send)

Spec == Init /\ [][Next]_vars
FairSpec == Spec /\ Fairness

-----------------------------------------------------------------------------
(* Properties                                                              *)

\* Types of the shared state.
TypeOK ==
    /\ pc \in {"config", "rejected", "service", "pods", "scan", "forward", "starting",
               "recheck", "signal", "serving", "ended"}
    /\ target \in Requested /\ credential \in Credentials
    /\ service \in Services \cup {None}
    /\ left \subseteq DOMAIN pods /\ DOMAIN pods \subseteq Pods
    /\ portErr \in BOOLEAN /\ cancelled \in BOOLEAN
    /\ ready \in BOOLEAN /\ stop \in BOOLEAN /\ done \in BOOLEAN
    /\ advertised \in BOOLEAN /\ late \in BOOLEAN
    /\ forwarder \in {"none", "dialling", "dialled", "forwarding", "over", "gone"}
    /\ err \in {"none", "nil", "selector", "request", "port", "pods", "forwarder",
                "start", "lost", "signal"}

\* The ready pods on which the port of the Service means something.
Usable == {p \in DOMAIN pods : PodReady(pods[p]) /\ PortOf(p) # None}

\* resolveEndpoint "deterministically picks one ready pod and its numeric port"
\* (endpoints.go:28): of the usable pods the first by name, whatever order the
\* API lists them in, and a target_port that the Service does not expose goes
\* "unchanged" to the pod (endpoints.go:63), through an int64, an int and an
\* int32.  It fails only if no pod is usable, and blames the port exactly when
\* there was a ready pod.
EndpointIsMeant ==
    /\ endpoint # None =>
          /\ endpoint.pod \in Usable
          /\ \A q \in Usable : endpoint.pod <= q
          /\ endpoint.port = IF FindServicePort(service, target) = None
                             THEN target ELSE PortOf(endpoint.pod)
    /\ err \in {"port", "pods"} => Usable = {}
    /\ err = "port" => \E p \in DOMAIN pods : PodReady(pods[p])
    /\ err = "pods" => \A p \in DOMAIN pods : ~PodReady(pods[p])

\* "TestPortForwardNeverAdvertisesACancelledTunnel" (forward_test.go:94), also
\* when cancellation and readiness race: readiness is signalled only for a
\* listener that was bound, and not if the context was done when readiness was
\* taken; and an end is an error unless the tunnel was cancelled.
ReadyIsReal ==
    /\ advertised => ready /\ ~late
    /\ err = "nil" => cancelled

\* Once run has returned, for whatever reason, a forwarder that got through
\* its dial stops and its goroutine ends: nobody receives from done by then.
ForwarderStops ==
    (pc = "ended" /\ forwarder \notin {"none", "dialling"}) ~> forwarder = "gone"

\* SIGINT ends the tunnel in every phase, also behind a silent API or dial.  Not
\* in a request that runs a credential command: client-go gives the command no
\* context (config.go:94), so one that hangs outlives the interrupt.
CancelEnds ==
    cancelled ~> \/ pc = "ended"
                 \/ credential = "exec" /\ pc \in {"service", "pods"}
=============================================================================
