-------------------------- MODULE MCKubernetesTunnel --------------------------
(* Model-checking instance of KubernetesTunnel.  Numbers are scaled down: the *)
(* ports are 1..3 and int32 has 8 values, of which 9 wraps to 1.  The answers  *)
(* of the API are representatives of the cases the code tells apart.          *)
EXTENDS KubernetesTunnel

Condition(type, status) == [type |-> type, status |-> status]
Pod(deleting, phase, conditions, ports) ==
    [deleting |-> deleting, phase |-> phase, conditions |-> conditions, ports |-> ports]

\* Ready with and without the named port; and not ready for each reason.
MCPodStates ==
    LET named == <<[name |-> "metrics", port |-> 3], [name |-> "web", port |-> 2]>>
        isReady == <<Condition("Initialized", "False"), Condition("Ready", "True")>>
    IN  { Pod(FALSE, "Running", isReady, named),
          Pod(FALSE, "Running", isReady, <<>>),
          Pod(FALSE, "Running", <<Condition("Ready", "False")>>, named),
          Pod(FALSE, "Running", <<>>, named),
          Pod(FALSE, "Pending", isReady, named),
          Pod(TRUE, "Running", isReady, named) }

Port(port, type, value) == [port |-> port, type |-> type, value |-> value]

MCServices ==
    {[selects |-> FALSE, ports |-> <<>>]}
      \cup [selects : {TRUE},
            ports : { <<>>,
                      <<Port(1, "string", "web")>>,
                      <<Port(2, "int", 3), Port(1, "int", 0)>>,
                      <<Port(1, "int", 2), Port(1, "string", "web")>> }]
=============================================================================
