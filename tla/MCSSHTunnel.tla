----------------------------- MODULE MCSSHTunnel -----------------------------
(* Model-checking instance of SSHTunnel.                                   *)
EXTENDS SSHTunnel, Naturals

\* Bounds: the connection of the start-up may be lost and replaced once, and
\* one caller of dialTarget gets as far as its second try while the tunnel is
\* not interrupted.  An interrupt sends every caller to its second try, and no
\* behaviour after it is cut off: no client is made once the context is done.
MaxConnections == 2
MaxRetrying == 1

FewConnections ==
    \/ cancelled
    \/ /\ Cardinality({a \in Pool!Attempts : conn[a] # "none"}) <= MaxConnections
       /\ Cardinality({h \in Callers : try[h] = "retry"}) <= MaxRetrying
=============================================================================
