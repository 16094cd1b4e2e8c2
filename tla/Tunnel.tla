------------------------------- MODULE Tunnel -------------------------------
(***************************************************************************)
(* What a tunnel process promises whoever started it, for any kind of      *)
(* tunnel: it says that it is ready only after it has found its far side   *)
(* able to serve, serves local connections from then until it stops, and   *)
(* ends with nothing left open, here or at the far side.                   *)
(***************************************************************************)
VARIABLES
    phase,      \* "starting", "ready", "stopping" or "ended"
    vetted,     \* the far side has been found able to serve
    served,     \* the local connections being served
    upstream    \* something is held at the far side

vars == <<phase, vetted, served, upstream>>

Init == phase = "starting" /\ ~vetted /\ served = {} /\ ~upstream

Vet == phase = "starting" /\ vetted' /\ UNCHANGED <<phase, served, upstream>>

Ready ==
    /\ phase = "starting" /\ vetted
    /\ phase' = "ready"
    /\ UNCHANGED <<vetted, served, upstream>>

\* A connection comes or goes.
Serve ==
    /\ phase = "ready"
    /\ served' # served
    /\ UNCHANGED <<phase, vetted, upstream>>

\* The far side is held while the tunnel starts or serves, and may be lost, or
\* let go, at any time.
Hold ==
    /\ phase \in {"starting", "ready"} \/ ~upstream'
    /\ upstream' = ~upstream
    /\ UNCHANGED <<phase, vetted, served>>

\* Whatever makes it stop, those it serves go first.
Stop ==
    /\ phase \in {"starting", "ready"} /\ served = {}
    /\ phase' = "stopping"
    /\ UNCHANGED <<vetted, served, upstream>>

End ==
    /\ phase = "stopping" /\ ~upstream'
    /\ phase' = "ended"
    /\ UNCHANGED <<vetted, served>>

Next == Vet \/ Ready \/ Serve \/ Hold \/ Stop \/ End

Spec == Init /\ [][Next]_vars
=============================================================================
