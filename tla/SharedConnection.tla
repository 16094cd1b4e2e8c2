-------------------------- MODULE SharedConnection --------------------------
(***************************************************************************)
(* What clientPool (internal/ssh/client.go) promises its callers, with no  *)
(* handlers, handshakes or locks in sight: one link, brought up by one     *)
(* connection attempt at a time, that may drop and be brought up again     *)
(* until the pool is stopped, and an attempt that comes to an end unless   *)
(* it hangs in something outside the program that owes no answer.          *)
(***************************************************************************)
VARIABLES
    link,   \* "down", "connecting", "up" or "stopped"
    hung    \* the attempt waits outside the program; the pool has no say in it

Init == link = "down"

Connect == link = "down" /\ link' = "connecting"

\* The attempt is over: it succeeded, or it failed.
Resolve == link = "connecting" /\ link' \in {"up", "down"}

Drop == link = "up" /\ link' = "down"

Stop == link # "stopped" /\ link' = "stopped"

Next == Connect \/ Resolve \/ Drop \/ Stop

\* No attempt goes on for ever outside a hang.
AttemptsEnd == link = "connecting" ~> (link # "connecting" \/ hung)

Spec == Init /\ [][Next]_link /\ AttemptsEnd
=============================================================================
