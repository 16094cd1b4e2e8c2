------------------------------- MODULE Relay -------------------------------
(***************************************************************************)
(* RelayDrain (internal/libs/relay.go): two goroutines copying between the *)
(* local connection "a" and the remote stream "b" of one handler.  The     *)
(* streams are finite sequences of writes, told apart by their number      *)
(* only.  `kind` is the caller: "ssh" (ssh/forward.go: b can half-close,   *)
(* no grace period) or "bastion" (azurebastion/server.go: b is a wsStream, *)
(* which cannot).  Of both, a broken b reads as the end of file: wsStream   *)
(* drops its error, and the ssh package ends a channel's buffer with its   *)
(* transport.                                                              *)
(***************************************************************************)
EXTENDS Naturals

CONSTANT MaxData    \* bound: how many writes each far end makes

ASSUME MaxDataAssumption == MaxData \in Nat

Ends == {"a", "b"}
Far(s) == IF s = "a" THEN "b" ELSE "a"

VARIABLES
    kind,       \* which caller, for the whole run
    sent,       \* sent[s]: writes the far end of s has made
    fin,        \* fin[s]: "open", or how the far end of s stopped sending
    stuck,      \* the ends whose far side has stopped reading
    read,       \* read[s]: writes the pipe out of s has read
    got,        \* got[s]: writes the far end of s has received
    eof,        \* the streams we have half-closed with success
    closed,     \* the streams we have closed
    pipe,       \* pipe[s]: the goroutine that copies from s to the other end
    main,       \* where RelayDrain is
    outside     \* ConnServer.Close has closed "a"

farVars == <<sent, fin, stuck, outside>>
ourVars == <<read, got, eof, closed>>
relayVars == <<kind, farVars, ourVars, pipe, main>>

RelayInit ==
    /\ kind \in {"ssh", "bastion"}
    /\ sent = [s \in Ends |-> 0]
    /\ fin = [s \in Ends |-> "open"]
    /\ stuck = {}
    /\ read = [s \in Ends |-> 0]
    /\ got = [s \in Ends |-> 0]
    /\ eof = {}
    /\ closed = {}
    /\ pipe = [s \in Ends |-> "read"]
    /\ main = "piping"
    /\ outside = FALSE

\* An operation on s fails: we have closed it, or its far end has broken it.
\* Over SSH a Read pending on a channel we close returns with the bastion's
\* answer to the close, or with the end of the transport: a bastion that reads
\* answers, and one that hangs is stuck.
Broken(s) == s \in closed \/ fin[s] = "reset"

Goto(s, l) == pipe' = [pipe EXCEPT ![s] = l]

-----------------------------------------------------------------------------
(* pipe(Far(s), s)                                                         *)

Read(s) ==
    /\ pipe[s] = "read" /\ ~Broken(s)
    /\ read[s] < sent[s]
    /\ read' = [read EXCEPT ![s] = @ + 1]
    /\ Goto(s, "write")
    /\ UNCHANGED <<kind, farVars, got, eof, closed, main>>

\* Mutation: io.Copy's error is not looked at.
ReadEndBlind(s) ==
    /\ pipe[s] = "read"
    /\ Broken(s) \/ (fin[s] = "eof" /\ read[s] = sent[s])
    /\ Goto(s, "half")
    /\ UNCHANGED <<kind, farVars, ourVars, main>>

\* End of file, or an error, which reading b does not tell from it.
ReadEnd(s) ==
    /\ pipe[s] = "read"
    /\ \/ Broken(s) /\ Goto(s, IF s = "b" THEN "half" ELSE "fail")
       \/ ~Broken(s) /\ fin[s] = "eof" /\ read[s] = sent[s] /\ Goto(s, "half")
    /\ UNCHANGED <<kind, farVars, ourVars, main>>

\* Mutation: what was written is written once more.
WriteAgain(s) ==
    /\ pipe[s] = "write"
    /\ ~Broken(Far(s)) /\ Far(s) \notin stuck
    /\ got' = [got EXCEPT ![Far(s)] = @ + 1]
    /\ UNCHANGED <<kind, farVars, read, eof, closed, pipe, main>>

\* A write blocks as long as the far end does not read.
Write(s) ==
    /\ pipe[s] = "write"
    /\ ~Broken(Far(s)) /\ Far(s) \notin stuck
    /\ got' = [got EXCEPT ![Far(s)] = @ + 1]
    /\ Goto(s, "read")
    /\ UNCHANGED <<kind, farVars, read, eof, closed, main>>

WriteErr(s) ==
    /\ pipe[s] = "write"
    /\ Broken(Far(s))
    /\ Goto(s, "fail")
    /\ UNCHANGED <<kind, farVars, ourVars, main>>

\* Mutation: a full close instead of a half-close.
EndFully(s) ==
    /\ pipe[s] = "half"
    /\ closed' = closed \cup {Far(s)}
    /\ Goto(s, "done")
    /\ UNCHANGED <<kind, farVars, read, got, eof, main>>

\* HalfClose(dst), or dst.Close() where that is impossible or fails.
End(s) ==
    /\ pipe[s] = "half"
    /\ IF Broken(Far(s)) \/ (kind = "bastion" /\ Far(s) = "b")
       THEN closed' = closed \cup {Far(s)} /\ UNCHANGED eof
       ELSE eof' = eof \cup {Far(s)} /\ UNCHANGED closed
    /\ Goto(s, "done")
    /\ UNCHANGED <<kind, farVars, read, got, main>>

\* Mutation: only the stream that was read from is closed.
FailHalf(s) ==
    /\ pipe[s] = "fail"
    /\ closed' = closed \cup {s}
    /\ Goto(s, "done")
    /\ UNCHANGED <<kind, farVars, read, got, eof, main>>

\* A copy that failed takes both streams down.
Fail(s) ==
    /\ pipe[s] = "fail"
    /\ closed' = Ends
    /\ Goto(s, "done")
    /\ UNCHANGED <<kind, farVars, read, got, eof, main>>

Pipe(s) == Read(s) \/ ReadEnd(s) \/ Write(s) \/ WriteErr(s) \/ End(s) \/ Fail(s)

-----------------------------------------------------------------------------
(* RelayDrain itself; pipe["b"] runs in its goroutine.                     *)

\* Mutation: the grace period is tested the wrong way round.
ExpireInverted ==
    /\ main = "piping" /\ kind = "ssh"
    /\ pipe["b"] = "done" /\ pipe["a"] # "done"
    /\ closed' = closed \cup {"a"}
    /\ main' = "drained"
    /\ UNCHANGED <<kind, farVars, read, got, eof, pipe>>

\* The grace period after pipe(a, b): the timer closes a.
Expire ==
    /\ main = "piping" /\ kind = "bastion"
    /\ pipe["b"] = "done" /\ pipe["a"] # "done"
    /\ closed' = closed \cup {"a"}
    /\ main' = "drained"
    /\ UNCHANGED <<kind, farVars, read, got, eof, pipe>>

\* Both goroutines are done: close both streams and return.
CloseBoth ==
    /\ main # "returned"
    /\ pipe["a"] = "done" /\ pipe["b"] = "done"
    /\ closed' = Ends
    /\ main' = "returned"
    /\ UNCHANGED <<kind, farVars, read, got, eof, pipe>>

-----------------------------------------------------------------------------
(* The far ends, and ConnServer.Close.                                     *)

Send(s) ==
    /\ fin[s] = "open"
    /\ sent[s] < MaxData
    /\ sent' = [sent EXCEPT ![s] = @ + 1]
    /\ UNCHANGED <<kind, fin, stuck, outside, ourVars, pipe, main>>

Finish(s) ==
    /\ fin[s] = "open"
    /\ fin' = [fin EXCEPT ![s] = "eof"]
    /\ UNCHANGED <<kind, sent, stuck, outside, ourVars, pipe, main>>

Reset(s) ==
    /\ fin[s] # "reset"
    /\ fin' = [fin EXCEPT ![s] = "reset"]
    /\ UNCHANGED <<kind, sent, stuck, outside, ourVars, pipe, main>>

\* TCP buffers full, SSH window exhausted.
StopReading(s) ==
    /\ s \notin stuck
    /\ stuck' = stuck \cup {s}
    /\ UNCHANGED <<kind, sent, fin, outside, ourVars, pipe, main>>

ServerCloses ==
    /\ ~outside
    /\ outside' = TRUE
    /\ closed' = closed \cup {"a"}
    /\ UNCHANGED <<kind, sent, fin, stuck, read, got, eof, pipe, main>>

RelayNext ==
    \/ \E s \in Ends : Pipe(s) \/ Send(s) \/ Finish(s) \/ Reset(s) \/ StopReading(s)
    \/ Expire \/ CloseBoth \/ ServerCloses

\* Goroutines that can run do, and the timer fires.  The far ends owe nothing,
\* but for the answer to a close that Broken takes for granted.
RelayFairness == WF_relayVars(Pipe("a")) /\ WF_relayVars(Pipe("b")) /\ WF_relayVars(Expire) /\ WF_relayVars(CloseBoth)

RelaySpec == RelayInit /\ [][RelayNext]_relayVars
FairRelaySpec == RelaySpec /\ RelayFairness

-----------------------------------------------------------------------------
(* Properties                                                              *)

\* Types, and no byte is invented: each end receives at most what was read
\* for it, which is at most what was sent.
RelayTypeOK ==
    /\ kind \in {"ssh", "bastion"}
    /\ sent \in [Ends -> 0..MaxData]
    /\ read \in [Ends -> 0..MaxData] /\ got \in [Ends -> 0..MaxData]
    /\ fin \in [Ends -> {"open", "eof", "reset"}]
    /\ stuck \subseteq Ends /\ eof \subseteq Ends /\ closed \subseteq Ends
    /\ \A s \in Ends : got[Far(s)] <= read[s] /\ read[s] <= sent[s]
    /\ pipe \in [Ends -> {"read", "write", "half", "fail", "done"}]
    /\ main \in {"piping", "drained", "returned"}
    /\ outside \in BOOLEAN

\* "Relay copies both directions and preserves half-close semantics"
\* (relay.go:21): over SSH, while neither transport breaks and the server is
\* not closed, no stream is closed before both far ends have finished and have
\* received all that the other sent: one direction ending never cuts the other.
GracefulDelivery ==
    kind = "ssh" /\ closed # {} /\ ~outside /\ (\A s \in Ends : fin[s] # "reset")
      => \A s \in Ends : fin[s] = "eof" /\ got[Far(s)] = sent[s]

\* A far end that sees a clean end of file has received everything: an
\* aborted transfer is never passed off as a complete one.  The end that a
\* broken b reports is the exception.
EofIsHonest ==
    \A s \in Ends : Far(s) \in eof /\ ~(s = "b" /\ Broken(s))
      => got[Far(s)] = sent[s]

\* A transport that breaks takes the relay down, and the other transport with
\* it, as long as the far ends read.  Over SSH, which has no grace period, a
\* local client is only told of a lost bastion by an end of file, and takes the
\* relay down when it finishes or breaks itself.  ConnServer.Close breaks the
\* local transport: over SSH that reaches only a client that has not finished
\* sending (see ServerCloseEnds).
BreakEnds ==
    /\ \A s \in Ends : fin[s] = "reset" /\ pipe[s] \in {"read", "write"}
          ~> \/ main = "returned" \/ stuck # {}
             \/ kind = "ssh" /\ s = "b" /\ "a" \in eof
    /\ fin["b"] = "reset" /\ fin["a"] # "open" ~> (main = "returned" \/ stuck # {})
    /\ outside ~> \/ main = "returned" \/ stuck # {}
                  \/ kind = "ssh" /\ fin["a"] # "open"

\* "RelayDrain bounds how long a may keep sending after b reaches EOF"
\* (relay.go:26), as long as the far ends read.
DrainBounded ==
    kind = "bastion" /\ fin["b"] = "eof" ~> (main = "returned" \/ stuck # {})

\* What a tunnel's shutdown rests on: "a forked tunnel watches the terraform
\* process and must tear itself down once that parent goes away"
\* (test/integration/watch_test.go:17-19).  The watcher interrupts, the
\* interrupt closes the local connections, and Serve waits for their handlers:
\* closing a local connection has to end its relay, whatever the remote does.
ServerCloseEnds == outside ~> main = "returned"
=============================================================================
