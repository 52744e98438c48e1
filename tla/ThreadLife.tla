----------------------------- MODULE ThreadLife -----------------------------
(***************************************************************************)
(* What liblwt promises of threads, without lists or references: at most   *)
(* one thread runs, a thread that runs leaves only by its own doing, only  *)
(* a ready thread is switched to, a blocked one is made ready by another   *)
(* context, an ended one never runs again, and the processor goes to the   *)
(* host only when no thread is ready.                                      *)
(***************************************************************************)
EXTENDS Integers

CONSTANT Thread

VARIABLE phase   \* of each thread

Phases == {"absent", "ready", "running", "blocked", "ended"}

Init == phase = [t \in Thread |-> "absent"]

Moved(q, t, p) == [u \in Thread |-> IF u = t THEN p ELSE q[u]]

\* The processor goes to a ready thread, or to the host when there is none.
Switched(q) ==
    LET ReadyIn == {t \in Thread : q[t] = "ready"}
    IN  IF ReadyIn = {} THEN {q}
                        ELSE {Moved(q, t, "running") : t \in ReadyIn}

Create(t) == phase[t] = "absent" /\ phase' = Moved(phase, t, "ready")

Wake(t) == phase[t] = "blocked" /\ phase' = Moved(phase, t, "ready")

Kill(t) ==
    /\ phase[t] \in {"ready", "blocked", "ended"}
    /\ phase' = Moved(phase, t, "absent")

\* The same, and its joiner j is released.
KillJoined(t, j) ==
    /\ phase[t] \in {"ready", "blocked", "ended"} /\ phase[j] = "blocked"
    /\ phase' = Moved(Moved(phase, j, "ready"), t, "absent")

\* The running thread blocks, or ends as a detached thread.
Leave(t, p) ==
    /\ phase[t] = "running"
    /\ p \in {"blocked", "absent"}
    /\ phase' \in Switched(Moved(phase, t, p))

\* The running thread ends as a joinable one.
End(t) ==
    /\ phase[t] = "running"
    /\ phase' \in Switched(Moved(phase, t, "ended"))

\* The same, and its joiner j is released.
EndJoined(t, j) ==
    /\ phase[t] = "running" /\ phase[j] = "blocked"
    /\ phase' \in Switched(Moved(Moved(phase, t, "ended"), j, "ready"))

\* The host, having nothing more to do, gives the processor away.
Resume ==
    /\ \A t \in Thread : phase[t] # "running"
    /\ phase' \in Switched(phase)

Next ==
    \/ \E t \in Thread : Create(t) \/ Wake(t) \/ Kill(t) \/ End(t)
    \/ \E t \in Thread, p \in Phases : Leave(t, p)
    \/ \E t, j \in Thread : EndJoined(t, j) \/ KillJoined(t, j)
    \/ Resume

Spec == Init /\ [][Next]_phase
==============================================================================
