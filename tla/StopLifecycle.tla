---------------------------- MODULE StopLifecycle ----------------------------
(***************************************************************************)
(* What the activity stop promises to one client, request by request.      *)
(*                                                                         *)
(*   unused -> arming -> waiting -> counting -> firing -> resolved         *)
(*                          \___________/ \________________/               *)
(*                                                                         *)
(* A request that is not the session's stop is "stored" when the database  *)
(* still has it, and may come back with a later session, or "lost".        *)
(* Resolved and lost are final, a request fires only after it has counted, *)
(* and one request at a time is in force.                                  *)
(***************************************************************************)
EXTENDS Naturals

CONSTANTS
  Requests,   \* the requests that may be made
  Crashes     \* may the process die in the middle of a command or a firing?

VARIABLE phase

Phases  == {"unused", "arming", "waiting", "counting", "firing",
            "stored", "lost", "resolved"}
Current == {i \in Requests : phase[i] \in {"waiting", "counting", "firing"}}
Arming  == {i \in Requests : phase[i] = "arming"}
Watching == {"waiting", "counting"}

Init == phase = [i \in Requests |-> "unused"]

\* Requests in A end up in the database only, or nowhere; the others keep
\* the phase f gives them.
Leave(A, f) ==
  phase' \in {g \in [Requests -> Phases] :
                \A i \in Requests : IF i \in A THEN g[i] \in {"stored", "lost"}
                                             ELSE g[i] = f[i]}

\* A request is written down; it may take the place of a stored one.
Request(i) ==
  /\ phase[i] = "unused"
  /\ Arming = {}
  /\ \A j \in Current : phase[j] # "firing"
  /\ \E J \in {{}} \cup {{j} : j \in {x \in Requests : phase[x] = "stored"}} :
       phase' = [j \in Requests |-> CASE j = i -> "arming"
                                      [] j \in J \ {i} -> "lost"
                                      [] OTHER -> phase[j]]

\* It comes into force and supersedes the one in force.
Install(i) ==
  /\ phase[i] = "arming"
  /\ \E w \in Watching : Leave(Current, [phase EXCEPT ![i] = w])

Trigger(i) == phase[i] = "waiting"  /\ phase' = [phase EXCEPT ![i] = "counting"]
Expire(i)  == phase[i] = "counting" /\ Arming = {} /\ phase' = [phase EXCEPT ![i] = "firing"]
End(i)     == i \in Current /\ phase' = [phase EXCEPT ![i] = "resolved"]

\* The session ends.
Drop ==
  /\ Current \cup Arming # {}
  /\ \/ Crashes
     \/ Arming = {} /\ \A i \in Current : phase[i] # "firing"
  /\ Leave(Current \cup Arming, phase)

\* A new session takes up a stored request.
Restore(i) ==
  /\ phase[i] = "stored"
  /\ Current \cup Arming = {}
  /\ \E w \in Watching : phase' = [phase EXCEPT ![i] = w]

Next ==
  \/ \E i \in Requests : Request(i) \/ Install(i) \/ Trigger(i) \/ Expire(i) \/ End(i) \/ Restore(i)
  \/ Drop

\* No action stutters; with that said first a stuttering step is seen at once.
Spec == Init /\ [][phase' # phase /\ Next]_phase

=============================================================================
