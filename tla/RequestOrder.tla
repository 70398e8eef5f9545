---------------------------- MODULE RequestOrder ----------------------------
(***************************************************************************)
(* What the session locks of the ACP server promise, with no lock in       *)
(* sight: the requests on one session are served one at a time, in the     *)
(* order in which they arrived, and requests on different sessions do not  *)
(* wait for each other.                                                    *)
(*                                                                         *)
(* The promise is the comment on SiGitAgent::session_locks (crates/cli/    *)
(* src/main.rs): "One lock per session id, held for a whole request on     *)
(* that session, so two requests on the same thread keep the order they    *)
(* arrived in."  SessionLocks is shown to keep it.                         *)
(***************************************************************************)
EXTENDS Sequences

CONSTANTS
    Requests,   \* the requests that can be in flight at once
    Sessions    \* the session ids a request may name

VARIABLES
    line,       \* line[s]: the unfinished requests on s, oldest first
    phase       \* phase[r]: "idle", "waiting" or "serving"

vars == <<line, phase>>

Init ==
    /\ line = [s \in Sessions |-> << >>]
    /\ phase = [r \in Requests |-> "idle"]

\* A request on s arrives behind those already there.
Submit(r, s) ==
    /\ phase[r] = "idle"
    /\ line' = [line EXCEPT ![s] = Append(@, r)]
    /\ phase' = [phase EXCEPT ![r] = "waiting"]

\* Only the oldest unfinished request of a session is served.
Serve(r, s) ==
    /\ phase[r] = "waiting"
    /\ line[s] # << >>
    /\ r = Head(line[s])
    /\ phase' = [phase EXCEPT ![r] = "serving"]
    /\ UNCHANGED line

Finish(r, s) ==
    /\ phase[r] = "serving"
    /\ line[s] # << >>
    /\ r = Head(line[s])
    /\ line' = [line EXCEPT ![s] = Tail(@)]
    /\ phase' = [phase EXCEPT ![r] = "idle"]

Next == \E r \in Requests, s \in Sessions :
            Submit(r, s) \/ Serve(r, s) \/ Finish(r, s)

Spec == Init /\ [][Next]_vars
=============================================================================
