---------------------------- MODULE SessionLocks ----------------------------
(***************************************************************************)
(* The per-session locks of the ACP server (crates/cli/src/main.rs).       *)
(*                                                                         *)
(* `session_locks` maps a session id to an Arc<tokio::sync::Mutex<()>>.    *)
(* lock_session clones the Arc out of the map, creating the entry when     *)
(* there is none, and waits on that mutex; the request then runs with a    *)
(* SessionGuard.  Dropping the guard takes the entry out of the map when   *)
(* the request left no such session behind, so that a closed session, or   *)
(* an id nobody opened, costs nothing.  The danger is in that clean-up: an *)
(* entry taken out while somebody still waits on its mutex gives the next  *)
(* request on the same id a mutex of its own, and two requests on one      *)
(* session run side by side.  The code counts the Arc handles to prevent   *)
(* it.                                                                     *)
(*                                                                         *)
(* The guard is dropped in three steps, one per mutex that is taken: the   *)
(* look at `sessions`, the count and removal under the mutex of            *)
(* `session_locks`, and the release of the session's own mutex.  Requests  *)
(* may interleave between them.                                            *)
(***************************************************************************)
EXTENDS Naturals, Sequences, FiniteSets

CONSTANTS
    Requests,   \* request slots; a slot is used again once its request ended
    Sessions,   \* session ids a client may name
    Locks,      \* mutex objects an entry can be given (heap addresses)
    NoLock,     \* "no entry" in session_locks, and "no handle" of a request
    NoSession   \* the session of an idle slot

ASSUME LocksAssumption == NoLock \notin Locks
ASSUME SessionsAssumption == NoSession \notin Sessions

VARIABLES
    sessions,   \* ids in SiGitAgent::sessions
    entry,      \* SiGitAgent::session_locks: id -> mutex, or NoLock
    queue,      \* mutex -> requests with a handle on it: the head owns it,
                \* the others wait in the order they asked (tokio is fair)
    pc,         \* where a request is
    sid,        \* the session it names
    handle      \* the mutex its Arc points to

vars == <<sessions, entry, queue, pc, sid, handle>>

PCs == {"idle", "queued", "run", "drop", "remove", "unlock"}

TypeOK ==
    /\ sessions \in SUBSET Sessions
    /\ entry \in [Sessions -> Locks \cup {NoLock}]
    /\ queue \in [Locks -> Seq(Requests)]
    /\ pc \in [Requests -> PCs]
    /\ sid \in [Requests -> Sessions \cup {NoSession}]
    /\ handle \in [Requests -> Locks \cup {NoLock}]

Init ==
    /\ sessions = {}
    /\ entry = [s \in Sessions |-> NoLock]
    /\ queue = [l \in Locks |-> << >>]
    /\ pc = [r \in Requests |-> "idle"]
    /\ sid = [r \in Requests |-> NoSession]
    /\ handle = [r \in Requests |-> NoLock]

-----------------------------------------------------------------------------
(* Taking the lock *)

\* Arc::strong_count of a mutex: the map's handle and one per request that
\* holds it or waits on it.
MapHandles(l) == IF \E s \in Sessions : entry[s] = l THEN 1 ELSE 0
StrongCount(l) == MapHandles(l) + Len(queue[l])

\* What `entry(key).or_default()` may return: the mutex that is there, or a
\* new one, at an address nothing points to any more.
LockFor(s) ==
    IF entry[s] # NoLock THEN {entry[s]}
    ELSE {l \in Locks : StrongCount(l) = 0}

\* The slip of a mutex that serves its newest waiter first.
LockSessionNewestFirst(r, s) ==
    /\ pc[r] = "idle"
    /\ \E l \in LockFor(s) :
         /\ entry' = [entry EXCEPT ![s] = l]
         /\ queue' = [queue EXCEPT ![l] =
                        IF @ = << >> THEN <<r>> ELSE <<Head(@), r>> \o Tail(@)]
         /\ handle' = [handle EXCEPT ![r] = l]
    /\ pc' = [pc EXCEPT ![r] = "queued"]
    /\ sid' = [sid EXCEPT ![r] = s]
    /\ UNCHANGED sessions

\* lock_session up to its only await: the clone under the map's mutex, and the
\* place in the mutex's queue.
LockSession(r, s) ==
    /\ pc[r] = "idle"
    /\ \E l \in LockFor(s) :
         /\ entry' = [entry EXCEPT ![s] = l]
         /\ queue' = [queue EXCEPT ![l] = Append(@, r)]
         /\ handle' = [handle EXCEPT ![r] = l]
    /\ pc' = [pc EXCEPT ![r] = "queued"]
    /\ sid' = [sid EXCEPT ![r] = s]
    /\ UNCHANGED sessions

\* lock_owned() resolves for the request at the front.
Acquire(r) ==
    /\ pc[r] = "queued"
    /\ r = Head(queue[handle[r]])
    /\ pc' = [pc EXCEPT ![r] = "run"]
    /\ UNCHANGED <<sessions, entry, queue, sid, handle>>

-----------------------------------------------------------------------------
(* The request under the lock: what it does to `sessions` *)

\* session/load and session/resume insert the session they restore.
RestoreSession(r) ==
    /\ pc[r] = "run"
    /\ sessions' = sessions \cup {sid[r]}
    /\ pc' = [pc EXCEPT ![r] = "drop"]
    /\ UNCHANGED <<entry, queue, sid, handle>>

\* session/close and session/delete take it out.
CloseSession(r) ==
    /\ pc[r] = "run"
    /\ sessions' = sessions \ {sid[r]}
    /\ pc' = [pc EXCEPT ![r] = "drop"]
    /\ UNCHANGED <<entry, queue, sid, handle>>

\* A prompt, a config change, or any request that failed, leaves the map alone.
OtherRequest(r) ==
    /\ pc[r] = "run"
    /\ pc' = [pc EXCEPT ![r] = "drop"]
    /\ UNCHANGED <<sessions, entry, queue, sid, handle>>

\* session/new, and the target of session/fork, insert an id without holding
\* its lock.
OpenNew(s) ==
    /\ s \notin sessions
    /\ sessions' = sessions \cup {s}
    /\ UNCHANGED <<entry, queue, pc, sid, handle>>

-----------------------------------------------------------------------------
(* Drop for SessionGuard *)

\* `sessions.contains_key(&self.key)`
DropCheck(r) ==
    /\ pc[r] = "drop"
    /\ pc' = [pc EXCEPT ![r] = IF sid[r] \in sessions THEN "unlock" ELSE "remove"]
    /\ UNCHANGED <<sessions, entry, queue, sid, handle>>

\* The slip the code's comment warns about: no look at the count.
SoleUserNoCount(r) == entry[sid[r]] = handle[r]
\* A slip: the count the removal waits for leaves this guard out.
SoleUserOffByOne(r) ==
    /\ entry[sid[r]] = handle[r]
    /\ StrongCount(handle[r]) = 1

\* Nobody but the map and this guard points to the mutex.
SoleUser(r) ==
    /\ entry[sid[r]] = handle[r]
    /\ StrongCount(handle[r]) = 2

DropRemove(r) ==
    /\ pc[r] = "remove"
    /\ entry' = IF SoleUser(r) THEN [entry EXCEPT ![sid[r]] = NoLock] ELSE entry
    /\ pc' = [pc EXCEPT ![r] = "unlock"]
    /\ UNCHANGED <<sessions, queue, sid, handle>>

\* The OwnedMutexGuard goes: the permit passes to the next in the queue.
Unlock(r) ==
    /\ pc[r] = "unlock"
    /\ queue' = [queue EXCEPT ![handle[r]] = Tail(@)]
    /\ pc' = [pc EXCEPT ![r] = "idle"]
    /\ sid' = [sid EXCEPT ![r] = NoSession]
    /\ handle' = [handle EXCEPT ![r] = NoLock]
    /\ UNCHANGED <<sessions, entry>>

-----------------------------------------------------------------------------
Serve(r) == RestoreSession(r) \/ CloseSession(r) \/ OtherRequest(r)
DropGuard(r) == DropCheck(r) \/ DropRemove(r) \/ Unlock(r)

Next ==
    \/ \E r \in Requests, s \in Sessions : LockSession(r, s)
    \/ \E s \in Sessions : OpenNew(s)
    \/ \E r \in Requests : Acquire(r) \/ Serve(r) \/ DropGuard(r)

Spec == Init /\ [][Next]_vars

\* The runtime polls a task whose lock came free, a handler ends, and dropping
\* a guard is plain code.
Fairness == \A r \in Requests : /\ WF_vars(Acquire(r))
                                /\ WF_vars(Serve(r))
                                /\ WF_vars(DropGuard(r))

FairSpec == Spec /\ Fairness

-----------------------------------------------------------------------------
(* How the map, the handles and the queues hang together: the inductive      *)
(* invariant behind the safety properties.                                   *)

Owns(r) == pc[r] \in {"run", "drop", "remove", "unlock"}

\* A request in flight points to a mutex and has a place in its queue.
HandlesAreQueued ==
    \A r \in Requests : pc[r] # "idle" =>
        /\ handle[r] \in Locks
        /\ sid[r] \in Sessions
        /\ \E i \in 1..Len(queue[handle[r]]) : queue[handle[r]][i] = r

\* Whoever is in a mutex's queue points to that mutex, and is there once.
QueuesAreHandles ==
    \A l \in Locks : \A i \in 1..Len(queue[l]) :
        /\ pc[queue[l][i]] # "idle"
        /\ handle[queue[l][i]] = l
        /\ \A j \in 1..Len(queue[l]) : queue[l][i] = queue[l][j] => i = j

\* The owner of a mutex is at the front of its queue.
OwnerIsFirst ==
    \A r \in Requests : Owns(r) => queue[handle[r]][1] = r

\* Until a request reached the end of its clean-up, the mutex it points to is
\* the one the map gives to the next request on its session.
HandleIsEntry ==
    \A r \in Requests :
        pc[r] \in {"queued", "run", "drop", "remove"} => entry[sid[r]] = handle[r]

\* Sessions do not share a mutex.
EntriesAreDistinct ==
    \A s1, s2 \in Sessions : (entry[s1] = entry[s2] /\ entry[s1] # NoLock) => s1 = s2

\* The mutex behind a session id may change, but never under a request that
\* still relies on it.  The comment in SessionGuard::drop ("would give the next
\* request for this id a fresh lock, and the two would no longer wait for each
\* other", main.rs 1258-1264) in full.
LockInv ==
    /\ HandlesAreQueued
    /\ QueuesAreHandles
    /\ OwnerIsFirst
    /\ HandleIsEntry
    /\ EntriesAreDistinct

-----------------------------------------------------------------------------
(* Properties *)

\* Two requests on one session never run side by side, whatever the clean-up
\* of the map did in between (main.rs 1321-1326, 1256-1264).
MutualExclusion ==
    \A r1, r2 \in Requests :
        (r1 # r2 /\ pc[r1] = "run" /\ pc[r2] = "run") => sid[r1] # sid[r2]

\* The map keeps no entry for a session that is neither open nor named by a
\* request that has still to drop its guard (SessionGuard, main.rs 1241-1245).
NoStaleEntry ==
    \A s \in Sessions :
        (entry[s] # NoLock /\ s \notin sessions) =>
            \E r \in Requests :
                sid[r] = s /\ pc[r] \in {"queued", "run", "drop", "remove"}

\* Every request that asked for its session's lock gets it, as long as the
\* requests before it end: the clean-up strands nobody.
EveryRequestServed ==
    \A r \in Requests : (pc[r] = "queued") ~> (pc[r] = "run")

\* The requests on a session in the order they arrived: those on its mutex,
\* without an owner that has done its work and is only dropping its guard.
Waiting(r) == pc[r] \in {"queued", "run"}
LineOf(s) ==
    IF entry[s] = NoLock THEN << >>
    ELSE LET q == queue[entry[s]]
         IN  IF q # << >> /\ ~Waiting(Head(q)) THEN Tail(q) ELSE q
PhaseOf(r) == CASE pc[r] = "queued" -> "waiting"
                [] pc[r] = "run" -> "serving"
                [] OTHER -> "idle"

Order == INSTANCE RequestOrder WITH
            line <- [s \in Sessions |-> LineOf(s)],
            phase <- [r \in Requests |-> PhaseOf(r)]

\* The locks serve each session's requests one at a time in arrival order,
\* although the mutex behind a session id changes over time.
KeepsArrivalOrder == Order!Spec
=============================================================================
