------------------------- MODULE SessionLocksProofs -------------------------
(***************************************************************************)
(* Proofs about SessionLocks, for every set of requests, sessions and      *)
(* mutexes.                                                                *)
(*                                                                         *)
(* MutualExclusion is not inductive: it says nothing of the requests that  *)
(* wait, and it is a waiting request that the removal of an entry would    *)
(* leave behind on a mutex of its own.  LockInv says who points to what    *)
(* and is inductive together with TypeOK.  NoStaleEntry follows the same   *)
(* way, one step further: when the removal finds a third handle, LockInv   *)
(* says whose it is.  KeepsArrivalOrder follows from LockInv too: a step   *)
(* appends to the line of one session, takes its head, or changes no line. *)
(***************************************************************************)
EXTENDS SessionLocks, TLAPS

IInv == TypeOK /\ LockInv

-----------------------------------------------------------------------------
(* The removal takes an entry out only when nobody waits. *)

\* At the front of its mutex's queue, with the entry still its own, a guard
\* that counts two handles is alone in the queue (SessionGuard::drop,
\* main.rs 1264-1268).
LEMMA SoleUserIsAlone ==
    ASSUME IInv, NEW r \in Requests, pc[r] = "remove", SoleUser(r)
    PROVE  Len(queue[handle[r]]) = 1
<1>1. entry[sid[r]] = handle[r] /\ handle[r] \in Locks /\ sid[r] \in Sessions
  BY DEF IInv, LockInv, HandlesAreQueued, HandleIsEntry
<1>2. MapHandles(handle[r]) = 1
  BY <1>1 DEF MapHandles
<1>3. Len(queue[handle[r]]) \in Nat
  BY <1>1 DEF IInv, TypeOK
<1>4. \A m, n \in Nat : m = 1 /\ m + n = 2 => n = 1
  OBVIOUS
<1>. QED  BY <1>2, <1>3, <1>4 DEF SoleUser, StrongCount

\* A mutex that the map can hand out as new has no queue and no entry.
LEMMA FreshLock ==
    ASSUME IInv, NEW l \in Locks, StrongCount(l) = 0
    PROVE  queue[l] = << >> /\ \A s \in Sessions : entry[s] # l
<1>1. queue[l] \in Seq(Requests) /\ Len(queue[l]) \in Nat
  BY DEF IInv, TypeOK
<1>2. MapHandles(l) \in {0, 1}
  BY DEF MapHandles
<1>3. \A m, n \in Nat : m + n = 0 => m = 0 /\ n = 0
  OBVIOUS
<1>4. MapHandles(l) = 0 /\ Len(queue[l]) = 0
  BY <1>1, <1>2, <1>3 DEF StrongCount
<1>. QED  BY <1>1, <1>4 DEF MapHandles

-----------------------------------------------------------------------------
LEMMA InitInv == Init => IInv
BY LocksAssumption, SessionsAssumption
   DEF Init, IInv, TypeOK, LockInv, HandlesAreQueued, QueuesAreHandles,
       OwnerIsFirst, HandleIsEntry, EntriesAreDistinct, Owns, PCs

LEMMA TypeNext == TypeOK /\ LockInv /\ [Next]_vars => TypeOK'
<1>. SUFFICES ASSUME TypeOK, LockInv, [Next]_vars PROVE TypeOK'
  OBVIOUS
<1>. USE DEF TypeOK, PCs
<1>1. ASSUME NEW r \in Requests, NEW s \in Sessions, LockSession(r, s) PROVE TypeOK'
  <2>. PICK l \in LockFor(s) :
         /\ entry' = [entry EXCEPT ![s] = l]
         /\ queue' = [queue EXCEPT ![l] = Append(@, r)]
         /\ handle' = [handle EXCEPT ![r] = l]
    BY <1>1 DEF LockSession
  <2>1. l \in Locks
    BY DEF LockFor
  <2>2. queue' \in [Locks -> Seq(Requests)]
    BY <2>1
  <2>. QED  BY <1>1, <2>1, <2>2 DEF LockSession
<1>2. ASSUME NEW s \in Sessions, OpenNew(s) PROVE TypeOK'
  BY <1>2 DEF OpenNew
<1>3. ASSUME NEW r \in Requests, Acquire(r) PROVE TypeOK'
  BY <1>3 DEF Acquire
<1>4. ASSUME NEW r \in Requests, Serve(r) PROVE TypeOK'
  BY <1>4 DEF Serve, RestoreSession, CloseSession, OtherRequest, LockInv, HandlesAreQueued
<1>5. ASSUME NEW r \in Requests, DropCheck(r) PROVE TypeOK'
  BY <1>5 DEF DropCheck
<1>6. ASSUME NEW r \in Requests, DropRemove(r) PROVE TypeOK'
  BY <1>6 DEF DropRemove
<1>7. ASSUME NEW r \in Requests, Unlock(r) PROVE TypeOK'
  <2>1. handle[r] \in Locks /\ Len(queue[handle[r]]) >= 1
    BY <1>7 DEF Unlock, LockInv, HandlesAreQueued
  <2>2. Tail(queue[handle[r]]) \in Seq(Requests)
    BY <2>1
  <2>. QED  BY <1>7, <2>1, <2>2 DEF Unlock
<1>8. CASE UNCHANGED vars
  BY <1>8 DEF vars
<1>. QED
  BY <1>1, <1>2, <1>3, <1>4, <1>5, <1>6, <1>7, <1>8 DEF Next, DropGuard

-----------------------------------------------------------------------------
(* Sequences, element by element *)

LEMMA AppendElements ==
    ASSUME NEW S, NEW q \in Seq(S), NEW x \in S
    PROVE  /\ Len(q) \in Nat
           /\ Len(Append(q, x)) = Len(q) + 1
           /\ \A i \in 1..Len(q) : Append(q, x)[i] = q[i]
           /\ Append(q, x)[Len(q) + 1] = x
OBVIOUS

LEMMA TailElements ==
    ASSUME NEW S, NEW q \in Seq(S), Len(q) >= 1
    PROVE  /\ Tail(q) \in Seq(S)
           /\ Len(q) \in Nat
           /\ Len(Tail(q)) = Len(q) - 1
           /\ \A i \in 1..Len(q) - 1 : Tail(q)[i] = q[i + 1]
OBVIOUS

-----------------------------------------------------------------------------
(* A request asks for its session's lock *)

LEMMA LockSessionInv ==
    ASSUME IInv, NEW r \in Requests, NEW s \in Sessions, LockSession(r, s)
    PROVE  LockInv'
<1>. PICK l \in LockFor(s) :
       /\ entry' = [entry EXCEPT ![s] = l]
       /\ queue' = [queue EXCEPT ![l] = Append(@, r)]
       /\ handle' = [handle EXCEPT ![r] = l]
  BY DEF LockSession
<1>. USE DEF IInv
<1>1. /\ pc[r] = "idle"
      /\ pc' = [pc EXCEPT ![r] = "queued"]
      /\ sid' = [sid EXCEPT ![r] = s]
  BY DEF LockSession
<1>2. /\ l \in Locks
      /\ l # NoLock
      /\ entry[s] # NoLock => l = entry[s]
      /\ entry[s] = NoLock => queue[l] = << >> /\ \A s1 \in Sessions : entry[s1] # l
  BY LocksAssumption, FreshLock DEF LockFor, TypeOK
<1>3. /\ queue[l] \in Seq(Requests)
      /\ queue'[l] = Append(queue[l], r)
      /\ \A k \in Locks : k # l => queue'[k] = queue[k]
  BY <1>2 DEF TypeOK
<1>. DEFINE n == Len(queue[l])
<1>4. /\ n \in Nat
      /\ Len(queue'[l]) = n + 1
      /\ \A i \in 1..n : queue'[l][i] = queue[l][i]
      /\ queue'[l][n + 1] = r
  BY <1>3, AppendElements
<1>. HIDE DEF n
<1>5. \A k \in Locks : \A i \in 1..Len(queue[k]) : queue[k][i] # r
  BY <1>1 DEF LockInv, QueuesAreHandles
<1>6. \A q \in Requests : q # r =>
        pc'[q] = pc[q] /\ sid'[q] = sid[q] /\ handle'[q] = handle[q]
  BY <1>1 DEF TypeOK
<1>7. pc'[r] = "queued" /\ sid'[r] = s /\ handle'[r] = l
  BY <1>1 DEF TypeOK
<1>8. HandlesAreQueued'
  <2>. SUFFICES ASSUME NEW q \in Requests, pc'[q] # "idle"
                PROVE  /\ handle'[q] \in Locks
                       /\ sid'[q] \in Sessions
                       /\ \E i \in 1..Len(queue'[handle'[q]]) : queue'[handle'[q]][i] = q
    BY DEF HandlesAreQueued
  <2>1. CASE q = r
    BY <2>1, <1>2, <1>4, <1>7
  <2>2. CASE q # r
    <3>1. pc[q] # "idle" /\ handle'[q] = handle[q] /\ sid'[q] = sid[q]
      BY <2>2, <1>6
    <3>2. /\ handle[q] \in Locks
          /\ sid[q] \in Sessions
          /\ \E i \in 1..Len(queue[handle[q]]) : queue[handle[q]][i] = q
      BY <3>1 DEF LockInv, HandlesAreQueued
    <3>3. CASE handle[q] = l
      <4>1. PICK i \in 1..n : queue[l][i] = q
        BY <3>2, <3>3 DEF n
      <4>. QED  BY <3>1, <3>2, <3>3, <4>1, <1>4
    <3>4. CASE handle[q] # l
      BY <3>1, <3>2, <3>4, <1>3
    <3>. QED  BY <3>3, <3>4
  <2>. QED  BY <2>1, <2>2
<1>9. QueuesAreHandles'
  <2>. SUFFICES ASSUME NEW k \in Locks, NEW i \in 1..Len(queue'[k])
                PROVE  /\ pc'[queue'[k][i]] # "idle"
                       /\ handle'[queue'[k][i]] = k
                       /\ \A j \in 1..Len(queue'[k]) :
                            queue'[k][i] = queue'[k][j] => i = j
    BY DEF QueuesAreHandles
  <2>1. CASE k # l
    <3>1. queue'[k] = queue[k] /\ queue[k] \in Seq(Requests)
      BY <2>1, <1>3 DEF TypeOK
    <3>2. Len(queue'[k]) = Len(queue[k]) /\ i \in 1..Len(queue[k])
      BY <3>1
    <3>3. queue[k][i] \in Requests /\ queue[k][i] # r
      BY <3>1, <3>2, <1>5
    <3>4. /\ pc[queue[k][i]] # "idle"
          /\ handle[queue[k][i]] = k
          /\ \A j \in 1..Len(queue[k]) : queue[k][i] = queue[k][j] => i = j
      BY <3>2 DEF LockInv, QueuesAreHandles
    <3>. QED  BY <3>1, <3>2, <3>3, <3>4, <1>6
  <2>2. CASE k = l
    <3>1. /\ \A j \in 1..n : /\ queue[l][j] \in Requests
                              /\ queue[l][j] # r
                              /\ pc[queue[l][j]] # "idle"
                              /\ handle[queue[l][j]] = l
          /\ \A j1, j2 \in 1..n : queue[l][j1] = queue[l][j2] => j1 = j2
      BY <1>2, <1>3, <1>5 DEF LockInv, QueuesAreHandles, n
    <3>2. \A j \in 1..n + 1 : j \in 1..n \/ j = n + 1
      BY <1>4
    <3>3. Len(queue'[l]) = n + 1 /\ i \in 1..n + 1 /\ queue'[l][n + 1] = r
      BY <2>2, <1>4
    <3>4. \A j \in 1..n : queue'[l][j] = queue[l][j]
      BY <1>4
    <3>5. \A j \in 1..n : queue'[l][j] # r /\ queue'[l][j] \in Requests
      BY <3>1, <3>4
    <3>6. pc'[queue'[l][i]] # "idle" /\ handle'[queue'[l][i]] = l
      <4>1. CASE i \in 1..n
        <5>1. /\ queue'[l][i] = queue[l][i] /\ queue[l][i] \in Requests /\ queue[l][i] # r
              /\ pc[queue[l][i]] # "idle" /\ handle[queue[l][i]] = l
          BY <4>1, <3>1, <3>4
        <5>. QED  BY <5>1, <1>6
      <4>2. CASE i = n + 1
        BY <4>2, <3>3, <1>7
      <4>. QED  BY <4>1, <4>2, <3>2, <3>3
    <3>7. ASSUME NEW j \in 1..n + 1, queue'[l][i] = queue'[l][j]
          PROVE  i = j
      <4>1. CASE i \in 1..n /\ j \in 1..n
        BY <4>1, <3>1, <3>4, <3>7
      <4>2. CASE i = n + 1 \/ j = n + 1
        BY <4>2, <3>2, <3>3, <3>5, <3>7
      <4>. QED  BY <4>1, <4>2, <3>2, <3>3
    <3>. QED  BY <2>2, <3>3, <3>6, <3>7
  <2>. QED  BY <2>1, <2>2
<1>10. OwnerIsFirst'
  <2>. SUFFICES ASSUME NEW q \in Requests, Owns(q)'
                PROVE  queue'[handle'[q]][1] = q
    BY DEF OwnerIsFirst
  <2>1. q # r /\ Owns(q) /\ handle'[q] = handle[q]
    BY <1>6, <1>7 DEF Owns
  <2>2. /\ handle[q] \in Locks
        /\ queue[handle[q]][1] = q
        /\ \E i \in 1..Len(queue[handle[q]]) : queue[handle[q]][i] = q
    BY <2>1 DEF LockInv, OwnerIsFirst, HandlesAreQueued, Owns
  <2>3. CASE handle[q] = l
    <3>1. 1 \in 1..n
      BY <2>2, <2>3, <1>4 DEF n
    <3>. QED  BY <2>1, <2>2, <2>3, <3>1, <1>4
  <2>4. CASE handle[q] # l
    BY <2>1, <2>2, <2>4, <1>3
  <2>. QED  BY <2>3, <2>4
<1>11. HandleIsEntry'
  BY <1>1, <1>2, <1>6, <1>7, LocksAssumption
     DEF LockInv, HandleIsEntry, HandlesAreQueued, TypeOK
<1>12. EntriesAreDistinct'
  BY <1>2 DEF LockInv, EntriesAreDistinct, TypeOK
<1>. QED  BY <1>8, <1>9, <1>10, <1>11, <1>12 DEF LockInv

-----------------------------------------------------------------------------
(* The request runs and its guard looks at `sessions`: only pc moves *)

LEMMA PcStepInv ==
    ASSUME IInv, NEW r \in Requests, NEW p,
           pc' = [pc EXCEPT ![r] = p],
           UNCHANGED <<entry, queue, sid, handle>>,
           \/ /\ pc[r] = "queued" /\ p = "run"
              /\ r = Head(queue[handle[r]])
           \/ Owns(r) /\ p \in {"drop", "remove", "unlock"} /\ pc[r] # "unlock"
    PROVE  LockInv'
<1>. USE DEF IInv
<1>1. /\ pc[r] # "idle" /\ pc'[r] = p /\ p # "idle"
      /\ \A q \in Requests : q # r => pc'[q] = pc[q]
  BY DEF TypeOK, Owns
<1>2. HandlesAreQueued'
  BY <1>1 DEF LockInv, HandlesAreQueued
<1>3. QueuesAreHandles'
  <2>1. \A l \in Locks : \A i \in 1..Len(queue[l]) : queue[l][i] \in Requests
    BY DEF TypeOK
  <2>. QED  BY <1>1, <2>1 DEF LockInv, QueuesAreHandles
<1>4. OwnerIsFirst'
  <2>1. queue[handle[r]][1] = r
    <3>1. CASE Owns(r)
      BY <3>1 DEF LockInv, OwnerIsFirst
    <3>2. CASE r = Head(queue[handle[r]])
      <4>1. handle[r] \in Locks /\ \E i \in 1..Len(queue[handle[r]]) : queue[handle[r]][i] = r
        BY <1>1 DEF LockInv, HandlesAreQueued
      <4>2. queue[handle[r]] \in Seq(Requests) /\ queue[handle[r]] # << >>
        BY <4>1 DEF TypeOK
      <4>. QED  BY <3>2, <4>2
    <3>. QED  BY <3>1, <3>2
  <2>. QED  BY <1>1, <2>1 DEF LockInv, OwnerIsFirst, Owns
<1>5. HandleIsEntry'
  BY <1>1 DEF LockInv, HandleIsEntry, Owns
<1>6. EntriesAreDistinct'
  BY DEF LockInv, EntriesAreDistinct
<1>. QED  BY <1>2, <1>3, <1>4, <1>5, <1>6 DEF LockInv

-----------------------------------------------------------------------------
(* The entry goes *)

LEMMA DropRemoveInv ==
    ASSUME IInv, NEW r \in Requests, DropRemove(r)
    PROVE  LockInv'
<1>. USE DEF IInv
<1>1. CASE ~SoleUser(r)
  <2>1. UNCHANGED entry
    BY <1>1 DEF DropRemove
  <2>. QED  BY <2>1, PcStepInv DEF DropRemove, Owns
<1>2. CASE SoleUser(r)
  <2>1. /\ pc[r] = "remove" /\ pc' = [pc EXCEPT ![r] = "unlock"]
        /\ entry' = [entry EXCEPT ![sid[r]] = NoLock]
        /\ UNCHANGED <<queue, sid, handle>>
    BY <1>2 DEF DropRemove
  <2>2. /\ pc'[r] = "unlock"
        /\ \A q \in Requests : q # r => pc'[q] = pc[q]
    BY <2>1 DEF TypeOK
  <2>3. Len(queue[handle[r]]) = 1
    BY <1>2, <2>1, SoleUserIsAlone
  <2>4. HandlesAreQueued'
    BY <2>1, <2>2 DEF LockInv, HandlesAreQueued
  <2>5. QueuesAreHandles'
    <3>1. \A l \in Locks : \A i \in 1..Len(queue[l]) : queue[l][i] \in Requests
      BY DEF TypeOK
    <3>. QED  BY <2>1, <2>2, <3>1 DEF LockInv, QueuesAreHandles
  <2>6. OwnerIsFirst'
    BY <2>1, <2>2 DEF LockInv, OwnerIsFirst, Owns
  <2>7. HandleIsEntry'
    <3>. SUFFICES ASSUME NEW q \in Requests,
                         pc'[q] \in {"queued", "run", "drop", "remove"}
                  PROVE  entry'[sid'[q]] = handle'[q]
      BY DEF HandleIsEntry
    <3>1. /\ q # r
          /\ pc[q] \in {"queued", "run", "drop", "remove"}
          /\ entry[sid[q]] = handle[q]
      BY <2>2 DEF LockInv, HandleIsEntry
    <3>2. sid[q] # sid[r]
      <4>. SUFFICES ASSUME sid[q] = sid[r] PROVE FALSE
        OBVIOUS
      <4>1. handle[q] = handle[r]
        BY <3>1, <2>1 DEF LockInv, HandleIsEntry
      <4>2. /\ \E i \in 1..Len(queue[handle[r]]) : queue[handle[r]][i] = q
            /\ queue[handle[r]][1] = r
        BY <3>1, <4>1, <2>1 DEF LockInv, HandlesAreQueued, OwnerIsFirst, Owns
      <4>. QED  BY <2>3, <3>1, <4>2
    <3>. QED  BY <2>1, <3>1, <3>2 DEF LockInv, HandlesAreQueued, TypeOK
  <2>8. EntriesAreDistinct'
    BY <2>1 DEF LockInv, EntriesAreDistinct, TypeOK
  <2>. QED  BY <2>4, <2>5, <2>6, <2>7, <2>8 DEF LockInv
<1>. QED  BY <1>1, <1>2

-----------------------------------------------------------------------------
(* The mutex passes to the next in its queue *)

LEMMA UnlockInv ==
    ASSUME IInv, NEW r \in Requests, Unlock(r)
    PROVE  LockInv'
<1>. USE DEF IInv
<1>. DEFINE l == handle[r]
<1>1. /\ pc[r] = "unlock"
      /\ queue' = [queue EXCEPT ![l] = Tail(@)]
      /\ pc' = [pc EXCEPT ![r] = "idle"]
      /\ sid' = [sid EXCEPT ![r] = NoSession]
      /\ handle' = [handle EXCEPT ![r] = NoLock]
      /\ UNCHANGED entry
  BY DEF Unlock
<1>2. /\ l \in Locks
      /\ queue[l] \in Seq(Requests)
      /\ Len(queue[l]) >= 1
      /\ queue[l][1] = r
  BY <1>1 DEF LockInv, HandlesAreQueued, OwnerIsFirst, Owns, TypeOK
<1>3. /\ pc'[r] = "idle"
      /\ \A q \in Requests : q # r =>
           pc'[q] = pc[q] /\ sid'[q] = sid[q] /\ handle'[q] = handle[q]
  BY <1>1 DEF TypeOK
<1>4. queue'[l] = Tail(queue[l]) /\ \A k \in Locks : k # l => queue'[k] = queue[k]
  BY <1>1, <1>2 DEF TypeOK
<1>. HIDE DEF l
<1>. DEFINE n == Len(queue[l])
<1>5. /\ n \in Nat
      /\ n >= 1
      /\ Len(queue'[l]) = n - 1
      /\ \A i \in 1..n - 1 : queue'[l][i] = queue[l][i + 1]
  BY <1>2, <1>4, TailElements
<1>. HIDE DEF n
<1>6. \A i \in 1..n : queue[l][i] \in Requests /\ (queue[l][i] = r => i = 1)
  BY <1>2 DEF LockInv, QueuesAreHandles, n
<1>7. HandlesAreQueued'
  <2>. SUFFICES ASSUME NEW q \in Requests, pc'[q] # "idle"
                PROVE  /\ handle'[q] \in Locks
                       /\ sid'[q] \in Sessions
                       /\ \E i \in 1..Len(queue'[handle'[q]]) : queue'[handle'[q]][i] = q
    BY DEF HandlesAreQueued
  <2>1. /\ q # r /\ pc[q] # "idle" /\ handle'[q] = handle[q] /\ sid'[q] = sid[q]
        /\ handle[q] \in Locks /\ sid[q] \in Sessions
        /\ \E i \in 1..Len(queue[handle[q]]) : queue[handle[q]][i] = q
    BY <1>3 DEF LockInv, HandlesAreQueued
  <2>2. CASE handle[q] = l
    <3>1. PICK i \in 1..n : queue[l][i] = q
      BY <2>1, <2>2 DEF n
    <3>2. i # 1
      BY <1>2, <2>1, <3>1
    <3>3. i - 1 \in 1..n - 1 /\ (i - 1) + 1 = i
      BY <3>1, <3>2, <1>5
    <3>4. queue'[l][i - 1] = q
      BY <1>5, <3>1, <3>3
    <3>. QED  BY <2>1, <2>2, <3>3, <3>4, <1>5
  <2>3. CASE handle[q] # l
    BY <2>1, <2>3, <1>4
  <2>. QED  BY <2>2, <2>3
<1>8. QueuesAreHandles'
  <2>. SUFFICES ASSUME NEW k \in Locks, NEW i \in 1..Len(queue'[k])
                PROVE  /\ pc'[queue'[k][i]] # "idle"
                       /\ handle'[queue'[k][i]] = k
                       /\ \A j \in 1..Len(queue'[k]) :
                            queue'[k][i] = queue'[k][j] => i = j
    BY DEF QueuesAreHandles
  <2>1. CASE k # l
    <3>1. /\ queue'[k] = queue[k] /\ queue[k] \in Seq(Requests)
          /\ Len(queue'[k]) = Len(queue[k]) /\ i \in 1..Len(queue[k])
      BY <2>1, <1>4 DEF TypeOK
    <3>2. /\ queue[k][i] \in Requests
          /\ pc[queue[k][i]] # "idle"
          /\ handle[queue[k][i]] = k
          /\ \A j \in 1..Len(queue[k]) : queue[k][i] = queue[k][j] => i = j
      BY <3>1 DEF LockInv, QueuesAreHandles
    <3>3. queue[k][i] # r
      BY <2>1, <3>2 DEF l
    <3>. QED  BY <3>1, <3>2, <3>3, <1>3
  <2>2. CASE k = l
    <3>1. \A j1, j2 \in 1..n : /\ pc[queue[l][j1]] # "idle"
                               /\ handle[queue[l][j1]] = l
                               /\ queue[l][j1] = queue[l][j2] => j1 = j2
      BY <1>2 DEF LockInv, QueuesAreHandles, n
    <3>2. \A j \in 1..n - 1 : /\ j + 1 \in 1..n /\ j + 1 # 1
                              /\ queue'[l][j] = queue[l][j + 1]
      BY <1>5
    <3>3. i \in 1..n - 1 /\ Len(queue'[l]) = n - 1
      BY <2>2, <1>5
    <3>4. \A j1, j2 \in 1..n - 1 : j1 + 1 = j2 + 1 => j1 = j2
      BY <1>5
    <3>5. queue[l][i + 1] \in Requests /\ queue[l][i + 1] # r
      BY <3>2, <3>3, <1>6
    <3>6. pc'[queue'[l][i]] # "idle" /\ handle'[queue'[l][i]] = l
      BY <3>1, <3>2, <3>3, <3>5, <1>3
    <3>7. \A j \in 1..n - 1 : queue'[l][i] = queue'[l][j] => i = j
      BY <3>1, <3>2, <3>3, <3>4
    <3>. QED  BY <2>2, <3>3, <3>6, <3>7
  <2>. QED  BY <2>1, <2>2
<1>9. OwnerIsFirst'
  <2>. SUFFICES ASSUME NEW q \in Requests, Owns(q)'
                PROVE  queue'[handle'[q]][1] = q
    BY DEF OwnerIsFirst
  <2>1. /\ q # r /\ Owns(q) /\ handle'[q] = handle[q] /\ handle[q] \in Locks
        /\ queue[handle[q]][1] = q
    BY <1>3 DEF Owns, LockInv, OwnerIsFirst, HandlesAreQueued
  <2>2. handle[q] # l
    BY <2>1, <1>2
  <2>. QED  BY <2>1, <2>2, <1>4
<1>10. HandleIsEntry'
  BY <1>1, <1>3 DEF LockInv, HandleIsEntry
<1>11. EntriesAreDistinct'
  BY <1>1 DEF LockInv, EntriesAreDistinct
<1>. QED  BY <1>7, <1>8, <1>9, <1>10, <1>11 DEF LockInv

-----------------------------------------------------------------------------
(* The inductive invariant *)

LEMMA NextInv == IInv /\ [Next]_vars => IInv'
<1>. SUFFICES ASSUME IInv, [Next]_vars PROVE IInv'
  OBVIOUS
<1>1. TypeOK'
  BY TypeNext DEF IInv
<1>2. LockInv'
  <2>1. ASSUME NEW r \in Requests, NEW s \in Sessions, LockSession(r, s) PROVE LockInv'
    BY <2>1, LockSessionInv
  <2>2. ASSUME NEW s \in Sessions, OpenNew(s) PROVE LockInv'
    BY <2>2 DEF OpenNew, IInv, LockInv, HandlesAreQueued, QueuesAreHandles, OwnerIsFirst,
                HandleIsEntry, EntriesAreDistinct, Owns
  <2>3. ASSUME NEW r \in Requests, Acquire(r) PROVE LockInv'
    BY <2>3, PcStepInv DEF Acquire
  <2>4. ASSUME NEW r \in Requests, Serve(r) PROVE LockInv'
    BY <2>4, PcStepInv DEF Serve, RestoreSession, CloseSession, OtherRequest, Owns
  <2>5. ASSUME NEW r \in Requests, DropCheck(r) PROVE LockInv'
    BY <2>5, PcStepInv DEF DropCheck, Owns
  <2>6. ASSUME NEW r \in Requests, DropRemove(r) PROVE LockInv'
    BY <2>6, DropRemoveInv
  <2>7. ASSUME NEW r \in Requests, Unlock(r) PROVE LockInv'
    BY <2>7, UnlockInv
  <2>8. CASE UNCHANGED vars
    BY <2>8 DEF vars, IInv, LockInv, HandlesAreQueued, QueuesAreHandles, OwnerIsFirst,
                HandleIsEntry, EntriesAreDistinct, Owns
  <2>. QED
    BY <2>1, <2>2, <2>3, <2>4, <2>5, <2>6, <2>7, <2>8 DEF Next, DropGuard
<1>. QED  BY <1>1, <1>2 DEF IInv

\* The map, the Arc handles and the queues of the session locks stay
\* consistent: TypeOK and LockInv hold in every reachable state.
THEOREM LockInvariant == Spec => [](TypeOK /\ LockInv)
<1>1. Init => IInv
  BY InitInv
<1>2. IInv /\ [Next]_vars => IInv'
  BY NextInv
<1>. QED  BY <1>1, <1>2, PTL DEF Spec, IInv

\* Type correctness of the session locks.
THEOREM TypeCorrect == Spec => []TypeOK
BY LockInvariant, PTL

\* Two handlers never run side by side on one session, for any number of
\* requests and sessions, although closing a session removes its lock.
THEOREM SessionsAreExclusive == Spec => []MutualExclusion
<1>1. TypeOK /\ LockInv => MutualExclusion
  BY DEF TypeOK, LockInv, OwnerIsFirst, HandleIsEntry, MutualExclusion, Owns
<1>. QED  BY <1>1, LockInvariant, PTL

-----------------------------------------------------------------------------
(* Nothing is left behind *)

LEMMA NoStaleEntryNext ==
    IInv /\ NoStaleEntry /\ [Next]_vars => NoStaleEntry'
<1>. SUFFICES ASSUME IInv, NoStaleEntry, [Next]_vars,
                     NEW s \in Sessions, entry'[s] # NoLock, s \notin sessions'
              PROVE  \E q \in Requests :
                        sid'[q] = s /\ pc'[q] \in {"queued", "run", "drop", "remove"}
  BY DEF NoStaleEntry
<1>. USE DEF IInv, TypeOK
<1>. DEFINE Keeps(q) == sid[q] = s /\ pc[q] \in {"queued", "run", "drop", "remove"}
<1>1. ASSUME NEW r \in Requests, NEW t \in Sessions, LockSession(r, t)
      PROVE  \E q \in Requests : (sid'[q] = s /\ pc'[q] = "queued") \/ Keeps(q)'
  <2>1. CASE s = t
    BY <1>1, <2>1 DEF LockSession
  <2>2. CASE s # t
    <3>1. entry[s] # NoLock /\ s \notin sessions
      BY <1>1, <2>2 DEF LockSession
    <3>2. PICK q \in Requests : Keeps(q)
      BY <3>1 DEF NoStaleEntry
    <3>. QED  BY <1>1, <3>2 DEF LockSession
  <2>. QED  BY <2>1, <2>2
<1>2. ASSUME NEW t \in Sessions, OpenNew(t) PROVE \E q \in Requests : Keeps(q)'
  BY <1>2 DEF OpenNew, NoStaleEntry
<1>3. ASSUME NEW r \in Requests, Acquire(r) PROVE \E q \in Requests : Keeps(q)'
  <2>1. PICK q \in Requests : Keeps(q)
    BY <1>3 DEF Acquire, NoStaleEntry
  <2>. QED  BY <1>3, <2>1 DEF Acquire
<1>4. ASSUME NEW r \in Requests, Serve(r) PROVE \E q \in Requests : Keeps(q)'
  <2>1. /\ pc[r] = "run" /\ pc' = [pc EXCEPT ![r] = "drop"]
        /\ UNCHANGED <<entry, sid>>
        /\ sessions' \in {sessions, sessions \cup {sid[r]}, sessions \ {sid[r]}}
    BY <1>4 DEF Serve, RestoreSession, CloseSession, OtherRequest
  <2>2. CASE s = sid[r]
    BY <2>1, <2>2
  <2>3. CASE s # sid[r]
    <3>1. PICK q \in Requests : Keeps(q)
      BY <2>1, <2>3 DEF NoStaleEntry
    <3>. QED  BY <2>1, <3>1
  <2>. QED  BY <2>2, <2>3
<1>5. ASSUME NEW r \in Requests, DropCheck(r) PROVE \E q \in Requests : Keeps(q)'
  <2>1. PICK q \in Requests : Keeps(q)
    BY <1>5 DEF DropCheck, NoStaleEntry
  <2>. QED  BY <1>5, <2>1 DEF DropCheck
<1>6. ASSUME NEW r \in Requests, DropRemove(r) PROVE \E q \in Requests : Keeps(q)'
  <2>1. /\ pc[r] = "remove" /\ pc' = [pc EXCEPT ![r] = "unlock"]
        /\ UNCHANGED <<sessions, sid>>
        /\ entry[s] # NoLock /\ s \notin sessions
    <3>1. entry[s] # NoLock
      BY <1>6 DEF DropRemove
    <3>. QED  BY <1>6, <3>1 DEF DropRemove
  <2>2. PICK q \in Requests : Keeps(q)
    BY <2>1 DEF NoStaleEntry
  <2>3. CASE q # r
    BY <2>1, <2>2, <2>3
  <2>4. CASE q = r
    <3>1. /\ s = sid[r] /\ handle[r] \in Locks /\ entry[s] = handle[r]
          /\ \E i \in 1..Len(queue[handle[r]]) : queue[handle[r]][i] = r
          /\ queue[handle[r]][1] = r
      BY <2>1, <2>2, <2>4
         DEF LockInv, HandlesAreQueued, HandleIsEntry, OwnerIsFirst, Owns
    <3>2. ~SoleUser(r)
      BY <1>6, <3>1 DEF DropRemove
    <3>3. MapHandles(handle[r]) = 1
      BY <3>1 DEF MapHandles
    <3>4. Len(queue[handle[r]]) \in Nat
      BY <3>1
    <3>5. \A n \in Nat : n >= 1 /\ 1 + n # 2 => n >= 2
      OBVIOUS
    <3>6. Len(queue[handle[r]]) >= 2
      BY <3>1, <3>2, <3>3, <3>4, <3>5 DEF SoleUser, StrongCount
    <3>. DEFINE p == queue[handle[r]][2]
    <3>7. 2 \in 1..Len(queue[handle[r]]) /\ 1 \in 1..Len(queue[handle[r]])
      BY <3>4, <3>6
    <3>8. p \in Requests /\ pc[p] # "idle" /\ handle[p] = handle[r]
      BY <3>1, <3>7 DEF LockInv, QueuesAreHandles
    <3>9. p # r
      BY <3>1, <3>7 DEF LockInv, QueuesAreHandles
    <3>10. pc[p] = "queued"
      BY <3>1, <3>8, <3>9 DEF LockInv, OwnerIsFirst, Owns, PCs
    <3>11. sid[p] = s
      BY <3>1, <3>8, <3>10, LocksAssumption
         DEF LockInv, HandlesAreQueued, HandleIsEntry, EntriesAreDistinct
    <3>. QED  BY <2>1, <3>8, <3>9, <3>10, <3>11
  <2>. QED  BY <2>3, <2>4
<1>7. ASSUME NEW r \in Requests, Unlock(r) PROVE \E q \in Requests : Keeps(q)'
  <2>1. PICK q \in Requests : Keeps(q)
    BY <1>7 DEF Unlock, NoStaleEntry
  <2>2. q # r
    BY <1>7, <2>1 DEF Unlock
  <2>. QED  BY <1>7, <2>1, <2>2 DEF Unlock
<1>8. CASE UNCHANGED vars
  BY <1>8 DEF vars, NoStaleEntry
<1>. QED
  BY <1>1, <1>2, <1>3, <1>4, <1>5, <1>6, <1>7, <1>8 DEF Next, DropGuard

\* session_locks does not grow with the sessions a client has closed, nor with
\* the ids it made up: an entry is there only for an open session or for a
\* request still to drop its guard.
THEOREM NothingLeftBehind == Spec => []NoStaleEntry
<1>1. Init => NoStaleEntry
  BY DEF Init, NoStaleEntry
<1>2. IInv /\ NoStaleEntry /\ [Next]_vars => NoStaleEntry'
  BY NoStaleEntryNext
<1>. QED  BY <1>1, <1>2, LockInvariant, PTL DEF Spec, IInv

-----------------------------------------------------------------------------
(* The locks implement RequestOrder *)

\* Waiting, of where a request is.
Waits(p) == p \in {"queued", "run"}

\* The line of session s does not change when its entry, the queue of its mutex
\* and what the first in it does are the same.
LEMMA LineKept ==
    ASSUME NEW s \in Sessions, UNCHANGED entry,
           entry[s] # NoLock =>
              /\ queue'[entry[s]] = queue[entry[s]]
              /\ queue[entry[s]] # << >> =>
                    (Waits(pc'[Head(queue[entry[s]])])
                       <=> Waits(pc[Head(queue[entry[s]])]))
    PROVE  LineOf(s)' = LineOf(s)
BY DEF LineOf, Waiting, Waits

\* What is in front of a mutex's queue points to that mutex.
LEMMA FrontPointsBack ==
    ASSUME IInv, NEW s \in Sessions, entry[s] # NoLock, queue[entry[s]] # << >>
    PROVE  /\ entry[s] \in Locks
           /\ Head(queue[entry[s]]) \in Requests
           /\ Head(queue[entry[s]]) = queue[entry[s]][1]
           /\ handle[Head(queue[entry[s]])] = entry[s]
           /\ pc[Head(queue[entry[s]])] # "idle"
<1>1. entry[s] \in Locks /\ queue[entry[s]] \in Seq(Requests)
  BY DEF IInv, TypeOK
<1>2. 1 \in 1..Len(queue[entry[s]]) /\ Head(queue[entry[s]]) = queue[entry[s]][1]
  BY <1>1
<1>. QED  BY <1>1, <1>2 DEF IInv, LockInv, QueuesAreHandles

\* The step of a request that moves its pc only, out of or into no wait.
LEMMA PcStepKeepsLines ==
    ASSUME IInv, NEW r \in Requests, NEW p, pc' = [pc EXCEPT ![r] = p],
           UNCHANGED <<entry, queue>>,
           NEW s \in Sessions,
           (Waits(pc[r]) <=> Waits(p)) \/ entry[s] # handle[r]
    PROVE  LineOf(s)' = LineOf(s)
BY LineKept, FrontPointsBack DEF IInv, TypeOK

\* An arrival takes its place at the end of its session's line, and of no other.
LEMMA SubmitRefines ==
    ASSUME IInv, NEW r \in Requests, NEW s \in Sessions, LockSession(r, s)
    PROVE  Order!Submit(r, s)
<1>. USE DEF IInv
<1>1. PICK l \in LockFor(s) :
       /\ entry' = [entry EXCEPT ![s] = l]
       /\ queue' = [queue EXCEPT ![l] = Append(@, r)]
  BY DEF LockSession
<1>2. /\ l \in Locks /\ l # NoLock
      /\ entry[s] # NoLock => l = entry[s]
      /\ entry[s] = NoLock => queue[l] = << >> /\ \A t \in Sessions : entry[t] # l
  BY LocksAssumption, FreshLock DEF LockFor, TypeOK
<1>3. /\ queue[l] \in Seq(Requests)
      /\ entry'[s] = l /\ queue'[l] = Append(queue[l], r)
      /\ \A k \in Locks : k # l => queue'[k] = queue[k]
      /\ \A t \in Sessions : t # s => entry'[t] = entry[t]
  BY <1>1, <1>2 DEF TypeOK
<1>4. /\ pc[r] = "idle" /\ pc'[r] = "queued"
      /\ \A q \in Requests : q # r => pc'[q] = pc[q]
  BY DEF LockSession, TypeOK
<1>5. LineOf(s)' = Append(LineOf(s), r)
  <2>1. CASE queue[l] = << >>
    <3>1. LineOf(s) = << >>
      BY <1>2, <2>1 DEF LineOf
    <3>2. queue'[l] = <<r>> /\ Head(queue'[l]) = r /\ Waiting(r)'
      BY <1>3, <1>4, <2>1 DEF Waiting
    <3>3. LineOf(s)' = queue'[l]
      BY <1>2, <1>3, <3>2 DEF LineOf
    <3>. QED  BY <3>1, <3>2, <3>3
  <2>2. CASE queue[l] # << >>
    <3>1. entry[s] = l
      BY <1>2, <2>2
    <3>2. Head(queue[l]) \in Requests /\ pc[Head(queue[l])] # "idle"
      BY <1>2, <2>2, <3>1, FrontPointsBack
    <3>3. /\ queue'[l] # << >> /\ Head(queue'[l]) = Head(queue[l])
          /\ Tail(queue'[l]) = Append(Tail(queue[l]), r)
      BY <1>3, <2>2
    <3>4. Waits(pc'[Head(queue'[l])]) <=> Waits(pc[Head(queue[l])])
      BY <1>4, <3>2, <3>3 DEF Waits
    <3>5. LineOf(s) = IF Waits(pc[Head(queue[l])]) THEN queue[l] ELSE Tail(queue[l])
      BY <1>2, <2>2, <3>1 DEF LineOf, Waiting, Waits
    <3>6. LineOf(s)' = IF Waits(pc'[Head(queue'[l])]) THEN queue'[l] ELSE Tail(queue'[l])
      BY <1>2, <1>3, <3>3 DEF LineOf, Waiting, Waits
    <3>. QED  BY <1>3, <3>3, <3>4, <3>5, <3>6
  <2>. QED  BY <2>1, <2>2
<1>6. ASSUME NEW t \in Sessions, t # s
      PROVE  LineOf(t)' = LineOf(t)
  <2>1. CASE entry[t] = NoLock
    BY <1>3, <1>6, <2>1 DEF LineOf
  <2>2. CASE entry[t] # NoLock
    <3>1. entry[t] # l /\ entry[t] \in Locks
      BY <1>2, <1>6, <2>2 DEF LockInv, EntriesAreDistinct, TypeOK
    <3>2. queue'[entry[t]] = queue[entry[t]]
      BY <1>3, <3>1
    <3>3. queue[entry[t]] # << >> =>
            pc'[Head(queue[entry[t]])] = pc[Head(queue[entry[t]])]
      BY <1>4, <2>2, FrontPointsBack
    <3>. QED  BY <1>3, <1>6, <2>2, <3>2, <3>3 DEF LineOf, Waiting
  <2>. QED  BY <2>1, <2>2
<1>7. PhaseOf(r) = "idle" /\ PhaseOf(r)' = "waiting"
  BY <1>4 DEF PhaseOf
<1>8. \A q \in Requests : q # r => PhaseOf(q)' = PhaseOf(q)
  BY <1>4 DEF PhaseOf
<1>. HIDE DEF IInv
<1>. QED  BY <1>5, <1>6, <1>7, <1>8 DEF Order!Submit

LEMMA ServeRefines ==
    ASSUME IInv, NEW r \in Requests, Acquire(r)
    PROVE  sid[r] \in Sessions /\ Order!Serve(r, sid[r])
<1>. DEFINE s == sid[r]
<1>1. /\ pc[r] = "queued" /\ pc' = [pc EXCEPT ![r] = "run"]
      /\ UNCHANGED <<entry, queue>>
      /\ r = Head(queue[handle[r]])
  BY DEF Acquire
<1>2. /\ s \in Sessions /\ entry[s] = handle[r] /\ entry[s] # NoLock
      /\ queue[handle[r]] # << >>
  BY <1>1, LocksAssumption DEF IInv, LockInv, HandlesAreQueued, HandleIsEntry, TypeOK
<1>3. LineOf(s) = queue[handle[r]]
  BY <1>1, <1>2 DEF LineOf, Waiting
<1>4. \A t \in Sessions : LineOf(t)' = LineOf(t)
  BY <1>1, PcStepKeepsLines DEF Waits
<1>5. /\ PhaseOf(r) = "waiting" /\ PhaseOf(r)' = "serving"
      /\ \A q \in Requests : q # r => PhaseOf(q)' = PhaseOf(q)
  BY <1>1 DEF PhaseOf, IInv, TypeOK
<1>. QED  BY <1>1, <1>2, <1>3, <1>4, <1>5 DEF Order!Serve

LEMMA FinishRefines ==
    ASSUME IInv, NEW r \in Requests, Serve(r), NEW s \in Sessions, s = sid[r]
    PROVE  Order!Finish(r, s)
<1>1. /\ pc[r] = "run" /\ pc' = [pc EXCEPT ![r] = "drop"]
      /\ UNCHANGED <<entry, queue>>
  BY DEF Serve, RestoreSession, CloseSession, OtherRequest
<1>2. /\ entry[s] = handle[r] /\ entry[s] # NoLock
      /\ queue[handle[r]] # << >> /\ Head(queue[handle[r]]) = r
  <2>1. /\ handle[r] \in Locks /\ entry[s] = handle[r]
        /\ queue[handle[r]][1] = r
        /\ \E i \in 1..Len(queue[handle[r]]) : queue[handle[r]][i] = r
    BY <1>1 DEF IInv, LockInv, HandlesAreQueued, HandleIsEntry, OwnerIsFirst, Owns
  <2>2. queue[handle[r]] \in Seq(Requests)
    BY <2>1 DEF IInv, TypeOK
  <2>. QED  BY <2>1, <2>2, LocksAssumption
<1>3. LineOf(s) = queue[handle[r]]
  BY <1>1, <1>2 DEF LineOf, Waiting
<1>4. LineOf(s)' = Tail(queue[handle[r]])
  <2>1. pc'[r] = "drop"
    BY <1>1 DEF IInv, TypeOK
  <2>. QED  BY <1>1, <1>2, <2>1 DEF LineOf, Waiting
<1>5. ASSUME NEW t \in Sessions, t # s
      PROVE  LineOf(t)' = LineOf(t)
  <2>1. entry[t] # handle[r]
    BY <1>2, <1>5 DEF IInv, LockInv, EntriesAreDistinct
  <2>. QED  BY <1>1, <2>1, PcStepKeepsLines
<1>6. /\ PhaseOf(r) = "serving" /\ PhaseOf(r)' = "idle"
      /\ \A q \in Requests : q # r => PhaseOf(q)' = PhaseOf(q)
  BY <1>1 DEF PhaseOf, IInv, TypeOK
<1>. QED  BY <1>2, <1>3, <1>4, <1>5, <1>6 DEF Order!Finish

\* A guard's clean-up is not seen: neither the entry it may remove nor the
\* mutex it passes on moves anybody in a line.
LEMMA DropGuardKeepsLines ==
    ASSUME IInv, NEW r \in Requests, DropGuard(r), NEW s \in Sessions
    PROVE  LineOf(s)' = LineOf(s)
<1>1. CASE DropCheck(r)
  <2>. DEFINE p == IF sid[r] \in sessions THEN "unlock" ELSE "remove"
  <2>1. /\ pc[r] = "drop" /\ pc' = [pc EXCEPT ![r] = p] /\ UNCHANGED <<entry, queue>>
    BY <1>1 DEF DropCheck
  <2>2. p \in {"unlock", "remove"}
    OBVIOUS
  <2>. HIDE DEF p
  <2>3. ~Waits(pc[r]) /\ ~Waits(p)
    BY <2>1, <2>2 DEF Waits
  <2>. QED  BY <2>1, <2>3, PcStepKeepsLines
<1>2. CASE DropRemove(r) /\ ~SoleUser(r)
  <2>1. /\ pc[r] = "remove" /\ pc' = [pc EXCEPT ![r] = "unlock"]
        /\ UNCHANGED <<entry, queue>>
    BY <1>2 DEF DropRemove
  <2>2. ~Waits(pc[r]) /\ ~Waits("unlock")
    BY <2>1 DEF Waits
  <2>. QED  BY <2>1, <2>2, PcStepKeepsLines
<1>3. CASE DropRemove(r) /\ SoleUser(r)
  <2>. DEFINE h == handle[r]
  <2>1. /\ pc[r] = "remove" /\ pc' = [pc EXCEPT ![r] = "unlock"]
        /\ entry' = [entry EXCEPT ![sid[r]] = NoLock] /\ UNCHANGED queue
        /\ entry[sid[r]] = h
    BY <1>3 DEF DropRemove, SoleUser
  <2>2. /\ h \in Locks /\ queue[h] \in Seq(Requests)
        /\ queue[h][1] = r /\ Len(queue[h]) = 1
    BY <1>3, <2>1, SoleUserIsAlone
       DEF IInv, TypeOK, LockInv, HandlesAreQueued, OwnerIsFirst, Owns
  <2>3. CASE s = sid[r]
    <3>1. LineOf(s)' = << >>
      BY <2>1, <2>3 DEF LineOf, IInv, TypeOK
    <3>2. queue[h] # << >> /\ Head(queue[h]) = r /\ Tail(queue[h]) = << >>
      <4>1. Tail(queue[h]) \in Seq(Requests) /\ Len(Tail(queue[h])) = 0
        BY <2>2, TailElements
      <4>2. \A q \in Seq(Requests) : Len(q) = 0 => q = << >>
        OBVIOUS
      <4>3. Tail(queue[h]) = << >>
        BY <4>1, <4>2
      <4>. QED  BY <2>2, <4>3
    <3>3. LineOf(s) = << >>
      BY <2>1, <2>2, <2>3, <3>2, LocksAssumption DEF LineOf, Waiting
    <3>. QED  BY <3>1, <3>3
  <2>4. CASE s # sid[r]
    <3>1. entry'[s] = entry[s]
      BY <2>1, <2>4
    <3>2. entry[s] # NoLock /\ queue[entry[s]] # << >> =>
            (Waits(pc'[Head(queue[entry[s]])]) <=> Waits(pc[Head(queue[entry[s]])]))
      BY <2>1, FrontPointsBack DEF Waits, IInv, TypeOK
    <3>. QED  BY <2>1, <3>1, <3>2 DEF LineOf, Waiting, Waits
  <2>. QED  BY <2>3, <2>4
<1>4. CASE Unlock(r)
  <2>. DEFINE h == handle[r]
  <2>1. /\ pc[r] = "unlock" /\ pc' = [pc EXCEPT ![r] = "idle"]
        /\ queue' = [queue EXCEPT ![h] = Tail(@)] /\ UNCHANGED entry
    BY <1>4 DEF Unlock
  <2>2. /\ h \in Locks /\ queue[h] \in Seq(Requests)
        /\ queue[h][1] = r /\ Len(queue[h]) >= 1
    BY <2>1 DEF IInv, TypeOK, LockInv, HandlesAreQueued, OwnerIsFirst, Owns
  <2>3. \A q \in Requests : q # r => pc'[q] = pc[q]
    BY <2>1 DEF IInv, TypeOK
  <2>4. CASE entry[s] = h
    <3>1. queue[h] # << >> /\ Head(queue[h]) = r /\ h # NoLock
      BY <2>2, LocksAssumption
    <3>2. LineOf(s) = Tail(queue[h])
      BY <2>1, <2>4, <3>1 DEF LineOf, Waiting
    <3>3. entry'[s] = h /\ queue'[h] = Tail(queue[h])
      BY <2>1, <2>2, <2>4 DEF IInv, TypeOK
    <3>4. ASSUME Tail(queue[h]) # << >>
          PROVE  pc'[Head(Tail(queue[h]))] = "queued"
      <4>. DEFINE p == queue[h][2]
      <4>1. 2 \in 1..Len(queue[h]) /\ 1 \in 1..Len(queue[h]) /\ Head(Tail(queue[h])) = p
        BY <2>2, <3>4
      <4>2. p \in Requests /\ p # r /\ pc[p] # "idle" /\ handle[p] = h
        BY <2>2, <4>1 DEF IInv, LockInv, QueuesAreHandles
      <4>3. ~Owns(p)
        BY <2>2, <4>2 DEF IInv, LockInv, OwnerIsFirst
      <4>4. pc[p] = "queued" /\ pc'[p] = pc[p]
        BY <2>3, <4>2, <4>3 DEF Owns, IInv, TypeOK, PCs
      <4>. QED  BY <4>1, <4>4
    <3>5. LineOf(s)' = Tail(queue[h])
      BY <3>1, <3>3, <3>4 DEF LineOf, Waiting
    <3>. QED  BY <3>2, <3>5
  <2>5. CASE entry[s] # h
    <3>1. entry[s] # NoLock => /\ queue'[entry[s]] = queue[entry[s]]
                               /\ queue[entry[s]] # << >> =>
                                    pc'[Head(queue[entry[s]])] = pc[Head(queue[entry[s]])]
      BY <2>1, <2>2, <2>3, <2>5, FrontPointsBack DEF IInv, TypeOK
    <3>. QED  BY <2>1, <3>1, LineKept DEF Waiting
  <2>. QED  BY <2>4, <2>5
<1>. QED  BY <1>1, <1>2, <1>3, <1>4 DEF DropGuard

LEMMA StepRefines ==
    ASSUME IInv, [Next]_vars
    PROVE  [Order!Next]_(Order!vars)
<1>. DEFINE Same == /\ \A s \in Sessions : LineOf(s)' = LineOf(s)
                    /\ \A r \in Requests : PhaseOf(r)' = PhaseOf(r)
<1>1. ASSUME Same PROVE UNCHANGED Order!vars
  BY <1>1 DEF Order!vars
<1>2. ASSUME NEW r \in Requests, NEW s \in Sessions, LockSession(r, s)
      PROVE  Order!Next
  BY <1>2, SubmitRefines DEF Order!Next
<1>3. ASSUME NEW s \in Sessions, OpenNew(s) PROVE Same
  BY <1>3 DEF OpenNew, LineOf, PhaseOf, Waiting
<1>4. ASSUME NEW r \in Requests, Acquire(r) PROVE Order!Next
  BY <1>4, ServeRefines DEF Order!Next
<1>5. ASSUME NEW r \in Requests, Serve(r) PROVE Order!Next
  <2>1. sid[r] \in Sessions
    BY <1>5 DEF Serve, RestoreSession, CloseSession, OtherRequest, IInv, LockInv,
                HandlesAreQueued
  <2>. QED  BY <1>5, <2>1, FinishRefines DEF Order!Next
<1>6. ASSUME NEW r \in Requests, DropGuard(r) PROVE Same
  <2>1. \A q \in Requests : PhaseOf(q)' = PhaseOf(q)
    BY <1>6 DEF DropGuard, DropCheck, DropRemove, Unlock, PhaseOf, IInv, TypeOK
  <2>. QED  BY <1>6, <2>1, DropGuardKeepsLines
<1>7. CASE UNCHANGED vars
  <2>1. Same
    BY <1>7 DEF vars, LineOf, PhaseOf, Waiting
  <2>. QED  BY <1>1, <2>1
<1>. HIDE DEF Same
<1>. QED  BY <1>1, <1>2, <1>3, <1>4, <1>5, <1>6, <1>7, Zenon DEF Next

\* The locks serve the requests on each session one at a time and in the order
\* they arrived, and let the others pass, however many mutexes a session id
\* goes through: SessionLocks implements RequestOrder (lock_session,
\* SessionGuard::drop, and the comment on session_locks, main.rs 1321-1326).
THEOREM ArrivalOrderIsKept == Spec => KeepsArrivalOrder
<1>1. Init => Order!Init
  BY DEF Init, Order!Init, LineOf, PhaseOf
<1>2. IInv /\ [Next]_vars => [Order!Next]_(Order!vars)
  BY StepRefines
<1>. QED
  BY <1>1, <1>2, LockInvariant, PTL DEF Spec, IInv, KeepsArrivalOrder, Order!Spec
=============================================================================
