----------------------- MODULE SessionWorkspaceProofs -----------------------
(***************************************************************************)
(* Proofs about SessionWorkspace, for every set of sessions, directories,  *)
(* requests and models.                                                    *)
(*                                                                         *)
(* BackendsAreOwned is about the agent alone, but a turn that gave up the  *)
(* workspace still points to a backend: the invariant IInv joins what is   *)
(* true of the agent (Coherent) to the two locks.  Placed says where each  *)
(* request stands in its session's queue, Holding who has the workspace.   *)
(* From these follow TurnsAreOpen and TurnsAreLive: while a turn is under  *)
(* way its session is open, and live when the turn has the workspace.      *)
(*                                                                         *)
(* The handlers are long and share what they do, so their effects on the   *)
(* agent are stated once: Moves is what happens while a session stays      *)
(* live, Visited that another one is put in place, Reaches either.  Each   *)
(* function of the code has one of these effects, and an invariant has to  *)
(* be kept by the effects only.                                            *)
(*                                                                         *)
(* Added to IInv are Located for the directory of a tool, ClosingIsMarked  *)
(* for a queued prompt, and Settled for the backend of a turn.             *)
(*                                                                         *)
(* The last part shows that the workspace implements SessionThreads: what  *)
(* the functions do to the threads (Opened, OnLive, Unchanged), what a     *)
(* step may do to them (the lemmas on Simulated), and the actions.         *)
(***************************************************************************)
EXTENDS SessionWorkspace, FiniteSetTheorems, TLAPS

-----------------------------------------------------------------------------
(* A backend of one's own *)

\* There is always an HTTP backend that nothing points to, so what NewBackend
\* returns is one.
LEMMA FreshBackend ==
    ASSUME NEW a
    PROVE  NewBackend(a) \in Backends /\ NewBackend(a) \notin HeldBackends(a)
<1>. DEFINE B(r) == req[r].backend
            R == {B(r) : r \in Requests}
            P == {x \in Sessions : a.sess[x] # NoState /\ a.sess[x].remote # NoRemote}
            C(s) == a.sess[s].remote.backend
            S == {C(s) : s \in P}
<1>1. IsFiniteSet(R) /\ Cardinality(R) <= Cardinality(Requests)
  <2>. DEFINE f == [r \in Requests |-> B(r)]
  <2>1. f \in Surjection(Requests, R)
    BY DEF Surjection
  <2>. QED  BY <2>1, FS_Surjection, BackendsAssumption
<1>2. IsFiniteSet(S) /\ Cardinality(S) <= Cardinality(Sessions)
  <2>1. IsFiniteSet(P) /\ Cardinality(P) <= Cardinality(Sessions)
    BY FS_Subset, BackendsAssumption
  <2>. DEFINE f == [s \in P |-> C(s)]
  <2>2. f \in Surjection(P, S)
    BY DEF Surjection
  <2>3. IsFiniteSet(S) /\ Cardinality(S) <= Cardinality(P)
    BY <2>1, <2>2, FS_Surjection
  <2>. HIDE DEF P, S
  <2>4. /\ Cardinality(S) \in Nat /\ Cardinality(P) \in Nat
        /\ Cardinality(Sessions) \in Nat
    BY <2>1, <2>3, FS_CardinalityType, BackendsAssumption
  <2>. QED  BY <2>1, <2>3, <2>4
<1>3. HeldBackends(a) = ({a.live} \cup R) \cup S
  BY DEF HeldBackends
<1>. HIDE DEF R, S
<1>4. IsFiniteSet({a.live}) /\ Cardinality({a.live}) = 1
  BY FS_Singleton
<1>. DEFINE T == {a.live} \cup R
<1>5. /\ IsFiniteSet(T)
      /\ Cardinality(T) <= 1 + Cardinality(Requests)
  <2>1. /\ IsFiniteSet(T)
        /\ Cardinality(T) = Cardinality({a.live}) + Cardinality(R)
                            - Cardinality({a.live} \cap R)
    BY <1>1, <1>4, FS_Union
  <2>2. IsFiniteSet({a.live} \cap R)
    BY <1>4, FS_Intersection
  <2>3. /\ Cardinality({a.live} \cap R) \in Nat /\ Cardinality(R) \in Nat
        /\ Cardinality(Requests) \in Nat
    BY <1>1, <2>2, FS_CardinalityType, BackendsAssumption
  <2>. QED  BY <1>1, <1>4, <2>1, <2>3
<1>. HIDE DEF T
<1>6. /\ IsFiniteSet(T \cup S)
      /\ Cardinality(T \cup S) < Cardinality(Backends)
  <2>1. /\ IsFiniteSet(T \cup S)
        /\ Cardinality(T \cup S) = Cardinality(T) + Cardinality(S) - Cardinality(T \cap S)
    BY <1>2, <1>5, FS_Union
  <2>2. IsFiniteSet(T \cap S)
    BY <1>5, FS_Intersection
  <2>3. /\ Cardinality(T \cap S) \in Nat /\ Cardinality(T) \in Nat /\ Cardinality(S) \in Nat
        /\ Cardinality(Requests) \in Nat /\ Cardinality(Sessions) \in Nat
        /\ Cardinality(Backends) \in Nat
    BY <1>2, <1>5, <2>2, FS_CardinalityType, BackendsAssumption
  <2>. QED  BY <1>2, <1>5, <2>1, <2>3, BackendsAssumption
<1>7. \E b \in Backends : b \notin T \cup S
  <2>. SUFFICES ASSUME Backends \in SUBSET (T \cup S) PROVE FALSE
    OBVIOUS
  <2>1. Cardinality(Backends) <= Cardinality(T \cup S)
    BY <1>6, FS_Subset
  <2>2. Cardinality(Backends) \in Nat /\ Cardinality(T \cup S) \in Nat
    BY <1>6, FS_CardinalityType, BackendsAssumption
  <2>. QED  BY <1>6, <2>1, <2>2
<1>. QED  BY <1>3, <1>7 DEF NewBackend, T

-----------------------------------------------------------------------------
(* The functions that move a conversation keep the agent's type *)

LEMMA NoTurnsType == << >> \in Conversations
BY DEF Conversations

LEMMA HistoryType ==
    ASSUME NEW a \in AgentType, NEW b \in Backends \cup {Local}
    PROVE  HistoryOf(a, b) \in Conversations
BY DEF AgentType, HistoryOf

LEMMA RestoreType ==
    ASSUME NEW a \in AgentType, NEW b \in Backends \cup {Local}, NEW conv \in Conversations
    PROVE  Restore(a, b, conv) \in AgentType
BY DEF AgentType, Restore

\* What park_active_session leaves in the live session's slot.
ParkedState(a) ==
    [a.sess[a.active] EXCEPT !.conv = HistoryOf(a, a.live),
                             !.remote = IF a.live = Local THEN NoRemote
                                        ELSE [backend |-> a.live, model |-> a.model]]

LEMMA ParkEffect ==
    ASSUME NEW a \in AgentType, a.active # NoSession, Known(a, a.active)
    PROVE  /\ a.active \in Sessions
           /\ ParkedState(a) \in SessionStates
           /\ Park(a) = [a EXCEPT !.sess = [a.sess EXCEPT ![a.active] = ParkedState(a)]]
<1>1. a.active \in Sessions /\ a.sess[a.active] \in SessionStates
  BY DEF AgentType, Known
<1>2. HistoryOf(a, a.live) \in Conversations
  BY HistoryType DEF AgentType
<1>3. a.live # Local => [backend |-> a.live, model |-> a.model] \in Remotes
  BY DEF AgentType, Remotes
<1>4. ParkedState(a) \in SessionStates
  <2>. DEFINE rem == IF a.live = Local THEN NoRemote ELSE [backend |-> a.live, model |-> a.model]
  <2>1. rem \in Remotes \cup {NoRemote}
    BY <1>3
  <2>. HIDE DEF rem
  <2>2. [a.sess[a.active] EXCEPT !.conv = HistoryOf(a, a.live), !.remote = rem] \in SessionStates
    BY <1>1, <1>2, <2>1 DEF SessionStates
  <2>. QED  BY <2>2 DEF ParkedState, rem
<1>5. Park(a) = [a EXCEPT !.sess = [a.sess EXCEPT ![a.active] = ParkedState(a)]]
  BY <1>1, Zenon DEF Park, ParkedState
<1>. QED  BY <1>1, <1>4, <1>5

-----------------------------------------------------------------------------
(* What may happen to the agent while its session stays live *)

\* l is nobody's backend: no turn's, and no session's that is parked with it.
Unowned(a, l) ==
    /\ l # Local => \A r \in Requests : req[r].backend # l
    /\ \A s \in Sessions : (Known(a, s) /\ a.sess[s].remote # NoRemote)
                              => a.sess[s].remote.backend # l

\* The live session, and the sessions' directories and backends, are as before;
\* the live backend is as before, or nobody's.
Moves(a, b) ==
    /\ b \in AgentType
    /\ b.active = a.active
    /\ b.procDir = a.procDir
    /\ b.live = a.live \/ Unowned(a, b.live)
    /\ \A s \in Sessions : Known(b, s) <=> Known(a, s)
    /\ \A s \in Sessions : s # a.active => b.sess[s] = a.sess[s]
    /\ \A s \in Sessions : Known(a, s) => /\ b.sess[s].cwd = a.sess[s].cwd
                                          /\ b.sess[s].remote = a.sess[s].remote

LEMMA MovesReflexive ==
    ASSUME NEW a \in AgentType
    PROVE  Moves(a, a)
BY DEF Moves

LEMMA MovesTransitive ==
    ASSUME NEW a, NEW b, NEW c, Moves(a, b), Moves(b, c)
    PROVE  Moves(a, c)
BY Zenon DEF Moves, Unowned

LEMMA RestoreMoves ==
    ASSUME NEW a \in AgentType, NEW b \in Backends \cup {Local}, NEW conv \in Conversations
    PROVE  Moves(a, Restore(a, b, conv))
<1>1. Restore(a, b, conv) \in AgentType
  BY RestoreType
<1>2. /\ Restore(a, b, conv).active = a.active
      /\ Restore(a, b, conv).procDir = a.procDir
      /\ Restore(a, b, conv).live = a.live
      /\ Restore(a, b, conv).sess = a.sess
  BY DEF AgentType, Restore
<1>. QED  BY <1>1, <1>2 DEF Moves, Known

LEMMA SeedMoves ==
    ASSUME NEW a \in AgentType, NEW conv \in Conversations
    PROVE  Moves(a, Seed(a, conv))
<1>. DEFINE c == IF a.live = Local THEN a ELSE [a EXCEPT !.engine = << >>]
<1>1. c \in AgentType /\ a.live \in Backends \cup {Local}
  BY NoTurnsType DEF AgentType
<1>2. c.active = a.active /\ c.procDir = a.procDir /\ c.live = a.live /\ c.sess = a.sess
  BY DEF AgentType
<1>3. Moves(a, c)
  <2>. HIDE DEF c
  <2>. QED  BY <1>1, <1>2 DEF Moves, Known
<1>. HIDE DEF c
<1>4. Moves(c, Restore(c, a.live, conv))
  BY <1>1, RestoreMoves
<1>. QED  BY <1>3, <1>4, MovesTransitive DEF Seed, c

LEMMA RecordModelMoves ==
    ASSUME NEW a \in AgentType
    PROVE  Moves(a, RecordModel(a))
<1>1. CASE a.active # NoSession /\ Known(a, a.active)
  <2>1. a.active \in Sessions /\ a.sess[a.active] \in SessionStates /\ a.model \in Models
    BY <1>1 DEF AgentType, Known
  <2>. DEFINE st == [a.sess[a.active] EXCEPT !.model = a.model]
  <2>2. /\ st \in SessionStates
        /\ st.cwd = a.sess[a.active].cwd
        /\ st.remote = a.sess[a.active].remote
    BY <2>1 DEF SessionStates
  <2>3. RecordModel(a) = [a EXCEPT !.sess = [a.sess EXCEPT ![a.active] = st]]
    BY <1>1, Zenon DEF RecordModel
  <2>. HIDE DEF st
  <2>4. st # NoState
    BY <2>2, MarkersAssumption
  <2>5. /\ RecordModel(a) \in AgentType
        /\ RecordModel(a).active = a.active
        /\ RecordModel(a).procDir = a.procDir
        /\ RecordModel(a).live = a.live
        /\ RecordModel(a).sess = [a.sess EXCEPT ![a.active] = st]
    BY <2>1, <2>2, <2>3 DEF AgentType
  <2>6. a.sess \in [Sessions -> SessionStates \cup {NoState}]
    BY DEF AgentType
  <2>. QED  BY <1>1, <2>1, <2>2, <2>4, <2>5, <2>6 DEF Moves, Known
<1>2. CASE ~(a.active # NoSession /\ Known(a, a.active))
  BY <1>2, MovesReflexive DEF RecordModel
<1>. QED  BY <1>1, <1>2

\* A switch of the live backend and of what goes with it.
LEMMA SwitchMoves ==
    ASSUME NEW a \in AgentType, NEW b \in AgentType,
           b.active = a.active, b.procDir = a.procDir, b.sess = a.sess,
           b.live = a.live \/ Unowned(a, b.live)
    PROVE  Moves(a, b)
BY DEF Moves, Known

LEMMA LocalIsUnowned ==
    ASSUME NEW a \in AgentType
    PROVE  Unowned(a, Local)
BY BackendsAssumption DEF AgentType, SessionStates, Remotes, Unowned, Known

LEMMA NewBackendIsUnowned ==
    ASSUME NEW a
    PROVE  NewBackend(a) \in Backends /\ Unowned(a, NewBackend(a)) /\ NewBackend(a) # a.live
BY FreshBackend, Zenon DEF HeldBackends, Unowned, Known

LEMMA SwitchToCloudMoves ==
    ASSUME NEW a \in AgentType, NEW m \in Models
    PROVE  Moves(a, SwitchToCloud(a, m))
<1>. DEFINE b == NewBackend(a)
            h == HistoryOf(a, a.live)
            c == [a EXCEPT !.hist[b] = h, !.live = b,
                           !.pending = NoHistory, !.model = m, !.localInference = FALSE]
<1>1. b \in Backends /\ Unowned(a, b)
  BY NewBackendIsUnowned
<1>2. h \in Conversations
  BY HistoryType DEF AgentType
<1>. HIDE DEF b, h
<1>3. /\ c \in AgentType
      /\ c.active = a.active /\ c.procDir = a.procDir /\ c.sess = a.sess /\ c.live = b
  BY <1>1, <1>2 DEF AgentType
<1>. HIDE DEF c
<1>4. Moves(a, c)
  BY <1>1, <1>3, SwitchMoves
<1>5. Moves(c, RecordModel(c))
  BY <1>3, RecordModelMoves
<1>. QED  BY <1>4, <1>5, MovesTransitive DEF SwitchToCloud, b, h, c

LEMMA LoadWeightsMoves ==
    ASSUME NEW a \in AgentType, NEW m \in LocalModels
    PROVE  Moves(a, LoadWeights(a, m))
<1>. DEFINE c == [a EXCEPT !.weights = "loaded", !.selected = m, !.model = m]
<1>1. /\ c \in AgentType
      /\ c.active = a.active /\ c.procDir = a.procDir /\ c.sess = a.sess /\ c.live = a.live
  BY DEF AgentType, Models
<1>. HIDE DEF c
<1>2. Moves(a, c) /\ Moves(c, RecordModel(c))
  BY <1>1, SwitchMoves, RecordModelMoves
<1>. QED  BY <1>2, MovesTransitive DEF LoadWeights, c

LEMMA ResetToLocalMoves ==
    ASSUME NEW a \in AgentType
    PROVE  Moves(a, ResetToLocal(a)) /\ ResetToLocal(a).live = Local
<1>. DEFINE conv == IF a.live = Local THEN << >> ELSE HistoryOf(a, a.live)
            onDevice == [a EXCEPT !.live = Local, !.pending = NoHistory]
            d == IF conv = << >> THEN onDevice ELSE Restore(onDevice, Local, conv)
<1>1. conv \in Conversations
  BY HistoryType, NoTurnsType DEF AgentType
<1>2. /\ onDevice \in AgentType
      /\ onDevice.active = a.active /\ onDevice.procDir = a.procDir
      /\ onDevice.sess = a.sess /\ onDevice.live = Local
  BY DEF AgentType
<1>. HIDE DEF onDevice, conv
<1>3. Moves(a, onDevice)
  BY <1>2, SwitchMoves, LocalIsUnowned
<1>4. Moves(onDevice, d)
  BY <1>1, <1>2, RestoreMoves, MovesReflexive
<1>5. d \in AgentType
  BY <1>4 DEF Moves
<1>6. d.live = Local
  BY <1>1, <1>2 DEF Restore, AgentType
<1>. HIDE DEF d
<1>7. Moves(d, RecordModel(d)) /\ RecordModel(d).live = d.live
  BY <1>5, RecordModelMoves DEF RecordModel, AgentType
<1>8. ResetToLocal(a) = RecordModel(d)
  BY DEF ResetToLocal, conv, onDevice, d
<1>. QED  BY <1>3, <1>4, <1>6, <1>7, <1>8, MovesTransitive

LEMMA SwitchToLocalMoves ==
    ASSUME NEW a \in AgentType, NEW m \in LocalModels
    PROVE  Moves(a, SwitchToLocal(a, m))
<1>. DEFINE w == LoadWeights(a, m)
            d == ResetToLocal(w)
            c == [d EXCEPT !.localInference = TRUE]
<1>1. Moves(a, w)
  BY LoadWeightsMoves
<1>2. Moves(w, d)
  BY <1>1, ResetToLocalMoves DEF Moves
<1>. HIDE DEF w, d
<1>3. d \in AgentType
  BY <1>2 DEF Moves
<1>4. /\ c \in AgentType
      /\ c.active = d.active /\ c.procDir = d.procDir /\ c.sess = d.sess /\ c.live = d.live
  BY <1>3 DEF AgentType
<1>. HIDE DEF c
<1>5. Moves(d, c)
  BY <1>3, <1>4, SwitchMoves
<1>. QED  BY <1>1, <1>2, <1>5, MovesTransitive DEF SwitchToLocal, w, d, c

LEMMA RestoreModelMoves ==
    ASSUME NEW a \in AgentType, NEW s \in Sessions, Known(a, s), NEW ok
    PROVE  Moves(a, RestoreModel(a, s, ok))
<1>1. a.sess[s].model \in Models
  BY DEF AgentType, SessionStates, Known
<1>2. a.sess[s].model \notin CloudModels => a.sess[s].model \in LocalModels
  BY <1>1 DEF Models
<1>. QED
  BY <1>1, <1>2, MovesReflexive, SwitchToCloudMoves, SwitchToLocalMoves DEF RestoreModel

LEMMA StartLoadMoves ==
    ASSUME NEW a \in AgentType, NEW ok
    PROVE  Moves(a, StartLoad(a, ok))
<1>1. /\ StartLoad(a, ok) \in AgentType
      /\ StartLoad(a, ok).active = a.active /\ StartLoad(a, ok).procDir = a.procDir
      /\ StartLoad(a, ok).sess = a.sess /\ StartLoad(a, ok).live = a.live
  BY DEF AgentType, StartLoad
<1>. QED  BY <1>1, SwitchMoves

-----------------------------------------------------------------------------
(* Another session is put in place *)

\* Session s goes back onto the backend it is parked with.
OwnBackend(a, s) == /\ a.sess[s].remote # NoRemote
                    /\ a.sess[s].remote.model = a.sess[s].model

\* What install_session does but for the histories.
Installed(a, b, s) ==
    /\ b \in AgentType
    /\ b.active = s
    /\ b.procDir = IF a.sess[s].cwd \in present THEN a.sess[s].cwd ELSE a.procDir
    /\ b.sess = [a.sess EXCEPT ![s] = [a.sess[s] EXCEPT !.remote = NoRemote]]
    /\ IF OwnBackend(a, s)
       THEN b.live = a.sess[s].remote.backend /\ b.model = a.sess[s].remote.model
       ELSE /\ b.model = a.model
            /\ b.live = (IF a.live = Local THEN Local ELSE NewBackend(a))

LEMMA SeedKeeps ==
    ASSUME NEW a \in AgentType, NEW conv \in Conversations
    PROVE  /\ Seed(a, conv) \in AgentType
           /\ Seed(a, conv).active = a.active
           /\ Seed(a, conv).procDir = a.procDir
           /\ Seed(a, conv).sess = a.sess
           /\ Seed(a, conv).live = a.live
           /\ Seed(a, conv).model = a.model
<1>1. Seed(a, conv) \in AgentType
  BY SeedMoves DEF Moves
<1>. QED  BY <1>1 DEF Seed, Restore, AgentType

LEMMA InstallEffect ==
    ASSUME NEW a \in AgentType, NEW s \in Sessions, Known(a, s)
    PROVE  Installed(a, Install(a, s), s)
<1>. DEFINE state == a.sess[s]
            dir == IF state.cwd \in present THEN state.cwd ELSE a.procDir
            slots == [a.sess EXCEPT ![s] = [a.sess[s] EXCEPT !.remote = NoRemote]]
            here == [a EXCEPT !.active = s,
                              !.procDir = IF state.cwd \in present THEN state.cwd ELSE @,
                              !.sess[s].remote = NoRemote]
            mine == [here EXCEPT !.engine = << >>, !.live = state.remote.backend,
                                 !.model = state.remote.model]
            other == IF a.live = Local THEN here ELSE [here EXCEPT !.live = NewBackend(a)]
<1>1. state \in SessionStates
  BY DEF AgentType, Known
<1>2. dir \in Dirs \cup {NoSession} /\ state.conv \in Conversations
  BY <1>1 DEF AgentType, SessionStates
<1>3. [a.sess[s] EXCEPT !.remote = NoRemote] \in SessionStates
  BY <1>1 DEF SessionStates
<1>4. slots \in [Sessions -> SessionStates \cup {NoState}]
  BY <1>3 DEF AgentType
<1>5. /\ here \in AgentType
      /\ here.active = s /\ here.procDir = dir /\ here.sess = slots
      /\ here.live = a.live /\ here.model = a.model
  <2>1. here = [a EXCEPT !.active = s, !.procDir = dir, !.sess = slots]
    BY DEF AgentType
  <2>. HIDE DEF here, dir, slots
  <2>. QED  BY <1>2, <1>4, <2>1 DEF AgentType
<1>. HIDE DEF here, dir, slots
<1>6. ASSUME OwnBackend(a, s)
      PROVE  /\ mine \in AgentType
             /\ mine.active = s /\ mine.procDir = dir /\ mine.sess = slots
             /\ mine.live = state.remote.backend /\ mine.model = state.remote.model
  <2>1. state.remote.backend \in Backends /\ state.remote.model \in Models
    BY <1>1, <1>6 DEF OwnBackend, SessionStates, Remotes
  <2>. HIDE DEF state
  <2>. QED  BY <1>5, <2>1, NoTurnsType DEF AgentType
<1>7. /\ other \in AgentType
      /\ other.active = s /\ other.procDir = dir /\ other.sess = slots
      /\ other.model = a.model
      /\ other.live = (IF a.live = Local THEN Local ELSE NewBackend(a))
  BY <1>5, NewBackendIsUnowned DEF AgentType
<1>8. Install(a, s) = IF OwnBackend(a, s) THEN mine ELSE Seed(other, state.conv)
  BY DEF Install, OwnBackend, here
<1>. HIDE DEF mine, other
<1>9. CASE OwnBackend(a, s)
  BY <1>6, <1>8, <1>9 DEF Installed, dir, slots
<1>10. CASE ~OwnBackend(a, s)
  <2>. DEFINE b == Seed(other, state.conv)
  <2>1. /\ b \in AgentType
        /\ b.active = s /\ b.procDir = dir /\ b.sess = slots
        /\ b.model = a.model /\ b.live = other.live
    BY <1>2, <1>7, SeedKeeps
  <2>. HIDE DEF b
  <2>2. Install(a, s) = b
    BY <1>8, <1>10 DEF b
  <2>. QED  BY <1>7, <1>10, <2>1, <2>2 DEF Installed, dir, slots
<1>. QED  BY <1>9, <1>10

-----------------------------------------------------------------------------
(* Who holds which backend *)

\* s is held in memory, with an HTTP backend.
Holds(a, s) == Known(a, s) /\ a.sess[s].remote # NoRemote

ActiveIsKnown(a) == a.active # NoSession => a.active \in Sessions /\ Known(a, a.active)

\* BackendsAreOwned, of any agent.
Owned(a) ==
    \A s, o \in Sessions :
        (Holds(a, s) /\ a.active # s) =>
            /\ a.sess[s].remote.backend # a.live
            /\ (o # s /\ Holds(a, o) /\ a.active # o)
                   => a.sess[s].remote.backend # a.sess[o].remote.backend

Coherent(a) == a \in AgentType /\ ActiveIsKnown(a) /\ Owned(a)

\* The same when the live session has been parked, and is live still.
CoherentParked(a) ==
    /\ a \in AgentType
    /\ ActiveIsKnown(a)
    /\ \A s \in Sessions : Holds(a, s) /\ a.active # s => a.sess[s].remote.backend # a.live
    /\ \A s \in Sessions : Holds(a, s) /\ a.active = s => a.sess[s].remote.backend = a.live
    /\ \A s, o \in Sessions : s # o /\ Holds(a, s) /\ Holds(a, o)
                                => a.sess[s].remote.backend # a.sess[o].remote.backend

LEMMA MovesCoherent ==
    ASSUME NEW a, NEW b, Coherent(a), Moves(a, b)
    PROVE  Coherent(b)
<1>1. b \in AgentType /\ b.active = a.active
  BY DEF Moves
<1>2. \A s \in Sessions : Known(b, s) <=> Known(a, s)
  BY DEF Moves
<1>3. ActiveIsKnown(b)
  BY <1>1, <1>2 DEF Coherent, ActiveIsKnown
<1>4. \A s \in Sessions : (Holds(b, s) <=> Holds(a, s))
                          /\ (Holds(a, s) => b.sess[s].remote = a.sess[s].remote)
  BY <1>2 DEF Holds, Moves
<1>5. \A s \in Sessions : Holds(a, s) /\ a.active # s => a.sess[s].remote.backend # b.live
  BY DEF Moves, Unowned, Holds, Coherent, Owned
<1>6. Owned(b)
  BY <1>1, <1>4, <1>5 DEF Coherent, Owned
<1>. QED  BY <1>1, <1>3, <1>6 DEF Coherent

LEMMA ParkCoherent ==
    ASSUME NEW a, Coherent(a)
    PROVE  /\ CoherentParked(Park(a))
           /\ Park(a).active = a.active /\ Park(a).live = a.live
           /\ Park(a).procDir = a.procDir /\ Park(a).model = a.model
           /\ Park(a).selected = a.selected /\ Park(a).signedIn = a.signedIn
           /\ \A x \in Sessions : x # a.active => Park(a).sess[x] = a.sess[x]
           /\ a.active # NoSession => Park(a).sess[a.active] = ParkedState(a)
           /\ \A x \in Sessions : Known(Park(a), x) <=> Known(a, x)
<1>1. a \in AgentType /\ ActiveIsKnown(a) /\ Owned(a)
  BY DEF Coherent
<1>2. CASE a.active = NoSession
  <2>1. Park(a) = a
    BY <1>2 DEF Park
  <2>2. \A x \in Sessions : x # a.active
    BY <1>2, MarkersAssumption
  <2>. QED  BY <1>1, <1>2, <2>1, <2>2 DEF CoherentParked, Owned
<1>3. CASE a.active # NoSession
  <2>. DEFINE p == Park(a)
              st == ParkedState(a)
  <2>1. /\ a.active \in Sessions /\ Known(a, a.active)
        /\ st \in SessionStates
        /\ p = [a EXCEPT !.sess = [a.sess EXCEPT ![a.active] = st]]
    BY <1>1, <1>3, ParkEffect DEF ActiveIsKnown
  <2>2. st # NoState
    BY <2>1, MarkersAssumption
  <2>3. st.remote = IF a.live = Local THEN NoRemote ELSE [backend |-> a.live, model |-> a.model]
    <3>1. a.sess[a.active] \in SessionStates
      BY <1>1, <2>1 DEF AgentType, Known
    <3>. QED  BY <3>1 DEF ParkedState, SessionStates
  <2>. HIDE DEF st, p
  <2>4. /\ p \in AgentType
        /\ p.active = a.active /\ p.live = a.live /\ p.procDir = a.procDir
        /\ p.model = a.model /\ p.selected = a.selected /\ p.signedIn = a.signedIn
        /\ p.sess = [a.sess EXCEPT ![a.active] = st]
    BY <1>1, <2>1 DEF AgentType
  <2>5. a.sess \in [Sessions -> SessionStates \cup {NoState}]
    BY <1>1 DEF AgentType
  <2>6. /\ \A x \in Sessions : x # a.active => p.sess[x] = a.sess[x]
        /\ p.sess[a.active] = st
    BY <2>1, <2>4, <2>5
  <2>7. \A x \in Sessions : Known(p, x) <=> Known(a, x)
    BY <2>1, <2>2, <2>6 DEF Known
  <2>8. ActiveIsKnown(p)
    BY <1>1, <2>4, <2>7 DEF ActiveIsKnown
  <2>9. \A x \in Sessions : x # a.active => (Holds(p, x) <=> Holds(a, x))
    BY <2>6, <2>7 DEF Holds
  <2>10. Holds(p, a.active) => p.sess[a.active].remote.backend = a.live
    BY <2>3, <2>6 DEF Holds
  <2>11. CoherentParked(p)
    BY <1>1, <2>4, <2>6, <2>8, <2>9, <2>10 DEF CoherentParked, Owned
  <2>. QED  BY <1>3, <2>4, <2>6, <2>7, <2>11 DEF p, st
<1>. QED  BY <1>2, <1>3

LEMMA InstallCoherent ==
    ASSUME NEW a, CoherentParked(a), NEW s \in Sessions, Known(a, s)
    PROVE  /\ Coherent(Install(a, s))
           /\ \A x \in Sessions : Known(Install(a, s), x) <=> Known(a, x)
           /\ \A x \in Sessions : x # s => Install(a, s).sess[x] = a.sess[x]
           /\ Install(a, s).sess[s] = [a.sess[s] EXCEPT !.remote = NoRemote]
           /\ Install(a, s).active = s
<1>. DEFINE b == Install(a, s)
            st == [a.sess[s] EXCEPT !.remote = NoRemote]
<1>1. a \in AgentType
  BY DEF CoherentParked
<1>2. Installed(a, b, s)
  BY <1>1, InstallEffect
<1>3. a.sess[s] \in SessionStates
  BY <1>1 DEF AgentType, Known
<1>4. st \in SessionStates /\ st.remote = NoRemote
  BY <1>3 DEF SessionStates
<1>. HIDE DEF st, b
<1>5. st # NoState
  BY <1>4, MarkersAssumption
<1>6. b \in AgentType /\ b.active = s /\ b.sess = [a.sess EXCEPT ![s] = st]
  BY <1>2 DEF Installed, st
<1>7. a.sess \in [Sessions -> SessionStates \cup {NoState}]
  BY <1>1 DEF AgentType
<1>8. b.sess[s] = st /\ \A x \in Sessions : x # s => b.sess[x] = a.sess[x]
  BY <1>6, <1>7
<1>9. \A x \in Sessions : Known(b, x) <=> Known(a, x)
  BY <1>5, <1>8 DEF Known
<1>10. \A x \in Sessions : x # s => (Holds(b, x) <=> Holds(a, x))
  BY <1>8, <1>9 DEF Holds
<1>11. \A x \in Sessions : Holds(a, x) /\ x # s => a.sess[x].remote.backend # b.live
  <2>1. CASE OwnBackend(a, s)
    BY <1>2, <2>1 DEF Installed, CoherentParked, Holds, OwnBackend
  <2>2. CASE ~OwnBackend(a, s)
    <3>1. Unowned(a, Local) /\ Unowned(a, NewBackend(a))
      BY <1>1, LocalIsUnowned, NewBackendIsUnowned
    <3>. QED  BY <1>2, <2>2, <3>1 DEF Installed, Unowned, Holds
  <2>. QED  BY <2>1, <2>2
<1>12. Owned(b)
  BY <1>6, <1>8, <1>10, <1>11 DEF Owned, CoherentParked
<1>13. ActiveIsKnown(b)
  BY <1>6, <1>9 DEF ActiveIsKnown
<1>. QED  BY <1>6, <1>8, <1>9, <1>12, <1>13 DEF Coherent, b, st

\* q is p with session s put in place.
InPlaceOf(p, q, s) ==
    /\ Coherent(q)
    /\ q.active = s
    /\ q.procDir = IF q.sess[s].cwd \in present THEN q.sess[s].cwd ELSE p.procDir
    /\ \A x \in Sessions : Known(q, x) <=> Known(p, x)
    /\ \A x \in Sessions : x # s => q.sess[x] = p.sess[x]
    /\ q.sess[s].cwd = p.sess[s].cwd
    /\ OwnBackend(p, s) => /\ q.live = p.sess[s].remote.backend
                           /\ q.model = p.sess[s].remote.model
                           /\ q.sess[s].model = p.sess[s].model

LEMMA InstallAndRestoreEffect ==
    ASSUME NEW p, CoherentParked(p), NEW s \in Sessions, Known(p, s), NEW ok
    PROVE  InPlaceOf(p, InstallAndRestore(p, s, ok), s)
<1>. DEFINE i == Install(p, s)
            q == RestoreModel(i, s, ok)
            st == [p.sess[s] EXCEPT !.remote = NoRemote]
<1>1. p \in AgentType /\ p.sess[s] \in SessionStates
  BY DEF CoherentParked, AgentType, Known
<1>2. /\ Coherent(i)
      /\ \A x \in Sessions : Known(i, x) <=> Known(p, x)
      /\ \A x \in Sessions : x # s => i.sess[x] = p.sess[x]
      /\ i.sess[s] = st
      /\ i.active = s
  BY InstallCoherent
<1>3. Installed(p, i, s)
  BY <1>1, InstallEffect
<1>4. st.cwd = p.sess[s].cwd /\ st.model = p.sess[s].model
  BY <1>1 DEF SessionStates
<1>. HIDE DEF i, st
<1>5. Moves(i, q)
  BY <1>2, RestoreModelMoves DEF Coherent
<1>6. Coherent(q)
  BY <1>2, <1>5, MovesCoherent
<1>7. OwnBackend(p, s) => q = i
  BY <1>2, <1>3, <1>4 DEF OwnBackend, Installed, RestoreModel
<1>. HIDE DEF q
<1>8. /\ q.active = s /\ q.procDir = i.procDir
      /\ \A x \in Sessions : Known(q, x) <=> Known(p, x)
      /\ \A x \in Sessions : x # s => q.sess[x] = p.sess[x]
      /\ q.sess[s].cwd = p.sess[s].cwd
  BY <1>2, <1>4, <1>5 DEF Moves
<1>9. InPlaceOf(p, q, s)
  BY <1>2, <1>3, <1>4, <1>6, <1>7, <1>8 DEF InPlaceOf, Installed
<1>. QED  BY <1>9 DEF InstallAndRestore, q, i

\* A session's slot gets a state without a backend.
LEMMA OpenSlot ==
    ASSUME NEW p, CoherentParked(p), NEW s \in Sessions,
           NEW st \in SessionStates, st.remote = NoRemote
    PROVE  LET q == [p EXCEPT !.sess[s] = st]
           IN  /\ CoherentParked(q)
               /\ q.active = p.active /\ q.procDir = p.procDir /\ q.model = p.model
               /\ q.live = p.live /\ q.selected = p.selected /\ q.signedIn = p.signedIn
               /\ q.sess[s] = st
               /\ \A x \in Sessions : x # s => q.sess[x] = p.sess[x]
<1>. DEFINE q == [p EXCEPT !.sess[s] = st]
<1>1. p \in AgentType
  BY DEF CoherentParked
<1>2. /\ q \in AgentType
      /\ q.active = p.active /\ q.procDir = p.procDir /\ q.model = p.model
      /\ q.live = p.live /\ q.selected = p.selected /\ q.signedIn = p.signedIn
      /\ q.sess[s] = st
      /\ \A x \in Sessions : x # s => q.sess[x] = p.sess[x]
  BY <1>1 DEF AgentType
<1>. HIDE DEF q
<1>3. Known(q, s) /\ ~Holds(q, s) /\ \A x \in Sessions : x # s => (Holds(q, x) <=> Holds(p, x))
  BY <1>2, MarkersAssumption DEF Known, Holds
<1>4. ActiveIsKnown(q)
  BY <1>2, <1>3 DEF ActiveIsKnown, CoherentParked, Known
<1>5. CoherentParked(q)
  BY <1>2, <1>3, <1>4 DEF CoherentParked
<1>. QED  BY <1>2, <1>5 DEF q

\* Session s is opened, or activated, from a: what becomes of the others.
Visited(a, b, s) ==
    /\ Coherent(b)
    /\ b.active = s
    /\ Known(b, s)
    /\ b.procDir = IF b.sess[s].cwd \in present THEN b.sess[s].cwd ELSE a.procDir
    /\ \A x \in Sessions : x # s => (Known(b, x) <=> Known(a, x))
    /\ \A x \in Sessions : x # s /\ x # a.active => b.sess[x] = a.sess[x]
    /\ a.active # s /\ a.active # NoSession => b.sess[a.active] = ParkedState(a)

LEMMA OpenEffect ==
    ASSUME NEW a, Coherent(a), NEW s \in Sessions, NEW ok,
           NEW st \in SessionStates, st.remote = NoRemote
    PROVE  /\ Visited(a, OpenParked(Park(a), s, st, ok), s)
           /\ OpenParked(Park(a), s, st, ok).sess[s].cwd = st.cwd
<1>. DEFINE p == Park(a)
            q == [p EXCEPT !.sess[s] = st]
            b == InstallAndRestore(q, s, ok)
<1>1. /\ CoherentParked(p)
      /\ p.active = a.active /\ p.procDir = a.procDir
      /\ \A x \in Sessions : x # a.active => p.sess[x] = a.sess[x]
      /\ a.active # NoSession => p.sess[a.active] = ParkedState(a)
      /\ \A x \in Sessions : Known(p, x) <=> Known(a, x)
  BY ParkCoherent
<1>. HIDE DEF p
<1>2. /\ CoherentParked(q)
      /\ q.active = p.active /\ q.procDir = p.procDir
      /\ q.sess[s] = st
      /\ \A x \in Sessions : x # s => q.sess[x] = p.sess[x]
  BY <1>1, OpenSlot
<1>. HIDE DEF q
<1>3. Known(q, s) /\ \A x \in Sessions : x # s => (Known(q, x) <=> Known(p, x))
  BY <1>2, MarkersAssumption DEF Known
<1>4. InPlaceOf(q, b, s)
  BY <1>2, <1>3, InstallAndRestoreEffect
<1>. HIDE DEF b
<1>5. a.active # NoSession => a.active \in Sessions
  BY DEF Coherent, ActiveIsKnown
<1>6. Visited(a, b, s) /\ b.sess[s].cwd = st.cwd
  BY <1>1, <1>2, <1>3, <1>4, <1>5 DEF InPlaceOf, Visited
<1>. QED  BY <1>6 DEF OpenParked, b, q, p

LEMMA ActivateEffect ==
    ASSUME NEW a, Coherent(a), NEW s \in Sessions, Known(a, s), a.active # s, NEW ok
    PROVE  /\ Visited(a, Activate(a, s, ok), s)
           /\ Activate(a, s, ok).sess[s].cwd = a.sess[s].cwd
           /\ OwnBackend(a, s) => /\ Activate(a, s, ok).live = a.sess[s].remote.backend
                                  /\ Activate(a, s, ok).model = a.sess[s].remote.model
                                  /\ Activate(a, s, ok).sess[s].model = a.sess[s].model
<1>. DEFINE p == Park(a)
            b == InstallAndRestore(p, s, ok)
<1>1. /\ CoherentParked(p)
      /\ p.active = a.active /\ p.procDir = a.procDir
      /\ \A x \in Sessions : x # a.active => p.sess[x] = a.sess[x]
      /\ a.active # NoSession => p.sess[a.active] = ParkedState(a)
      /\ \A x \in Sessions : Known(p, x) <=> Known(a, x)
  BY ParkCoherent
<1>. HIDE DEF p
<1>2. InPlaceOf(p, b, s)
  BY <1>1, InstallAndRestoreEffect
<1>. HIDE DEF b
<1>3. a.active # NoSession => a.active \in Sessions
  BY DEF Coherent, ActiveIsKnown
<1>4. OwnBackend(a, s) => OwnBackend(p, s)
  BY <1>1 DEF OwnBackend
<1>5. Activate(a, s, ok) = b
  BY DEF Activate, b, p
<1>6. Visited(a, b, s)
  BY <1>1, <1>2, <1>3 DEF InPlaceOf, Visited
<1>. QED  BY <1>1, <1>2, <1>4, <1>5, <1>6 DEF InPlaceOf

LEMMA ActivateLive ==
    ASSUME NEW a, NEW s, a.active = s, NEW ok
    PROVE  Activate(a, s, ok) = a
BY DEF Activate

-----------------------------------------------------------------------------
(* Commands, picks and messages *)

LEMMA PushMoves ==
    ASSUME NEW a \in AgentType, NEW b \in Backends \cup {Local}, NEW t \in Turns
    PROVE  Moves(a, Push(a, b, t))
<1>1. Append(HistoryOf(a, b), t) \in Conversations
  BY HistoryType DEF Conversations
<1>. QED  BY <1>1, RestoreMoves DEF Push

LEMMA ForgetMoves ==
    ASSUME NEW a \in AgentType, NEW b \in Backends \cup {Local}
    PROVE  Moves(a, Forget(a, b))
<1>. DEFINE h == HistoryOf(a, b)
<1>1. h \in Conversations
  BY HistoryType
<1>. HIDE DEF h
<1>2. h # << >> => SubSeq(h, 1, Len(h) - 1) \in Conversations
  BY <1>1 DEF Conversations
<1>. QED  BY <1>1, <1>2, RestoreMoves, MovesReflexive DEF Forget, h

LEMMA FallBackMoves ==
    ASSUME NEW a \in AgentType
    PROVE  Moves(a, FallBackToLocal(a))
<1>. DEFINE c == [a EXCEPT !.model = a.selected]
            d == ResetToLocal(c)
            e == [d EXCEPT !.localInference = TRUE]
<1>1. /\ c \in AgentType
      /\ c.active = a.active /\ c.procDir = a.procDir /\ c.sess = a.sess /\ c.live = a.live
  BY DEF AgentType, Models
<1>2. Moves(a, c)
  BY <1>1, SwitchMoves
<1>. HIDE DEF c
<1>3. Moves(c, d) /\ d \in AgentType
  BY <1>1, ResetToLocalMoves DEF Moves
<1>. HIDE DEF d
<1>4. /\ e \in AgentType
      /\ e.active = d.active /\ e.procDir = d.procDir /\ e.sess = d.sess /\ e.live = d.live
  BY <1>3 DEF AgentType
<1>5. Moves(d, e)
  BY <1>3, <1>4, SwitchMoves
<1>. QED  BY <1>2, <1>3, <1>5, MovesTransitive DEF FallBackToLocal, c, d

LEMMA LoadCommandMoves ==
    ASSUME NEW a \in AgentType, NEW ok
    PROVE  Moves(a, LoadCommand(a, ok))
<1>. DEFINE e == [a EXCEPT !.localInference = TRUE]
            c == IF a.model \in CloudModels THEN FallBackToLocal(a) ELSE e
<1>1. /\ e \in AgentType
      /\ e.active = a.active /\ e.procDir = a.procDir /\ e.sess = a.sess /\ e.live = a.live
  BY DEF AgentType
<1>2. Moves(a, c) /\ c \in AgentType
  BY <1>1, SwitchMoves, FallBackMoves DEF Moves
<1>. HIDE DEF c
<1>. QED  BY <1>2, StartLoadMoves, MovesTransitive DEF LoadCommand, c

LEMMA ModelsCommandMoves ==
    ASSUME NEW a \in AgentType, NEW m \in Models, NEW ok
    PROVE  Moves(a, ModelsCommand(a, m, ok))
BY MovesReflexive, SwitchToCloudMoves, SwitchToLocalMoves DEF ModelsCommand, Models

LEMMA PickModelMoves ==
    ASSUME NEW a \in AgentType, NEW m \in Models, NEW ok
    PROVE  Moves(a, PickModel(a, m, ok))
BY MovesReflexive, SwitchToCloudMoves, SwitchToLocalMoves, RecordModelMoves
   DEF PickModel, Models

LEMMA ReloadCommandMoves ==
    ASSUME NEW a \in AgentType, NEW ok
    PROVE  Moves(a, ReloadCommand(a, ok))
<1>. DEFINE here == ResetToLocal(a)
            e == [here EXCEPT !.weights = "none"]
<1>1. Moves(a, here) /\ here \in AgentType
  BY ResetToLocalMoves DEF Moves
<1>. HIDE DEF here
<1>2. /\ e \in AgentType
      /\ e.active = here.active /\ e.procDir = here.procDir
      /\ e.sess = here.sess /\ e.live = here.live
  BY <1>1 DEF AgentType
<1>3. Moves(here, StartLoad(e, ok))
  BY <1>1, <1>2, SwitchMoves, StartLoadMoves, MovesTransitive
<1>4. a.model \in Models
  BY DEF AgentType
<1>. QED
  BY <1>1, <1>3, <1>4, SwitchToCloudMoves, FallBackMoves, MovesTransitive
     DEF ReloadCommand, here

LEMMA ClearCommandMoves ==
    ASSUME NEW a \in AgentType, NEW s \in Sessions, a.active = s, Known(a, s)
    PROVE  Moves(a, ClearCommand(a, s))
<1>. DEFINE st == [a.sess[s] EXCEPT !.conv = << >>]
            c == [a EXCEPT !.sess[s].conv = << >>]
<1>1. a.sess[s] \in SessionStates
  BY DEF AgentType, Known
<1>2. st \in SessionStates /\ st.cwd = a.sess[s].cwd /\ st.remote = a.sess[s].remote
  BY <1>1, NoTurnsType DEF SessionStates
<1>3. c = [a EXCEPT !.sess = [a.sess EXCEPT ![s] = st]]
  BY Zenon DEF st
<1>. HIDE DEF st, c
<1>4. /\ c \in AgentType
      /\ c.active = a.active /\ c.procDir = a.procDir /\ c.live = a.live
      /\ c.sess = [a.sess EXCEPT ![s] = st]
  BY <1>2, <1>3 DEF AgentType
<1>5. a.sess \in [Sessions -> SessionStates \cup {NoState}]
  BY DEF AgentType
<1>6. c.sess[s] = st /\ \A x \in Sessions : x # s => c.sess[x] = a.sess[x]
  BY <1>4, <1>5
<1>7. Moves(a, c)
  BY <1>2, <1>4, <1>6, MarkersAssumption DEF Moves, Known
<1>8. Moves(c, Seed(c, << >>))
  BY <1>4, SeedMoves, NoTurnsType
<1>. QED  BY <1>7, <1>8, MovesTransitive DEF ClearCommand, c

LEMMA ClosedEffect ==
    ASSUME NEW a, Coherent(a), NEW s \in Sessions
    PROVE  LET b == ClosedAgent(a, s)
           IN  /\ Coherent(b)
               /\ b.active = IF a.active = s THEN NoSession ELSE a.active
               /\ b.live = a.live /\ b.procDir = a.procDir
               /\ b.model = a.model /\ b.selected = a.selected /\ b.signedIn = a.signedIn
               /\ ~Known(b, s)
               /\ \A x \in Sessions : x # s => b.sess[x] = a.sess[x]
<1>. DEFINE gone == [a EXCEPT !.sess[s] = NoState]
            c == [gone EXCEPT !.active = NoSession, !.engine = << >>]
            b == ClosedAgent(a, s)
<1>1. a \in AgentType
  BY DEF Coherent
<1>2. /\ gone \in AgentType
      /\ gone.active = a.active /\ gone.live = a.live /\ gone.procDir = a.procDir
      /\ gone.model = a.model /\ gone.selected = a.selected /\ gone.signedIn = a.signedIn
      /\ gone.sess[s] = NoState
      /\ \A x \in Sessions : x # s => gone.sess[x] = a.sess[x]
  BY <1>1 DEF AgentType
<1>. HIDE DEF gone
<1>3. /\ c \in AgentType
      /\ c.active = NoSession /\ c.live = a.live /\ c.procDir = a.procDir
      /\ c.model = a.model /\ c.selected = a.selected /\ c.signedIn = a.signedIn
      /\ c.sess = gone.sess
  BY <1>2, NoTurnsType DEF AgentType
<1>4. /\ Restore(c, a.live, << >>) \in AgentType
      /\ Restore(c, a.live, << >>).active = c.active
      /\ Restore(c, a.live, << >>).live = c.live
      /\ Restore(c, a.live, << >>).procDir = c.procDir
      /\ Restore(c, a.live, << >>).model = c.model
      /\ Restore(c, a.live, << >>).selected = c.selected
      /\ Restore(c, a.live, << >>).signedIn = c.signedIn
      /\ Restore(c, a.live, << >>).sess = c.sess
  <2>1. a.live \in Backends \cup {Local}
    BY <1>1 DEF AgentType
  <2>2. Restore(c, a.live, << >>) \in AgentType
    BY <1>3, <2>1, NoTurnsType, RestoreType
  <2>. HIDE DEF c
  <2>. QED  BY <1>3, <2>1, <2>2 DEF AgentType, Restore
<1>. HIDE DEF c
<1>5. b = IF a.active # s THEN gone ELSE Restore(c, a.live, << >>)
  BY DEF ClosedAgent, b, c, gone
<1>. HIDE DEF b
<1>6. /\ b \in AgentType
      /\ b.active = IF a.active = s THEN NoSession ELSE a.active
      /\ b.live = a.live /\ b.procDir = a.procDir
      /\ b.model = a.model /\ b.selected = a.selected /\ b.signedIn = a.signedIn
      /\ b.sess[s] = NoState
      /\ \A x \in Sessions : x # s => b.sess[x] = a.sess[x]
  BY <1>2, <1>3, <1>4, <1>5
<1>7. ~Known(b, s) /\ \A x \in Sessions : x # s => (Known(b, x) <=> Known(a, x))
  BY <1>6 DEF Known
<1>8. ActiveIsKnown(b)
  BY <1>6, <1>7 DEF ActiveIsKnown, Coherent
<1>9. \A x \in Sessions : Holds(b, x) => x # s /\ Holds(a, x)
  BY <1>6, <1>7 DEF Holds
<1>10. \A x \in Sessions : x # s => (b.active = x <=> a.active = x)
  BY <1>6, MarkersAssumption
<1>11. Owned(b)
  BY <1>6, <1>9, <1>10 DEF Owned, Coherent
<1>. QED  BY <1>6, <1>7, <1>8, <1>11 DEF Coherent, b

\* Signing out moves the sessions of the cloud to the selected on-device model.
LEMMA LeaveCloudEffect ==
    ASSUME NEW a, Coherent(a)
    PROVE  LET b == LeaveCloud(a)
           IN  /\ Coherent(b)
               /\ b.active = a.active /\ b.procDir = a.procDir
               /\ \A x \in Sessions : Known(b, x) <=> Known(a, x)
               /\ \A x \in Sessions : Known(a, x) => b.sess[x].cwd = a.sess[x].cwd
<1>. DEFINE moved == {s \in Sessions : Known(a, s) /\ a.sess[s].model \in CloudModels}
            slots == [s \in Sessions |->
                        IF s \in moved THEN [a.sess[s] EXCEPT !.model = a.selected]
                        ELSE a.sess[s]]
            out == [a EXCEPT !.signedIn = FALSE, !.localInference = TRUE, !.sess = slots]
            c == [out EXCEPT !.model = a.selected]
            b == LeaveCloud(a)
<1>1. a \in AgentType /\ a.selected \in Models
  BY DEF Coherent, AgentType, Models
<1>2. \A s \in Sessions : Known(a, s) => a.sess[s] \in SessionStates
  BY <1>1 DEF AgentType, Known
<1>3. \A s \in Sessions : Known(a, s) =>
         /\ [a.sess[s] EXCEPT !.model = a.selected] \in SessionStates
         /\ [a.sess[s] EXCEPT !.model = a.selected].cwd = a.sess[s].cwd
         /\ [a.sess[s] EXCEPT !.model = a.selected].remote = a.sess[s].remote
  BY <1>1, <1>2 DEF SessionStates
<1>4. \A s \in Sessions : Known(a, s) => /\ slots[s] \in SessionStates
                                         /\ slots[s].cwd = a.sess[s].cwd
                                         /\ slots[s].remote = a.sess[s].remote
  BY <1>2, <1>3
<1>5. \A s \in Sessions : ~Known(a, s) => slots[s] = NoState
  BY DEF Known
<1>6. slots \in [Sessions -> SessionStates \cup {NoState}]
  BY <1>4, <1>5
<1>. HIDE DEF slots
<1>7. /\ out \in AgentType
      /\ out.active = a.active /\ out.procDir = a.procDir /\ out.live = a.live
      /\ out.sess = slots
  BY <1>1, <1>6 DEF AgentType
<1>. HIDE DEF out
<1>8. /\ c \in AgentType
      /\ c.active = a.active /\ c.procDir = a.procDir /\ c.live = a.live
      /\ c.sess = slots
  BY <1>1, <1>7 DEF AgentType
<1>. HIDE DEF c
<1>9. \A s \in Sessions : (slots[s] # NoState) <=> Known(a, s)
  BY <1>4, <1>5, MarkersAssumption
<1>10. ASSUME NEW d \in AgentType, d.active = a.active, d.procDir = a.procDir, d.live = a.live,
              d.sess = slots
       PROVE  /\ Coherent(d)
              /\ \A x \in Sessions : Known(d, x) <=> Known(a, x)
              /\ \A x \in Sessions : Known(a, x) => d.sess[x].cwd = a.sess[x].cwd
  <2>1. \A x \in Sessions : Known(d, x) <=> Known(a, x)
    BY <1>9, <1>10 DEF Known
  <2>2. \A x \in Sessions : /\ Holds(d, x) <=> Holds(a, x)
                            /\ Holds(a, x) => d.sess[x].remote = a.sess[x].remote
    BY <1>4, <1>10, <2>1 DEF Holds
  <2>3. ActiveIsKnown(d)
    BY <1>10, <2>1 DEF ActiveIsKnown, Coherent
  <2>4. Owned(d)
    BY <1>10, <2>2 DEF Owned, Coherent
  <2>. QED  BY <1>4, <1>10, <2>1, <2>3, <2>4 DEF Coherent
<1>11. b = IF a.model \in CloudModels THEN ResetToLocal(c) ELSE out
  BY DEF LeaveCloud, b, c, out, slots, moved
<1>. HIDE DEF b
<1>12. CASE a.model \in CloudModels
  <2>1. Coherent(c) /\ Moves(c, b)
    BY <1>8, <1>10, <1>11, <1>12, ResetToLocalMoves
  <2>2. Coherent(b)
    BY <2>1, MovesCoherent
  <2>3. /\ \A x \in Sessions : Known(c, x) <=> Known(a, x)
        /\ \A x \in Sessions : Known(a, x) => c.sess[x].cwd = a.sess[x].cwd
    BY <1>8, <1>10
  <2>. QED  BY <1>8, <2>1, <2>2, <2>3 DEF Moves, b
<1>13. CASE a.model \notin CloudModels
  <2>1. b = out
    BY <1>11, <1>13
  <2>. QED  BY <1>7, <1>10, <2>1 DEF b
<1>. QED  BY <1>12, <1>13

-----------------------------------------------------------------------------
(* The invariant *)

Has(q, x) == \E i \in 1..Len(q) : q[i] = x

\* A request on a session stands in the session's queue, and in front of it once
\* it has the session's lock.
InLine(r) ==
    /\ req[r].sid \in Sessions
    /\ Has(line[req[r].sid], r)
    /\ req[r].pc # "session" => line[req[r].sid][1] = r

IsPlaced(r) ==
    /\ (req[r].pc # "idle" /\ OnSession(req[r].kind)) => InLine(r)
    /\ req[r].pc = "session" => OnSession(req[r].kind)
    /\ (req[r].pc # "idle" /\ req[r].kind = "prompt") => req[r].turn \in Turns
    /\ InTurn(r) => req[r].kind = "prompt"

Placed == \A r \in Requests : IsPlaced(r)

\* A turn that has not given the workspace up has it; it gives it up for every
\* wait on an HTTP endpoint's account, and for none on the engine's.
IsHolding(r) ==
    /\ (InTurn(r) /\ ~req[r].released) => HasWorkspace(r)
    /\ req[r].pc = "run" => ~req[r].released
    /\ req[r].pc \in {"infer", "ask", "resume"} =>
          (req[r].released <=> req[r].backend # Local)

Holding == \A r \in Requests : IsHolding(r)

\* The session of a turn stays open until the turn ends, and is live while the
\* turn has the workspace.
TurnsAreOpen == \A r \in Requests : InTurn(r) => Known(agent, req[r].sid)
TurnsAreLive ==
    \A r \in Requests : (InTurn(r) /\ ~req[r].released) => agent.active = req[r].sid

IInv ==
    /\ TypeOK
    /\ Coherent(agent)
    /\ Placed
    /\ Holding
    /\ TurnsAreOpen
    /\ TurnsAreLive

\* What the process's directory is, when directories only go.
Located == agent.active # NoSession =>
              \/ agent.procDir = agent.sess[agent.active].cwd
              \/ agent.sess[agent.active].cwd \notin present

\* A turn that has the workspace is in its session's directory.
TurnsAreLocated ==
    \A r \in Requests : (InTurn(r) /\ ~req[r].released) =>
        agent.procDir = agent.sess[req[r].sid].cwd

-----------------------------------------------------------------------------
(* The two locks *)

\* The types that no handler of the agent touches.
RestTyped ==
    /\ present \in SUBSET Dirs
    /\ line \in [Sessions -> Seq(Requests)]
    /\ workspace \in Seq(Requests)
    /\ closing \in SUBSET Sessions
    /\ req \in [Requests -> RequestType]

LEMMA IdleType == Idle \in RequestType
BY NoTurnsType DEF Idle, RequestType, Kinds, PCs, Outcomes

LEMMA AppendKeeps ==
    ASSUME NEW S, NEW q \in Seq(S), NEW x \in S
    PROVE  /\ Append(q, x) \in Seq(S)
           /\ Append(q, x) # << >>
           /\ Has(Append(q, x), x)
           /\ q # << >> => Head(Append(q, x)) = Head(q) /\ Append(q, x)[1] = q[1]
<1>1. /\ Len(q) \in Nat /\ Len(Append(q, x)) = Len(q) + 1
      /\ \A i \in 1..Len(q) : Append(q, x)[i] = q[i]
      /\ Append(q, x)[Len(q) + 1] = x
      /\ Append(q, x) \in Seq(S)
  OBVIOUS
<1>2. Append(q, x) # << >>
  BY <1>1
<1>3. ASSUME q # << >>
      PROVE  Head(Append(q, x)) = Head(q) /\ Append(q, x)[1] = q[1]
  <2>1. Len(q) >= 1
    BY <1>3
  <2>. QED  BY <1>1, <1>2, <1>3, <2>1
<1>4. Has(Append(q, x), x)
  <2>1. Len(q) + 1 \in 1..Len(Append(q, x))
    BY <1>1
  <2>. QED  BY <1>1, <2>1 DEF Has
<1>. QED  BY <1>1, <1>2, <1>3, <1>4

LEMMA AppendHas ==
    ASSUME NEW S, NEW q \in Seq(S), NEW x \in S, NEW y, Has(q, y)
    PROVE  q # << >> /\ Has(Append(q, x), y)
<1>1. /\ Len(q) \in Nat /\ Len(Append(q, x)) = Len(q) + 1
      /\ \A i \in 1..Len(q) : Append(q, x)[i] = q[i]
  OBVIOUS
<1>2. PICK i \in 1..Len(q) : q[i] = y
  BY DEF Has
<1>3. i \in 1..Len(Append(q, x)) /\ Append(q, x)[i] = y
  BY <1>1, <1>2
<1>. QED  BY <1>1, <1>2, <1>3 DEF Has

LEMMA HasNonempty ==
    ASSUME NEW S, NEW q \in Seq(S), NEW x, Has(q, x)
    PROVE  q # << >>
BY DEF Has

LEMMA TailKeeps ==
    ASSUME NEW S, NEW q \in Seq(S), q # << >>
    PROVE  /\ Tail(q) \in Seq(S)
           /\ Head(q) = q[1]
OBVIOUS

LEMMA TailHas ==
    ASSUME NEW S, NEW q \in Seq(S), NEW y, Has(q, y), y # q[1]
    PROVE  Has(Tail(q), y)
<1>1. PICK i \in 1..Len(q) : q[i] = y
  BY DEF Has
<1>2. /\ Len(q) \in Nat /\ Len(q) >= 1
      /\ Len(Tail(q)) = Len(q) - 1
      /\ \A j \in 1..Len(q) - 1 : Tail(q)[j] = q[j + 1]
  BY <1>1
<1>3. i # 1
  BY <1>1
<1>4. i - 1 \in 1..Len(q) - 1 /\ (i - 1) + 1 = i
  BY <1>1, <1>2, <1>3
<1>5. Tail(q)[i - 1] = y
  BY <1>1, <1>2, <1>4
<1>. QED  BY <1>2, <1>4, <1>5 DEF Has

\* Two requests do not both have one session's lock.
LEMMA OneOwner ==
    ASSUME Placed, NEW q \in Requests, NEW r \in Requests,
           req[q].pc \notin {"idle", "session"}, OnSession(req[q].kind),
           req[r].pc \notin {"idle", "session"}, OnSession(req[r].kind),
           req[q].sid = req[r].sid
    PROVE  q = r
BY DEF Placed, IsPlaced, InLine

\* The request that is handled is in front of its session's queue.
InFront(r) ==
    /\ req[r].pc # "idle"
    /\ OnSession(req[r].kind) => line[req[r].sid][1] = r

LEMMA AnswerKeeps ==
    ASSUME RestTyped, Placed, Holding, NEW r \in Requests, InFront(r), Answer(r)
    PROVE  /\ req' \in [Requests -> RequestType]
           /\ line' \in [Sessions -> Seq(Requests)]
           /\ workspace' \in Seq(Requests)
           /\ Placed' /\ Holding'
           /\ req'[r] = Idle
           /\ \A x \in Requests : x # r => req'[x] = req[x]
<1>. USE DEF RestTyped
<1>1. /\ req' \in [Requests -> RequestType]
      /\ req'[r] = Idle
      /\ \A x \in Requests : x # r => req'[x] = req[x]
  BY IdleType DEF Answer
<1>2. /\ Idle.pc = "idle" /\ ~Idle.released /\ Idle.kind = "new"
  BY DEF Idle
<1>3. workspace' \in Seq(Requests)
  <2>1. workspace # << >> => Tail(workspace) \in Seq(Requests)
    BY TailKeeps
  <2>. QED  BY <2>1 DEF Answer, HasWorkspace
<1>4. ASSUME OnSession(req[r].kind)
      PROVE  /\ req[r].sid \in Sessions
             /\ line[req[r].sid] \in Seq(Requests)
             /\ line[req[r].sid] # << >>
             /\ line[req[r].sid][1] = r
             /\ line' = [line EXCEPT ![req[r].sid] = Tail(line[req[r].sid])]
  <2>1. InLine(r)
    BY <1>4 DEF InFront, Placed, IsPlaced
  <2>. QED  BY <1>4, <2>1, HasNonempty DEF InLine, InFront, Answer
<1>5. line' \in [Sessions -> Seq(Requests)]
  <2>1. CASE OnSession(req[r].kind)
    <3>1. Tail(line[req[r].sid]) \in Seq(Requests)
      BY <2>1, <1>4, TailKeeps
    <3>. QED  BY <2>1, <3>1, <1>4
  <2>2. CASE ~OnSession(req[r].kind)
    BY <2>2 DEF Answer
  <2>. QED  BY <2>1, <2>2
<1>6. Holding'
  <2>. SUFFICES ASSUME NEW x \in Requests, x # r
                PROVE  /\ (InTurn(x) /\ ~req[x].released) => HasWorkspace(x)'
                       /\ req[x].pc = "run" => ~req[x].released
                       /\ req[x].pc \in {"infer", "ask", "resume"} =>
                             (req[x].released <=> req[x].backend # Local)
    BY <1>1, <1>2 DEF Holding, IsHolding, InTurn
  <2>1. HasWorkspace(x) => ~HasWorkspace(r) /\ HasWorkspace(x)'
    BY DEF HasWorkspace, Answer
  <2>. QED  BY <2>1 DEF Holding, IsHolding
<1>7. Placed'
  <2>. SUFFICES ASSUME NEW x \in Requests, x # r, req[x].pc # "idle", OnSession(req[x].kind)
                PROVE  InLine(x)'
    BY <1>1, <1>2, Zenon DEF Placed, IsPlaced, InTurn, OnSession
  <2>1. InLine(x) /\ req'[x] = req[x]
    BY <1>1 DEF Placed, IsPlaced
  <2>2. CASE OnSession(req[r].kind) /\ req[r].sid = req[x].sid
    <3>1. req[x].pc = "session"
      BY <2>1, <2>2, <1>4 DEF InLine
    <3>. DEFINE s == req[x].sid
    <3>2. /\ s \in Sessions /\ line[s] \in Seq(Requests) /\ line[s] # << >>
          /\ line[s][1] = r /\ line'[s] = Tail(line[s])
      BY <1>4, <2>1, <2>2 DEF InLine
    <3>3. Has(line[s], x)
      BY <2>1 DEF InLine
    <3>. HIDE DEF s
    <3>4. Has(Tail(line[s]), x)
      BY <3>2, <3>3, TailHas
    <3>. QED  BY <2>1, <3>1, <3>2, <3>4 DEF InLine, s
  <2>3. CASE ~(OnSession(req[r].kind) /\ req[r].sid = req[x].sid)
    <3>1. line'[req[x].sid] = line[req[x].sid]
      BY <2>1, <2>3, <1>4 DEF InLine, Answer
    <3>. QED  BY <2>1, <3>1 DEF InLine
  <2>. QED  BY <2>2, <2>3
<1>. QED  BY <1>1, <1>3, <1>5, <1>6, <1>7

\* r moves on, or arrives: the others keep their places.
LEMMA OthersKeep ==
    ASSUME RestTyped, Placed, Holding, NEW r \in Requests,
           req' \in [Requests -> RequestType],
           \A x \in Requests : x # r =>
               /\ req'[x].pc = req[x].pc /\ req'[x].kind = req[x].kind
               /\ req'[x].sid = req[x].sid /\ req'[x].turn = req[x].turn
               /\ req'[x].backend = req[x].backend /\ req'[x].released = req[x].released,
           \/ line' = line
           \/ \E s \in Sessions : line' = [line EXCEPT ![s] = Append(line[s], r)],
           \/ workspace' = workspace
           \/ workspace' = Append(workspace, r)
           \/ HasWorkspace(r) /\ workspace' = Tail(workspace),
           IsPlaced(r)', IsHolding(r)'
    PROVE  /\ line' \in [Sessions -> Seq(Requests)] /\ workspace' \in Seq(Requests)
           /\ Placed' /\ Holding'
<1>. USE DEF RestTyped
<1>1. line' \in [Sessions -> Seq(Requests)]
  <2>. SUFFICES ASSUME NEW s \in Sessions, line' = [line EXCEPT ![s] = Append(line[s], r)]
                PROVE  line' \in [Sessions -> Seq(Requests)]
    OBVIOUS
  <2>1. Append(line[s], r) \in Seq(Requests)
    BY AppendKeeps
  <2>. QED  BY <2>1
<1>2. workspace' \in Seq(Requests)
  <2>1. Append(workspace, r) \in Seq(Requests)
    BY AppendKeeps
  <2>2. workspace # << >> => Tail(workspace) \in Seq(Requests)
    BY TailKeeps
  <2>. QED  BY <2>1, <2>2 DEF HasWorkspace
<1>3. ASSUME NEW x \in Requests, x # r PROVE IsPlaced(x)'
  <2>1. IsPlaced(x)
    BY DEF Placed
  <2>2. ASSUME InLine(x) PROVE InLine(x)'
    <3>. DEFINE t == req[x].sid
    <3>1. /\ t \in Sessions /\ req'[x].sid = t /\ req'[x].pc = req[x].pc
          /\ Has(line[t], x)
          /\ req[x].pc # "session" => line[t][1] = x
      BY <1>3, <2>2 DEF InLine
    <3>. HIDE DEF t
    <3>2. line'[t] = line[t] \/ line'[t] = Append(line[t], r)
      BY <3>1
    <3>3. line[t] \in Seq(Requests)
      BY <3>1
    <3>4. line[t] # << >> /\ Has(Append(line[t], r), x)
      BY <3>1, <3>3, AppendHas
    <3>5. Append(line[t], r)[1] = line[t][1]
      BY <3>3, <3>4, AppendKeeps
    <3>6. /\ Has(line'[t], x)
          /\ req[x].pc # "session" => line'[t][1] = x
      BY <3>1, <3>2, <3>4, <3>5
    <3>. QED  BY <3>1, <3>6 DEF InLine
  <2>. QED  BY <1>3, <2>1, <2>2 DEF IsPlaced, InTurn
<1>4. ASSUME NEW x \in Requests, x # r PROVE IsHolding(x)'
  <2>1. IsHolding(x)
    BY DEF Holding
  <2>2. ASSUME HasWorkspace(x) PROVE HasWorkspace(x)'
    <3>1. ~HasWorkspace(r)
      BY <1>4, <2>2 DEF HasWorkspace
    <3>2. /\ Append(workspace, r) # << >>
          /\ workspace # << >> => Head(Append(workspace, r)) = Head(workspace)
      BY AppendKeeps
    <3>. QED  BY <2>2, <3>1, <3>2 DEF HasWorkspace
  <2>. QED  BY <1>4, <2>1, <2>2 DEF IsHolding, InTurn
<1>5. Placed' /\ Holding'
  BY <1>3, <1>4 DEF Placed, Holding
<1>. QED  BY <1>1, <1>2, <1>5

Locks == RestTyped /\ Placed /\ Holding

\* One request changes, and stays on its session: what is left to show of it.
LEMMA RequestMoves ==
    ASSUME Locks, NEW r \in Requests, NEW st \in RequestType,
           req' = [req EXCEPT ![r] = st],
           line' = line,
           \/ workspace' = workspace
           \/ workspace' = Append(workspace, r)
           \/ HasWorkspace(r) /\ workspace' = Tail(workspace),
           present' \in SUBSET Dirs, closing' \in SUBSET Sessions,
           InFront(r),
           st.kind = req[r].kind, st.sid = req[r].sid, st.turn = req[r].turn,
           st.pc \notin {"idle", "session"},
           st.pc \in {"infer", "ask", "resume", "run"} => st.kind = "prompt",
           IsHolding(r)'
    PROVE  Locks'
<1>. USE DEF Locks
<1>1. /\ req' \in [Requests -> RequestType]
      /\ req'[r] = st
      /\ \A x \in Requests : x # r => req'[x] = req[x]
  BY DEF RestTyped
<1>2. IsPlaced(r)
  BY DEF Placed
<1>3. IsPlaced(r)'
  BY <1>1, <1>2 DEF IsPlaced, InLine, InFront, InTurn
<1>4. /\ line' \in [Sessions -> Seq(Requests)] /\ workspace' \in Seq(Requests)
      /\ Placed' /\ Holding'
  BY <1>1, <1>3, OthersKeep
<1>. QED  BY <1>1, <1>4 DEF RestTyped

LEMMA SubmitLocks ==
    ASSUME Locks, turns \in 0..MaxTurns,
           NEW r \in Requests, NEW kind \in Kinds, NEW s \in Sessions, Submit(r, kind, s)
    PROVE  Locks'
<1>. USE DEF Locks, RestTyped
<1>. DEFINE base == IF kind = "close" THEN Signalled(s) ELSE req
            st == [Idle EXCEPT !.kind = kind, !.sid = s, !.pc = "session",
                               !.turn = IF kind = "prompt" THEN turns + 1 ELSE 0]
<1>1. kind = "prompt" => turns + 1 \in Turns
  BY BoundsAssumption DEF Submit, Turns
<1>2. /\ st \in RequestType
      /\ st.pc = "session" /\ st.kind = kind /\ st.sid = s /\ ~st.released
      /\ kind = "prompt" => st.turn \in Turns
  <2>1. IF kind = "prompt" THEN turns + 1 \in Turns ELSE 0 \in Turns \cup {0}
    BY <1>1
  <2>. HIDE DEF Turns
  <2>. QED  BY <2>1, IdleType, NoTurnsType DEF RequestType, Idle, PCs, Outcomes
<1>3. /\ base \in [Requests -> RequestType]
      /\ \A x \in Requests :
           /\ base[x].pc = req[x].pc /\ base[x].kind = req[x].kind
           /\ base[x].sid = req[x].sid /\ base[x].turn = req[x].turn
           /\ base[x].backend = req[x].backend /\ base[x].released = req[x].released
  <2>1. \A x \in Requests :
          /\ [req[x] EXCEPT !.cancelled = TRUE] \in RequestType
          /\ [req[x] EXCEPT !.cancelled = TRUE].pc = req[x].pc
          /\ [req[x] EXCEPT !.cancelled = TRUE].kind = req[x].kind
          /\ [req[x] EXCEPT !.cancelled = TRUE].sid = req[x].sid
          /\ [req[x] EXCEPT !.cancelled = TRUE].turn = req[x].turn
          /\ [req[x] EXCEPT !.cancelled = TRUE].backend = req[x].backend
          /\ [req[x] EXCEPT !.cancelled = TRUE].released = req[x].released
    BY DEF RequestType
  <2>. QED  BY <2>1, Zenon DEF Signalled
<1>. HIDE DEF base, st
<1>4. /\ req' = [base EXCEPT ![r] = st]
      /\ line' = [line EXCEPT ![s] = Append(line[s], r)]
      /\ closing' \in SUBSET Sessions
      /\ UNCHANGED <<present, workspace>>
      /\ OnSession(kind)
  BY DEF Submit, base, st
<1>5. /\ req' \in [Requests -> RequestType] /\ req'[r] = st
      /\ \A x \in Requests : x # r => req'[x] = base[x]
  BY <1>2, <1>3, <1>4
<1>6. Has(line'[s], r)
  BY <1>4, AppendKeeps
<1>7. IsPlaced(r)' /\ IsHolding(r)'
  BY <1>2, <1>4, <1>5, <1>6 DEF IsPlaced, IsHolding, InLine, InTurn
<1>8. /\ line' \in [Sessions -> Seq(Requests)] /\ workspace' \in Seq(Requests)
      /\ Placed' /\ Holding'
  BY <1>3, <1>4, <1>5, <1>7, OthersKeep
<1>. QED  BY <1>4, <1>5, <1>8

LEMMA SubmitGlobalLocks ==
    ASSUME Locks, NEW r \in Requests, NEW kind \in Kinds, SubmitGlobal(r, kind)
    PROVE  Locks'
<1>. USE DEF Locks, RestTyped
<1>. DEFINE st == [Idle EXCEPT !.kind = kind, !.pc = "workspace"]
<1>1. /\ st \in RequestType
      /\ st.pc = "workspace" /\ st.kind = kind /\ ~st.released
  BY IdleType, NoTurnsType DEF RequestType, Idle, PCs, Outcomes
<1>. HIDE DEF st
<1>2. /\ req' = [req EXCEPT ![r] = st]
      /\ workspace' = Append(workspace, r)
      /\ UNCHANGED <<present, line, closing>>
      /\ ~OnSession(kind)
  BY DEF SubmitGlobal, st
<1>3. /\ req' \in [Requests -> RequestType] /\ req'[r] = st
      /\ \A x \in Requests : x # r => req'[x] = req[x]
  BY <1>1, <1>2
<1>4. IsPlaced(r)' /\ IsHolding(r)'
  BY <1>1, <1>2, <1>3 DEF IsPlaced, IsHolding, InTurn, OnSession
<1>5. /\ line' \in [Sessions -> Seq(Requests)] /\ workspace' \in Seq(Requests)
      /\ Placed' /\ Holding'
  BY <1>2, <1>3, <1>4, OthersKeep
<1>. QED  BY <1>2, <1>3, <1>5

LEMMA CancelLocks ==
    ASSUME Locks, NEW r \in Requests, Cancel(r)
    PROVE  Locks'
<1>. USE DEF Locks, RestTyped
<1>. DEFINE st == [req[r] EXCEPT !.cancelled = TRUE]
<1>1. /\ st \in RequestType
      /\ st.pc = req[r].pc /\ st.kind = req[r].kind /\ st.sid = req[r].sid
      /\ st.turn = req[r].turn /\ st.backend = req[r].backend
      /\ st.released = req[r].released
  BY DEF RequestType
<1>2. /\ req' = [req EXCEPT ![r] = st]
      /\ UNCHANGED <<present, line, closing, workspace>>
      /\ req[r].kind = "prompt" /\ req[r].pc \notin {"idle", "session"}
  BY DEF Cancel, Registered
<1>. HIDE DEF st
<1>3. IsHolding(r) /\ req'[r] = st /\ IsPlaced(r)
  BY <1>1, <1>2 DEF Holding, Placed
<1>4. IsHolding(r)'
  BY <1>1, <1>2, <1>3 DEF IsHolding, InTurn, HasWorkspace
<1>5. InFront(r)
  BY <1>2, <1>3 DEF IsPlaced, InLine, InFront
<1>6. present' \in SUBSET Dirs /\ closing' \in SUBSET Sessions
  BY <1>2
<1>. QED  BY <1>1, <1>2, <1>4, <1>5, <1>6, RequestMoves

LEMMA AnswerLocks ==
    ASSUME Locks, NEW r \in Requests, InFront(r), Answer(r),
           present' = present, closing' \in SUBSET closing
    PROVE  Locks'
BY AnswerKeeps DEF Locks, RestTyped

LEMMA HasSessionInFront ==
    ASSUME Locks, NEW r \in Requests, HasSession(r)
    PROVE  InFront(r)
<1>1. IsPlaced(r) /\ req[r].pc = "session"
  BY DEF Locks, Placed, HasSession
<1>2. /\ req[r].sid \in Sessions
      /\ Has(line[req[r].sid], r)
      /\ line[req[r].sid] \in Seq(Requests)
  BY <1>1 DEF IsPlaced, InLine, Locks, RestTyped
<1>3. line[req[r].sid] # << >>
  BY <1>2, HasNonempty
<1>4. Head(line[req[r].sid]) = line[req[r].sid][1]
  BY <1>2, <1>3, TailKeeps
<1>. QED  BY <1>1, <1>4 DEF InFront, HasSession

\* Behind its session's lock a request is in front of the queue.
LEMMA PastSessionInFront ==
    ASSUME Locks, NEW r \in Requests, req[r].pc \notin {"idle", "session"}
    PROVE  InFront(r)
BY DEF Locks, Placed, IsPlaced, InLine, InFront

\* EnterWorkspace, and StartPrompt when it registers.
LEMMA EnterLocks ==
    ASSUME Locks, NEW r \in Requests, HasSession(r),
           req' = [req EXCEPT ![r].pc = "workspace"],
           workspace' = Append(workspace, r),
           UNCHANGED <<present, line, closing>>
    PROVE  Locks'
<1>. USE DEF Locks, RestTyped
<1>. DEFINE st == [req[r] EXCEPT !.pc = "workspace"]
<1>1. /\ st \in RequestType
      /\ st.pc = "workspace" /\ st.kind = req[r].kind /\ st.sid = req[r].sid
      /\ st.turn = req[r].turn
  BY DEF RequestType, PCs
<1>2. req' = [req EXCEPT ![r] = st]
  BY DEF st
<1>. HIDE DEF st
<1>3. IsHolding(r)'
  BY <1>1, <1>2 DEF IsHolding, InTurn
<1>4. InFront(r)
  BY HasSessionInFront
<1>. QED  BY <1>1, <1>2, <1>3, <1>4, RequestMoves

\* A turn that has the workspace begins a wait.
LEMMA WaitLocks ==
    ASSUME Locks, NEW r \in Requests, NEW state \in RequestType,
           req[r].kind = "prompt", req[r].pc \notin {"idle", "session"}, HasWorkspace(r),
           state.kind = req[r].kind, state.sid = req[r].sid, state.turn = req[r].turn,
           state.pc \in {"infer", "ask"},
           Wait(r, state), UNCHANGED <<present, line, closing>>
    PROVE  Locks'
<1>. USE DEF Locks, RestTyped
<1>. DEFINE st == [state EXCEPT !.outcome = "none", !.released = GivesUp(state.backend)]
<1>1. /\ st \in RequestType
      /\ st.kind = req[r].kind /\ st.sid = req[r].sid /\ st.turn = req[r].turn
      /\ st.pc \in {"infer", "ask"} /\ (st.released <=> st.backend # Local)
  BY DEF RequestType, Outcomes, GivesUp
<1>2. /\ req' = [req EXCEPT ![r] = st]
      /\ workspace' = IF st.released THEN Tail(workspace) ELSE workspace
  BY DEF Wait, RequestType
<1>. HIDE DEF st
<1>3. req'[r] = st
  BY <1>1, <1>2
<1>4. IsHolding(r)'
  BY <1>1, <1>2, <1>3 DEF IsHolding, InTurn, HasWorkspace
<1>5. InFront(r)
  BY PastSessionInFront
<1>6. present' \in SUBSET Dirs /\ closing' \in SUBSET Sessions
  OBVIOUS
<1>. QED  BY <1>1, <1>2, <1>4, <1>5, <1>6, RequestMoves

\* A turn that has the workspace begins to run a tool.
LEMMA RunLocks ==
    ASSUME Locks, NEW r \in Requests, NEW round \in Nat,
           req[r].kind = "prompt", req[r].pc \notin {"idle", "session"}, HasWorkspace(r),
           req' = [req EXCEPT ![r].pc = "run", ![r].outcome = "none",
                              ![r].round = round, ![r].released = FALSE],
           UNCHANGED <<present, line, workspace, closing>>
    PROVE  Locks'
<1>. USE DEF Locks, RestTyped
<1>. DEFINE st == [req[r] EXCEPT !.pc = "run", !.outcome = "none",
                                 !.round = round, !.released = FALSE]
<1>1. /\ st \in RequestType
      /\ st.kind = req[r].kind /\ st.sid = req[r].sid /\ st.turn = req[r].turn
      /\ st.pc = "run" /\ ~st.released
  <2>1. req[r] \in RequestType
    OBVIOUS
  <2>2. st \in RequestType
    BY <2>1 DEF RequestType, PCs, Outcomes
  <2>. QED  BY <2>1, <2>2 DEF RequestType
<1>2. req' = [req EXCEPT ![r] = st]
  BY DEF RequestType
<1>. HIDE DEF st
<1>3. req'[r] = st
  BY <1>1, <1>2
<1>4. IsHolding(r)'
  BY <1>1, <1>3 DEF IsHolding, InTurn, HasWorkspace
<1>5. InFront(r)
  BY PastSessionInFront
<1>6. present' \in SUBSET Dirs /\ closing' \in SUBSET Sessions
  OBVIOUS
<1>. QED  BY <1>1, <1>2, <1>4, <1>5, <1>6, RequestMoves

LEMMA GoOnLocks ==
    ASSUME Locks, NEW r \in Requests, NEW round \in Nat,
           req[r].kind = "prompt", req[r].pc \notin {"idle", "session"}, HasWorkspace(r),
           GoOn(r, round), UNCHANGED <<present, line, closing>>
    PROVE  Locks'
<1>1. CASE /\ req' = [req EXCEPT ![r].pc = "run", ![r].outcome = "none",
                                 ![r].round = round, ![r].released = FALSE]
           /\ UNCHANGED workspace
  BY <1>1, RunLocks
<1>2. CASE \E pc \in {"ask", "infer"} : Wait(r, [req[r] EXCEPT !.pc = pc, !.round = round])
  <2>1. PICK pc \in {"ask", "infer"} : Wait(r, [req[r] EXCEPT !.pc = pc, !.round = round])
    BY <1>2
  <2>. DEFINE st == [req[r] EXCEPT !.pc = pc, !.round = round]
  <2>2. /\ st \in RequestType /\ st.pc = pc
        /\ st.kind = req[r].kind /\ st.sid = req[r].sid /\ st.turn = req[r].turn
    BY DEF Locks, RestTyped, RequestType, PCs
  <2>. HIDE DEF st
  <2>3. Wait(r, st) /\ st.pc \in {"infer", "ask"}
    BY <2>1, <2>2 DEF st
  <2>. QED  BY <2>2, <2>3, WaitLocks
<1>. QED  BY <1>1, <1>2 DEF GoOn

\* A wait is over.
LEMMA ReturnLocks ==
    ASSUME Locks, NEW r \in Requests, NEW outcome \in Outcomes,
           req[r].pc \in {"infer", "ask"}, Return(r, outcome)
    PROVE  Locks'
<1>. USE DEF Locks, RestTyped
<1>. DEFINE st == [req[r] EXCEPT !.pc = "resume", !.outcome = outcome]
<1>1. /\ st \in RequestType
      /\ st.kind = req[r].kind /\ st.sid = req[r].sid /\ st.turn = req[r].turn
      /\ st.backend = req[r].backend /\ st.released = req[r].released
      /\ st.pc = "resume"
  BY DEF RequestType, PCs
<1>2. /\ req' = [req EXCEPT ![r] = st]
      /\ workspace' = IF req[r].released THEN Append(workspace, r) ELSE workspace
      /\ UNCHANGED <<present, line, closing>>
  BY DEF Return, RequestType
<1>. HIDE DEF st
<1>3. req'[r] = st /\ IsHolding(r) /\ IsPlaced(r)
  BY <1>1, <1>2 DEF Holding, Placed
<1>4. IsHolding(r)'
  BY <1>1, <1>2, <1>3 DEF IsHolding, InTurn, HasWorkspace
<1>5. InFront(r) /\ req[r].kind = "prompt"
  BY <1>3, PastSessionInFront DEF IsPlaced, InTurn
<1>6. present' \in SUBSET Dirs /\ closing' \in SUBSET Sessions
  BY <1>2
<1>. QED  BY <1>1, <1>2, <1>4, <1>5, <1>6, RequestMoves

\* Of a turn: it is a prompt, behind its session's lock.
LEMMA TurnIsPrompt ==
    ASSUME Locks, NEW r \in Requests, InTurn(r)
    PROVE  /\ req[r].kind = "prompt" /\ req[r].pc \notin {"idle", "session"}
           /\ req[r].sid \in Sessions /\ req[r].turn \in Turns /\ InFront(r)
<1>1. IsPlaced(r) /\ req[r].pc \notin {"idle", "session"}
  BY DEF Locks, Placed, InTurn
<1>2. req[r].kind = "prompt"
  BY <1>1 DEF IsPlaced
<1>. QED  BY <1>1, <1>2, PastSessionInFront DEF IsPlaced, InLine, OnSession

LEMMA ResumeLocks ==
    ASSUME Locks, NEW r \in Requests, Resume(r)
    PROVE  Locks'
<1>1. req[r].pc = "resume" /\ InTurn(r) /\ HasWorkspace(r) /\ UNCHANGED <<present, closing>>
  BY DEF Resume, InTurn
<1>2. req[r].kind = "prompt" /\ req[r].pc \notin {"idle", "session"} /\ InFront(r)
  BY <1>1, TurnIsPrompt
<1>3. /\ req[r].round \in Nat /\ req[r].round + 1 \in Nat /\ req[r] \in RequestType
      /\ closing' \in SUBSET closing
  BY <1>1 DEF Locks, RestTyped, RequestType
<1>4. \/ Answer(r)
      \/ UNCHANGED line /\ \/ GoOn(r, req[r].round + 1)
                           \/ GoOn(r, req[r].round)
                           \/ /\ req' = [req EXCEPT ![r].pc = "run", ![r].outcome = "none",
                                                    ![r].released = FALSE]
                              /\ UNCHANGED workspace
  BY Zenon DEF Resume
<1>5. CASE Answer(r)
  BY <1>1, <1>2, <1>3, <1>5, AnswerLocks
<1>6. CASE UNCHANGED line /\ (GoOn(r, req[r].round + 1) \/ GoOn(r, req[r].round))
  BY <1>1, <1>2, <1>3, <1>6, GoOnLocks
<1>7. CASE /\ UNCHANGED <<line, workspace>>
           /\ req' = [req EXCEPT ![r].pc = "run", ![r].outcome = "none", ![r].released = FALSE]
  <2>1. req' = [req EXCEPT ![r].pc = "run", ![r].outcome = "none",
                           ![r].round = req[r].round, ![r].released = FALSE]
    BY <1>3, <1>7 DEF Locks, RestTyped, RequestType
  <2>. QED  BY <1>1, <1>2, <1>3, <1>7, <2>1, RunLocks
<1>. QED  BY <1>4, <1>5, <1>6, <1>7

LEMMA ToolReturnsLocks ==
    ASSUME Locks, NEW r \in Requests, ToolReturns(r)
    PROVE  Locks'
<1>1. InTurn(r) /\ UNCHANGED <<present, closing>> /\ req[r].round \in Nat
  BY DEF ToolReturns, InTurn, Locks, RestTyped, RequestType
<1>2. HasWorkspace(r)
  BY <1>1 DEF ToolReturns, Locks, Holding, IsHolding
<1>3. req[r].kind = "prompt" /\ req[r].pc \notin {"idle", "session"} /\ InFront(r)
  BY <1>1, TurnIsPrompt
<1>4. CASE Answer(r)
  BY <1>1, <1>3, <1>4, AnswerLocks
<1>5. CASE GoOn(r, req[r].round) /\ UNCHANGED line
  BY <1>1, <1>2, <1>3, <1>5, GoOnLocks
<1>. QED  BY <1>4, <1>5 DEF ToolReturns

\* A step that is not the work of a request's handler.
LEMMA RestartLocks ==
    ASSUME Locks, Restart
    PROVE  Locks'
<1>1. /\ req' = [r \in Requests |-> Idle]
      /\ line' = [s \in Sessions |-> << >>] /\ workspace' = << >> /\ closing' = {}
      /\ present' = present
  BY DEF Restart
<1>2. RestTyped'
  BY <1>1, IdleType DEF Locks, RestTyped
<1>3. /\ Idle.pc = "idle" /\ ~Idle.released
      /\ \A r \in Requests : req'[r] = Idle
  BY <1>1 DEF Idle
<1>4. Placed' /\ Holding'
  BY <1>3 DEF Placed, IsPlaced, Holding, IsHolding, InTurn
<1>. QED  BY <1>2, <1>4 DEF Locks

LEMMA LocksUnchanged ==
    ASSUME Locks, UNCHANGED <<line, workspace, closing, req>>, present' \in SUBSET Dirs
    PROVE  Locks'
BY DEF Locks, RestTyped, Placed, IsPlaced, InLine, Holding, IsHolding, InTurn,
       HasWorkspace

\* A step that a request's handler takes under the workspace lock, and that
\* answers the request.
LEMMA HandlerLocks ==
    ASSUME Locks, NEW r \in Requests, Handle(r) \/ RejectPrompt(r) \/ RunSlash(r)
    PROVE  Locks'
<1>1. /\ Answer(r) /\ present' = present
      /\ req[r].pc = "workspace"
      /\ closing' = closing \/ closing' = closing \ {req[r].sid}
  BY DEF Handle, HandleNew, HandleLoad, HandleFork, HandleClose, HandleConfig,
         HandleLogout, RejectPrompt, RunSlash, Runs
<1>2. InFront(r)
  BY <1>1, PastSessionInFront
<1>. QED  BY <1>1, <1>2, AnswerLocks

LEMMA StartPromptLocks ==
    ASSUME Locks, NEW r \in Requests, StartPrompt(r)
    PROVE  Locks'
<1>1. HasSession(r) /\ UNCHANGED <<present, closing>>
  BY DEF StartPrompt
<1>2. CASE Answer(r)
  BY <1>1, <1>2, HasSessionInFront, AnswerLocks
<1>3. CASE /\ req' = [req EXCEPT ![r].pc = "workspace"]
           /\ workspace' = Append(workspace, r)
           /\ UNCHANGED line
  BY <1>1, <1>3, EnterLocks
<1>. QED  BY <1>2, <1>3 DEF StartPrompt

LEMMA AskModelLocks ==
    ASSUME Locks, agent \in AgentType, NEW r \in Requests, AskModel(r),
           NEW here \in AgentType,
           Wait(r, [req[r] EXCEPT !.pc = "infer", !.backend = here.live,
                      !.before = IF here.live = Local THEN << >>
                                 ELSE HistoryOf(here, here.live)])
    PROVE  Locks'
<1>. DEFINE before == IF here.live = Local THEN << >> ELSE HistoryOf(here, here.live)
            st == [req[r] EXCEPT !.pc = "infer", !.backend = here.live, !.before = before]
<1>1. here.live \in Backends \cup {Local}
  BY DEF AgentType
<1>2. before \in Conversations
  BY <1>1, HistoryType, NoTurnsType
<1>. HIDE DEF before
<1>3. /\ st \in RequestType /\ st.pc = "infer"
      /\ st.kind = req[r].kind /\ st.sid = req[r].sid /\ st.turn = req[r].turn
  BY <1>1, <1>2 DEF Locks, RestTyped, RequestType, PCs
<1>4. Wait(r, st)
  BY DEF before
<1>. HIDE DEF st
<1>5. /\ req[r].kind = "prompt" /\ req[r].pc = "workspace" /\ HasWorkspace(r)
      /\ UNCHANGED <<present, line, closing>>
  BY DEF AskModel, Runs
<1>. QED  BY <1>3, <1>4, <1>5, WaitLocks

-----------------------------------------------------------------------------
(* What a request does to the agent *)

\* Session s is put in place, and what is done is done to it.
Reaches(a, b, s) ==
    \/ b = a
    \/ a.active = s /\ Moves(a, b)
    \/ Visited(a, b, s)

LEMMA VisitedMoves ==
    ASSUME NEW a, NEW c, NEW b, NEW s \in Sessions, Visited(a, c, s), Moves(c, b),
           a.active # NoSession => a.active \in Sessions
    PROVE  Visited(a, b, s)
<1>1. Coherent(b)
  BY MovesCoherent DEF Visited
<1>2. /\ b.active = s /\ Known(b, s) /\ b.procDir = c.procDir
      /\ b.sess[s].cwd = c.sess[s].cwd
  BY DEF Visited, Moves
<1>3. \A x \in Sessions : x # s => b.sess[x] = c.sess[x] /\ (Known(b, x) <=> Known(c, x))
  BY DEF Visited, Moves
<1>. QED  BY <1>1, <1>2, <1>3 DEF Visited

LEMMA ReachesMoves ==
    ASSUME NEW a, NEW c, NEW b, NEW s \in Sessions,
           Coherent(a), Reaches(a, c, s), c.active = s, Moves(c, b)
    PROVE  Reaches(a, b, s)
<1>1. a.active # NoSession => a.active \in Sessions
  BY DEF Coherent, ActiveIsKnown
<1>2. CASE c = a
  BY <1>2 DEF Reaches
<1>3. CASE a.active = s /\ Moves(a, c)
  BY <1>3, MovesTransitive DEF Reaches
<1>4. CASE Visited(a, c, s)
  BY <1>1, <1>4, VisitedMoves DEF Reaches
<1>. QED  BY <1>2, <1>3, <1>4 DEF Reaches

LEMMA ReachesKeeps ==
    ASSUME NEW a, NEW b, NEW s \in Sessions, Coherent(a), Reaches(a, b, s)
    PROVE  /\ Coherent(b)
           /\ \A x \in Sessions : Known(a, x) => Known(b, x)
           /\ b = a \/ b.active = s
<1>1. CASE b = a
  BY <1>1
<1>2. CASE a.active = s /\ Moves(a, b)
  BY <1>2, MovesCoherent DEF Moves
<1>3. CASE Visited(a, b, s)
  BY <1>3 DEF Visited
<1>. QED  BY <1>1, <1>2, <1>3 DEF Reaches

LEMMA ReinstallReaches ==
    ASSUME NEW a, Coherent(a), NEW s \in Sessions, NEW ok
    PROVE  LET b == Reinstall(a, s, ok)
           IN  /\ Reaches(a, b, s)
               /\ Coherent(b)
               /\ Known(b, s) <=> Known(a, s)
               /\ Known(b, s) => b.active = s
<1>1. CASE ~Known(a, s)
  BY <1>1 DEF Reinstall, Reaches
<1>2. CASE Known(a, s) /\ a.active = s
  BY <1>2, ActivateLive DEF Reinstall, Reaches
<1>3. CASE Known(a, s) /\ a.active # s
  <2>1. Visited(a, Activate(a, s, ok), s)
    BY <1>3, ActivateEffect
  <2>. QED  BY <1>3, <2>1 DEF Reinstall, Reaches, Visited
<1>. QED  BY <1>1, <1>2, <1>3

LEMMA PrepareReaches ==
    ASSUME NEW a, Coherent(a), NEW s \in Sessions, NEW ok, NEW loads
    PROVE  LET b == Prepare(a, s, ok, loads)
           IN  /\ Reaches(a, b, s)
               /\ Coherent(b)
               /\ Known(b, s) => b.active = s
<1>. DEFINE here == Reinstall(a, s, ok)
            b == Prepare(a, s, ok, loads)
<1>1. /\ Reaches(a, here, s) /\ Coherent(here)
      /\ Known(here, s) => here.active = s
  BY ReinstallReaches
<1>. HIDE DEF here
<1>2. b = here \/ (Known(here, s) /\ b = StartLoad(here, loads))
  BY DEF Prepare, InPlace, here
<1>. HIDE DEF b
<1>3. CASE b = here
  BY <1>1, <1>3 DEF b
<1>4. CASE Known(here, s) /\ b = StartLoad(here, loads)
  <2>1. Moves(here, b)
    BY <1>1, <1>4, StartLoadMoves DEF Coherent
  <2>. QED  BY <1>1, <1>4, <2>1, ReachesMoves, MovesCoherent DEF Moves, b
<1>. QED  BY <1>2, <1>3, <1>4

\* A session that is put in place, and that a command is then given.
LEMMA ReachesThenMoves ==
    ASSUME NEW a, Coherent(a), NEW s \in Sessions, NEW c, Reaches(a, c, s), c.active = s,
           NEW b, Moves(c, b)
    PROVE  Reaches(a, b, s)
BY ReachesMoves

LEMMA NewStateType ==
    ASSUME NEW a \in AgentType, NEW d \in Dirs
    PROVE  NewState(a, d) \in SessionStates /\ NewState(a, d).remote = NoRemote
<1>. DEFINE m == IF ~a.localInference /\ ~Provider THEN DefaultTier ELSE a.model
<1>1. m \in Models
  BY ModelsAssumption DEF AgentType, Models
<1>. HIDE DEF m
<1>2. [cwd |-> d, conv |-> << >>, remote |-> NoRemote, model |-> m] \in SessionStates
  BY <1>1, NoTurnsType DEF SessionStates
<1>. QED  BY <1>2 DEF NewState, m

Copies == [conv : Conversations, model : Models]
Typed == agent \in AgentType /\ saved \in [Sessions -> Copies \cup {NoCopy}]

LEMMA NewReaches ==
    ASSUME Coherent(agent), NEW r \in Requests, HandleNew(r)
    PROVE  \/ agent' = agent
           \/ \E s \in Sessions : ~Known(agent, s) /\ Visited(agent, agent', s)
<1>1. CASE NoIdLeft
  BY <1>1 DEF NoIdLeft
<1>2. CASE \E s \in UnusedIds, d \in Dirs, ok \in Loads :
             agent' = OpenParked(Park(agent), s, NewState(agent, d), ok)
  <2>1. PICK s \in UnusedIds, d \in Dirs, ok \in Loads :
             agent' = OpenParked(Park(agent), s, NewState(agent, d), ok)
    BY <1>2
  <2>2. s \in Sessions /\ ~Known(agent, s)
    BY DEF UnusedIds
  <2>3. NewState(agent, d) \in SessionStates /\ NewState(agent, d).remote = NoRemote
    BY NewStateType DEF Coherent
  <2>4. Visited(agent, agent', s)
    BY <2>1, <2>2, <2>3, OpenEffect
  <2>. QED  BY <2>2, <2>4
<1>. QED  BY <1>1, <1>2 DEF HandleNew

LEMMA LoadReaches ==
    ASSUME Coherent(agent), Typed, NEW r \in Requests, req[r].sid \in Sessions, HandleLoad(r)
    PROVE  agent' = Park(agent) \/ Visited(agent, agent', req[r].sid)
<1>. DEFINE s == req[r].sid
            parked == Park(agent)
            copy == saved[s]
            conv == IF copy # NoCopy THEN copy.conv ELSE parked.sess[s].conv
<1>1. CASE copy = NoCopy /\ ~Known(parked, s)
  BY <1>1 DEF HandleLoad
<1>2. CASE copy # NoCopy \/ Known(parked, s)
  <2>1. PICK d \in Dirs, ok \in Loads :
          agent' = OpenParked(parked, s,
                     [NewState(agent, d) EXCEPT
                        !.conv = conv,
                        !.model = IF copy # NoCopy THEN copy.model
                                  ELSE NewState(agent, d).model], ok)
    BY <1>2 DEF HandleLoad
  <2>. DEFINE fresh == NewState(agent, d)
              m == IF copy # NoCopy THEN copy.model ELSE fresh.model
              st == [fresh EXCEPT !.conv = conv, !.model = m]
  <2>2. fresh \in SessionStates /\ fresh.remote = NoRemote
    BY NewStateType DEF Typed
  <2>3. copy # NoCopy => copy.conv \in Conversations /\ copy.model \in Models
    BY DEF Typed, Copies
  <2>4. Known(parked, s) => parked.sess[s] \in SessionStates
    BY ParkCoherent DEF CoherentParked, AgentType, Known
  <2>5. conv \in Conversations /\ m \in Models
    BY <1>2, <2>2, <2>3, <2>4 DEF SessionStates
  <2>. HIDE DEF fresh, conv, m
  <2>6. st \in SessionStates /\ st.remote = NoRemote
    BY <2>2, <2>5 DEF SessionStates
  <2>7. agent' = OpenParked(parked, s, st, ok)
    BY <2>1 DEF fresh, m
  <2>. HIDE DEF st
  <2>. QED  BY <2>6, <2>7, OpenEffect
<1>. QED  BY <1>1, <1>2

LEMMA ForkReaches ==
    ASSUME Coherent(agent), Typed, NEW r \in Requests, req[r].sid \in Sessions, HandleFork(r)
    PROVE  \/ agent' = agent
           \/ \E n \in Sessions : ~Known(agent, n) /\ Visited(agent, agent', n)
<1>1. CASE NoIdLeft
  BY <1>1 DEF NoIdLeft
<1>2. CASE ~NoIdLeft
  <2>. DEFINE parked == Park(agent)
              s == req[r].sid
              state(fresh) == IF Known(parked, s)
                              THEN [fresh EXCEPT !.conv = parked.sess[s].conv,
                                                 !.model = parked.sess[s].model]
                              ELSE IF saved[s] # NoCopy
                              THEN [fresh EXCEPT !.conv = saved[s].conv,
                                                 !.model = saved[s].model]
                              ELSE fresh
  <2>1. PICK n \in UnusedIds, d \in Dirs, ok \in Loads :
          agent' = OpenParked(parked, n, state(NewState(agent, d)), ok)
    BY <1>2 DEF HandleFork
  <2>2. n \in Sessions /\ ~Known(agent, n)
    BY DEF UnusedIds
  <2>. DEFINE fresh == NewState(agent, d)
              st == state(fresh)
  <2>3. fresh \in SessionStates /\ fresh.remote = NoRemote
    BY NewStateType DEF Typed
  <2>4. saved[s] # NoCopy => saved[s].conv \in Conversations /\ saved[s].model \in Models
    BY DEF Typed, Copies
  <2>5. Known(parked, s) => /\ parked.sess[s].conv \in Conversations
                            /\ parked.sess[s].model \in Models
    BY ParkCoherent DEF CoherentParked, AgentType, Known, SessionStates
  <2>. HIDE DEF fresh, parked
  <2>6. st \in SessionStates /\ st.remote = NoRemote
    BY <2>3, <2>4, <2>5 DEF SessionStates
  <2>7. agent' = OpenParked(Park(agent), n, st, ok)
    BY <2>1 DEF fresh, parked
  <2>. HIDE DEF st
  <2>8. Visited(agent, agent', n)
    BY <2>2, <2>6, <2>7, OpenEffect
  <2>. QED  BY <2>2, <2>8
<1>. QED  BY <1>1, <1>2

LEMMA ConfigReaches ==
    ASSUME Coherent(agent), NEW r \in Requests, req[r].sid \in Sessions, HandleConfig(r)
    PROVE  Reaches(agent, agent', req[r].sid)
<1>. DEFINE s == req[r].sid
<1>1. CASE UNCHANGED agent
  BY <1>1 DEF Reaches
<1>2. CASE ~UNCHANGED agent
  <2>1. PICK ok \in Loads, picked \in Loads :
          /\ Known(agent, s)
          /\ \/ \E m \in Models : agent' = PickModel(Activate(agent, s, ok), m, picked)
             \/ \E on \in BOOLEAN :
                  agent' = [Activate(agent, s, ok) EXCEPT !.localInference = on]
    BY <1>2 DEF HandleConfig
  <2>. DEFINE here == Activate(agent, s, ok)
  <2>2. Reaches(agent, here, s) /\ Coherent(here) /\ here.active = s
    BY <2>1, ReinstallReaches DEF Reinstall
  <2>. HIDE DEF here
  <2>3. Moves(here, agent')
    <3>1. CASE \E m \in Models : agent' = PickModel(here, m, picked)
      BY <2>2, <3>1, PickModelMoves DEF Coherent
    <3>2. ASSUME NEW on \in BOOLEAN, agent' = [here EXCEPT !.localInference = on]
          PROVE  Moves(here, agent')
      <4>1. /\ agent' \in AgentType
            /\ agent'.active = here.active /\ agent'.procDir = here.procDir
            /\ agent'.sess = here.sess /\ agent'.live = here.live
        BY <2>2, <3>2 DEF Coherent, AgentType
      <4>. QED  BY <2>2, <4>1, SwitchMoves DEF Coherent
    <3>. QED  BY <2>1, <3>1, <3>2 DEF here
  <2>. QED  BY <2>2, <2>3, ReachesMoves
<1>. QED  BY <1>1, <1>2

LEMMA SlashReaches ==
    ASSUME Coherent(agent), NEW r \in Requests, req[r].sid \in Sessions, RunSlash(r)
    PROVE  Reaches(agent, agent', req[r].sid)
<1>. DEFINE s == req[r].sid
<1>1. PICK ok \in Loads, loads \in Loads :
        /\ InPlace(Reinstall(agent, s, ok), s)
        /\ \/ agent' = LoadCommand(Reinstall(agent, s, ok), loads)
           \/ \E m \in Models : agent' = ModelsCommand(Reinstall(agent, s, ok), m, loads)
           \/ agent' = ReloadCommand(Reinstall(agent, s, ok), loads)
           \/ agent' = ClearCommand(Reinstall(agent, s, ok), s)
  BY DEF RunSlash
<1>. DEFINE here == Reinstall(agent, s, ok)
<1>2. Reaches(agent, here, s) /\ Coherent(here) /\ Known(here, s) /\ here.active = s
  BY <1>1, ReinstallReaches DEF InPlace
<1>. HIDE DEF here
<1>3. Moves(here, agent')
  BY <1>1, <1>2, LoadCommandMoves, ModelsCommandMoves, ReloadCommandMoves,
     ClearCommandMoves DEF here, Coherent
<1>. QED  BY <1>2, <1>3, ReachesMoves

\* A turn begins: its session is live, on the backend the turn is given.
LEMMA AskReaches ==
    ASSUME Coherent(agent), NEW r \in Requests, req[r].sid \in Sessions,
           req[r].turn \in Turns, AskModel(r)
    PROVE  /\ Reaches(agent, agent', req[r].sid)
           /\ Known(agent', req[r].sid) /\ agent'.active = req[r].sid
           /\ agent'.sess[req[r].sid].cwd \in present
           /\ \E here \in AgentType :
                /\ agent'.live = here.live
                /\ Wait(r, [req[r] EXCEPT !.pc = "infer", !.backend = here.live,
                              !.before = IF here.live = Local THEN << >>
                                         ELSE HistoryOf(here, here.live)])
<1>. DEFINE s == req[r].sid
<1>1. PICK ok \in Loads, loads \in Loads :
        LET here == Prepare(agent, s, ok, loads)
        IN  /\ InPlace(here, s)
            /\ agent' = Push(here, here.live, req[r].turn)
            /\ Wait(r, [req[r] EXCEPT !.pc = "infer", !.backend = here.live,
                          !.before = IF here.live = Local THEN << >>
                                     ELSE HistoryOf(here, here.live)])
  BY DEF AskModel
<1>. DEFINE here == Prepare(agent, s, ok, loads)
<1>2. /\ Reaches(agent, here, s) /\ Coherent(here) /\ Known(here, s) /\ here.active = s
      /\ here.sess[s].cwd \in present
  BY <1>1, PrepareReaches DEF InPlace
<1>. HIDE DEF here
<1>3. here \in AgentType /\ here.live \in Backends \cup {Local}
  BY <1>2 DEF Coherent, AgentType
<1>4. Moves(here, agent')
  BY <1>1, <1>3, PushMoves DEF here
<1>5. agent'.live = here.live
  BY <1>1, <1>3 DEF here, Push, Restore, AgentType
<1>6. Reaches(agent, agent', s)
  BY <1>2, <1>4, ReachesMoves
<1>7. Known(agent', s) /\ agent'.active = s /\ agent'.sess[s].cwd \in present
  BY <1>2, <1>4 DEF Moves
<1>. QED  BY <1>1, <1>3, <1>5, <1>6, <1>7 DEF here

LEMMA RejectReaches ==
    ASSUME Coherent(agent), NEW r \in Requests, req[r].sid \in Sessions, RejectPrompt(r)
    PROVE  Reaches(agent, agent', req[r].sid)
BY PrepareReaches DEF RejectPrompt, Reaches

\* What a turn finds as it resumes, and what it leaves.
ResumesWith(r, here) ==
    LET b == req[r].backend
        s == req[r].sid
    IN  /\ \/ agent' = here
           \/ agent' = Forget(here, b)
           \/ agent' = Restore(here, b, req[r].before)
        /\ \/ Answer(r)
           \/ agent' = here /\ ~Interrupted(r, here)
        /\ \/ saved' = saved
           \/ saved' = [saved EXCEPT ![s] = SavedCopy(here, r)]
           \/ saved' = [saved EXCEPT ![s] = SavedCopy(agent', r)]

LEMMA ResumeForm ==
    ASSUME NEW r \in Requests, Resume(r)
    PROVE  \E ok \in Loads :
             ResumesWith(r, IF req[r].released THEN Reinstall(agent, req[r].sid, ok) ELSE agent)
<1>. DEFINE H(ok) == IF req[r].released THEN Reinstall(agent, req[r].sid, ok) ELSE agent
<1>1. PICK ok \in Loads :
        \/ /\ agent' = H(ok) \/ agent' = Forget(H(ok), req[r].backend)
           /\ Answer(r) /\ UNCHANGED saved
        \/ /\ agent' = H(ok)
           /\ saved' = saved \/ saved' = [saved EXCEPT ![req[r].sid] = SavedCopy(H(ok), r)]
           /\ Answer(r)
        \/ /\ agent' = H(ok) \/ agent' = Restore(H(ok), req[r].backend, req[r].before)
           /\ saved' = [saved EXCEPT ![req[r].sid] = SavedCopy(agent', r)]
           /\ Answer(r)
        \/ /\ ~Interrupted(r, H(ok))
           /\ agent' = H(ok) /\ UNCHANGED saved
  BY DEF Resume
<1>. HIDE DEF H
<1>2. ResumesWith(r, H(ok))
  BY <1>1 DEF ResumesWith
<1>. QED  BY <1>2 DEF H

\* A turn that resumes: its session is put back, with the backend of the turn.
LEMMA ResumeReaches ==
    ASSUME Coherent(agent), NEW r \in Requests, req[r].sid \in Sessions,
           RestTyped, Known(agent, req[r].sid),
           ~req[r].released => agent.active = req[r].sid, Resume(r)
    PROVE  /\ Reaches(agent, agent', req[r].sid)
           /\ agent'.active = req[r].sid
           /\ InTurn(r)' => \/ ~req[r].released /\ agent' = agent
                            \/ \E ok \in Loads : agent' = Reinstall(agent, req[r].sid, ok)
                               /\ agent'.sess[req[r].sid].cwd \in present
           /\ saved' = saved
              \/ \E a \in AgentType : /\ Known(a, req[r].sid)
                                      /\ saved' = [saved EXCEPT ![req[r].sid] = SavedCopy(a, r)]
<1>. DEFINE s == req[r].sid
            b == req[r].backend
            H(ok) == IF req[r].released THEN Reinstall(agent, s, ok) ELSE agent
<1>1. b \in Backends \cup {Local} /\ req[r].before \in Conversations
  BY DEF RestTyped, RequestType
<1>2. \A ok : Reaches(agent, H(ok), s) /\ Coherent(H(ok)) /\ Known(H(ok), s) /\ H(ok).active = s
  BY ReinstallReaches DEF Reaches
<1>3. PICK ok \in Loads : ResumesWith(r, H(ok))
  BY ResumeForm
<1>. DEFINE here == H(ok)
<1>4. Reaches(agent, here, s) /\ Coherent(here) /\ Known(here, s) /\ here.active = s
  BY <1>2
<1>5. here = IF req[r].released THEN Reinstall(agent, s, ok) ELSE agent
  OBVIOUS
<1>6. /\ agent' = here \/ agent' = Forget(here, b) \/ agent' = Restore(here, b, req[r].before)
      /\ \/ Answer(r)
         \/ agent' = here /\ ~Interrupted(r, here)
      /\ \/ saved' = saved
         \/ saved' = [saved EXCEPT ![s] = SavedCopy(here, r)]
         \/ saved' = [saved EXCEPT ![s] = SavedCopy(agent', r)]
  BY <1>3 DEF ResumesWith
<1>. HIDE DEF here, H
<1>7. Moves(here, agent')
  BY <1>1, <1>4, <1>6, ForgetMoves, RestoreMoves, MovesReflexive DEF Coherent
<1>8. Reaches(agent, agent', s) /\ agent'.active = s
  BY <1>4, <1>7, ReachesMoves DEF Moves
<1>9. here \in AgentType /\ agent' \in AgentType /\ Known(agent', s)
  BY <1>4, <1>7 DEF Moves, Coherent
<1>10. ASSUME InTurn(r)'
       PROVE  \/ ~req[r].released /\ agent' = agent
              \/ \E o \in Loads : agent' = Reinstall(agent, s, o)
                                  /\ agent'.sess[s].cwd \in present
  <2>1. ~Answer(r)
    BY <1>10 DEF Answer, Idle, InTurn, RestTyped
  <2>2. agent' = here /\ ~Interrupted(r, here)
    BY <1>6, <2>1
  <2>. QED  BY <1>5, <2>2 DEF Interrupted, InPlace
<1>11. \/ saved' = saved
       \/ \E a \in AgentType : /\ Known(a, s)
                               /\ saved' = [saved EXCEPT ![s] = SavedCopy(a, r)]
  BY <1>4, <1>6, <1>9
<1>. HIDE DEF s
<1>12. InTurn(r)' => \/ ~req[r].released /\ agent' = agent
                     \/ \E o \in Loads : agent' = Reinstall(agent, s, o)
                                         /\ agent'.sess[s].cwd \in present
  BY <1>10
<1>. QED  BY <1>8, <1>11, <1>12, Zenon DEF s

-----------------------------------------------------------------------------
(* The invariant is inductive *)

\* A step of request r, by its client, its handler, its endpoint or its user.
Step(r) ==
    \/ Arrive(r)
    \/ EnterWorkspace(r) \/ StartPrompt(r)
    \/ Handle(r)
    \/ TakeTurn(r)
    \/ Answered(r)
    \/ CancelSeen(r) \/ Resume(r) \/ ToolReturns(r)

\* Nothing of request x has changed, but that it may have been cancelled.
Untouched(x) ==
    /\ req[x].cancelled => req'[x].cancelled
    /\ req'[x].pc = req[x].pc /\ req'[x].kind = req[x].kind
    /\ req'[x].sid = req[x].sid /\ req'[x].turn = req[x].turn
    /\ req'[x].backend = req[x].backend /\ req'[x].released = req[x].released
    /\ req'[x].before = req[x].before

LEMMA StepTouchesOwn ==
    ASSUME RestTyped, NEW r \in Requests, NEW x \in Requests, x # r, Step(r)
    PROVE  Untouched(x)
<1>. USE DEF RestTyped
<1>1. ASSUME req'[x] = req[x] PROVE Untouched(x)
  BY <1>1 DEF Untouched
<1>2. Answer(r) => req'[x] = req[x]
  BY DEF Answer
<1>3. \A state : Wait(r, state) => req'[x] = req[x]
  BY DEF Wait
<1>4. \A outcome : Return(r, outcome) => req'[x] = req[x]
  BY DEF Return
<1>5. \A round : GoOn(r, round) => req'[x] = req[x]
  BY <1>3 DEF GoOn
<1>6. CASE \E kind \in KindsSent, s \in Sessions : Submit(r, kind, s)
  <2>1. PICK kind \in KindsSent, s \in Sessions : Submit(r, kind, s)
    BY <1>6
  <2>2. req'[x] = req[x] \/ req'[x] = [req[x] EXCEPT !.cancelled = TRUE]
    BY <2>1 DEF Submit, Signalled
  <2>3. req[x] \in RequestType
    OBVIOUS
  <2>. QED  BY <2>2, <2>3 DEF Untouched, RequestType
<1>7. CASE (\E kind \in KindsSent : SubmitGlobal(r, kind)) \/ Cancel(r)
  BY <1>1, <1>7 DEF SubmitGlobal, Cancel
<1>8. CASE EnterWorkspace(r) \/ StartPrompt(r)
  BY <1>1, <1>2, <1>8 DEF EnterWorkspace, StartPrompt
<1>9. CASE Handle(r)
  BY <1>1, <1>2, <1>9 DEF Handle, HandleNew, HandleLoad, HandleFork, HandleClose,
     HandleConfig, HandleLogout
<1>10. CASE TakeTurn(r)
  BY <1>1, <1>2, <1>3, <1>10 DEF TakeTurn, RejectPrompt, RunSlash, AskModel
<1>11. CASE Answered(r) \/ CancelSeen(r)
  BY <1>1, <1>4, <1>11 DEF Answered, ReplyArrives, UserAnswers, CancelSeen
<1>12. CASE Resume(r)
  <2>1. req'[x] = req[x]
    BY <1>2, <1>5, <1>12 DEF Resume
  <2>. QED  BY <1>1, <2>1
<1>13. CASE ToolReturns(r)
  BY <1>1, <1>2, <1>5, <1>13 DEF ToolReturns
<1>. QED
  BY <1>6, <1>7, <1>8, <1>9, <1>10, <1>11, <1>12, <1>13 DEF Step, Arrive

\* What a step of r leaves of the agent and of its turn.
AgentKept(r) ==
    /\ Coherent(agent')
    /\ \A x \in Sessions : Known(agent, x) =>
          \/ Known(agent', x)
          \/ req[r].sid = x /\ req[r].kind = "close" /\ req[r].pc = "workspace"
    /\ agent' = agent \/ HasWorkspace(r)
    /\ InTurn(r)' => /\ Known(agent', req'[r].sid)
                     /\ ~req'[r].released => agent'.active = req'[r].sid

LEMMA AnswerEndsTurn ==
    ASSUME RestTyped, NEW r \in Requests, Answer(r)
    PROVE  ~InTurn(r)'
BY DEF RestTyped, Answer, Idle, InTurn

\* A turn that goes on stays the turn of its session, on its backend.
LEMMA GoOnKeepsTurn ==
    ASSUME RestTyped, NEW r \in Requests, NEW round, GoOn(r, round)
    PROVE  /\ req'[r].sid = req[r].sid /\ req'[r].backend = req[r].backend
           /\ req'[r].kind = req[r].kind /\ req'[r].cancelled = req[r].cancelled
<1>. USE DEF RestTyped
<1>1. req[r] \in RequestType
  OBVIOUS
<1>2. CASE req' = [req EXCEPT ![r].pc = "run", ![r].outcome = "none",
                              ![r].round = round, ![r].released = FALSE]
  BY <1>1, <1>2 DEF RequestType
<1>3. CASE \E pc \in {"ask", "infer"} : Wait(r, [req[r] EXCEPT !.pc = pc, !.round = round])
  <2>1. PICK pc \in {"ask", "infer"} : Wait(r, [req[r] EXCEPT !.pc = pc, !.round = round])
    BY <1>3
  <2>. DEFINE st == [req[r] EXCEPT !.pc = pc, !.round = round]
  <2>2. /\ st.sid = req[r].sid /\ st.backend = req[r].backend
        /\ st.kind = req[r].kind /\ st.cancelled = req[r].cancelled
        /\ st = [st EXCEPT !.pc = pc]
    BY <1>1 DEF RequestType
  <2>3. /\ [st EXCEPT !.outcome = "none", !.released = GivesUp(st.backend)].sid = req[r].sid
        /\ [st EXCEPT !.outcome = "none", !.released = GivesUp(st.backend)].backend
             = req[r].backend
        /\ [st EXCEPT !.outcome = "none", !.released = GivesUp(st.backend)].kind = req[r].kind
        /\ [st EXCEPT !.outcome = "none", !.released = GivesUp(st.backend)].cancelled
             = req[r].cancelled
    BY <1>1 DEF RequestType
  <2>. HIDE DEF st
  <2>4. req'[r] = [st EXCEPT !.outcome = "none", !.released = GivesUp(st.backend)]
    BY <2>1 DEF Wait, st
  <2>. QED  BY <2>3, <2>4
<1>. QED  BY <1>2, <1>3 DEF GoOn

LEMMA VisitedKeeps ==
    ASSUME NEW a, NEW b, NEW s \in Sessions, Visited(a, b, s)
    PROVE  Coherent(b) /\ \A x \in Sessions : Known(a, x) => Known(b, x)
BY DEF Visited

LEMMA HandleKeepsAgent ==
    ASSUME IInv, NEW r \in Requests, Handle(r)
    PROVE  AgentKept(r)
<1>1. Coherent(agent) /\ Typed /\ RestTyped
  BY DEF IInv, TypeOK, Typed, Copies, RestTyped
<1>2. Answer(r) /\ HasWorkspace(r) /\ req[r].pc = "workspace"
  BY DEF Handle, HandleNew, HandleLoad, HandleFork, HandleClose, HandleConfig,
         HandleLogout, Runs
<1>3. ~InTurn(r)'
  BY <1>1, <1>2, AnswerEndsTurn
<1>4. OnSession(req[r].kind) => req[r].sid \in Sessions
  BY <1>2 DEF IInv, Placed, IsPlaced, InLine
<1>5. ASSUME Coherent(agent'), \A x \in Sessions : Known(agent, x) => Known(agent', x)
      PROVE  AgentKept(r)
  BY <1>2, <1>3, <1>5 DEF AgentKept
<1>6. CASE HandleNew(r)
  BY <1>1, <1>5, <1>6, NewReaches, VisitedKeeps
<1>7. CASE HandleLoad(r)
  <2>1. agent' = Park(agent) \/ Visited(agent, agent', req[r].sid)
    BY <1>1, <1>4, <1>7, LoadReaches DEF HandleLoad, Runs, OnSession
  <2>2. ASSUME agent' = Park(agent)
        PROVE  Coherent(agent') /\ \A x \in Sessions : Known(agent, x) => Known(agent', x)
    BY <1>1, <2>2, ParkCoherent DEF CoherentParked, Coherent, Owned
  <2>3. req[r].sid \in Sessions
    BY <1>4, <1>7 DEF HandleLoad, Runs, OnSession
  <2>. QED  BY <1>5, <2>1, <2>2, <2>3, VisitedKeeps
<1>8. CASE HandleFork(r)
  <2>1. req[r].sid \in Sessions
    BY <1>4, <1>8 DEF HandleFork, Runs, OnSession
  <2>. QED  BY <1>1, <1>5, <1>8, <2>1, ForkReaches, VisitedKeeps
<1>9. CASE HandleClose(r)
  <2>1. /\ req[r].sid \in Sessions /\ req[r].kind = "close"
        /\ agent' = ClosedAgent(agent, req[r].sid)
    BY <1>4, <1>9 DEF HandleClose, Runs, OnSession
  <2>2. /\ Coherent(agent')
        /\ \A x \in Sessions : x # req[r].sid => agent'.sess[x] = agent.sess[x]
    BY <1>1, <2>1, ClosedEffect
  <2>. QED  BY <1>2, <1>3, <2>1, <2>2 DEF AgentKept, Known
<1>10. CASE HandleConfig(r)
  <2>1. req[r].sid \in Sessions
    BY <1>4, <1>10 DEF HandleConfig, Runs, OnSession
  <2>. QED  BY <1>1, <1>5, <1>10, <2>1, ConfigReaches, ReachesKeeps
<1>11. CASE HandleLogout(r)
  BY <1>1, <1>5, <1>11, LeaveCloudEffect DEF HandleLogout
<1>. QED  BY <1>6, <1>7, <1>8, <1>9, <1>10, <1>11 DEF Handle

LEMMA TurnKeepsAgent ==
    ASSUME IInv, NEW r \in Requests, TakeTurn(r) \/ Resume(r)
    PROVE  AgentKept(r)
<1>1. Coherent(agent) /\ RestTyped /\ Locks
  BY DEF IInv, TypeOK, RestTyped, Locks
<1>2. HasWorkspace(r)
  BY DEF TakeTurn, RejectPrompt, RunSlash, AskModel, Resume, Runs
<1>3. IsPlaced(r) /\ req[r].pc \in {"workspace", "resume"}
  BY DEF IInv, Placed, TakeTurn, RejectPrompt, RunSlash, AskModel, Resume, Runs
<1>4. req[r].kind = "prompt"
  BY <1>3 DEF IsPlaced, InTurn, TakeTurn, RejectPrompt, RunSlash, AskModel, Resume, Runs
<1>5. req[r].sid \in Sessions /\ req[r].turn \in Turns
  BY <1>3, <1>4 DEF IsPlaced, InLine, OnSession
<1>6. req'[r].sid = req[r].sid \/ ~InTurn(r)'
  <2>1. CASE Answer(r)
    BY <1>1, <2>1, AnswerEndsTurn
  <2>2. CASE ~Answer(r)
    <3>1. req[r] \in RequestType
      BY <1>1 DEF RestTyped
    <3>2. CASE AskModel(r)
      <4>1. PICK here : Wait(r, [req[r] EXCEPT !.pc = "infer", !.backend = here.live,
                                   !.before = IF here.live = Local THEN << >>
                                              ELSE HistoryOf(here, here.live)])
        BY <1>1, <1>5, <3>2, AskReaches
      <4>. QED  BY <1>1, <3>1, <4>1 DEF Wait, RestTyped, RequestType
    <3>3. CASE Resume(r)
      <4>1. \/ GoOn(r, req[r].round + 1) \/ GoOn(r, req[r].round)
            \/ req' = [req EXCEPT ![r].pc = "run", ![r].outcome = "none", ![r].released = FALSE]
        BY <2>2, <3>3, Zenon DEF Resume
      <4>2. CASE req' = [req EXCEPT ![r].pc = "run", ![r].outcome = "none",
                                    ![r].released = FALSE]
        BY <1>1, <3>1, <4>2 DEF RestTyped, RequestType
      <4>. QED  BY <1>1, <4>1, <4>2, GoOnKeepsTurn
    <3>4. ~(RejectPrompt(r) \/ RunSlash(r))
      BY <2>2 DEF RejectPrompt, RunSlash
    <3>. QED  BY <3>2, <3>3, <3>4 DEF TakeTurn
  <2>. QED  BY <2>1, <2>2
<1>7. /\ Reaches(agent, agent', req[r].sid)
      /\ InTurn(r)' => agent'.active = req[r].sid /\ Known(agent', req[r].sid)
  <2>1. CASE RejectPrompt(r) \/ RunSlash(r)
    <3>1. ~InTurn(r)'
      BY <1>1, <2>1, AnswerEndsTurn DEF RejectPrompt, RunSlash
    <3>. QED  BY <1>1, <1>5, <2>1, <3>1, RejectReaches, SlashReaches
  <2>2. CASE AskModel(r)
    BY <1>1, <1>5, <2>2, AskReaches
  <2>3. CASE Resume(r)
    <3>1. InTurn(r)
      BY <2>3 DEF Resume, InTurn
    <3>2. Known(agent, req[r].sid) /\ (~req[r].released => agent.active = req[r].sid)
      BY <3>1 DEF IInv, TurnsAreOpen, TurnsAreLive
    <3>3. Reaches(agent, agent', req[r].sid) /\ agent'.active = req[r].sid
      BY <1>1, <1>5, <2>3, <3>2, ResumeReaches
    <3>4. Known(agent', req[r].sid)
      BY <1>1, <1>5, <3>2, <3>3, ReachesKeeps
    <3>. QED  BY <3>3, <3>4
  <2>. QED  BY <2>1, <2>2, <2>3 DEF TakeTurn
<1>. QED  BY <1>1, <1>2, <1>5, <1>6, <1>7, ReachesKeeps DEF AgentKept

\* Arrivals, queueing, and the ends of a wait leave the agent alone.
Waits(r) ==
    \/ Arrive(r) \/ EnterWorkspace(r) \/ StartPrompt(r)
    \/ Answered(r) \/ CancelSeen(r) \/ ToolReturns(r)

LEMMA WaitsKeepTurn ==
    ASSUME IInv, NEW r \in Requests, Waits(r)
    PROVE  /\ agent' = agent
           /\ InTurn(r)' => /\ InTurn(r) /\ req'[r].sid = req[r].sid
                            /\ req'[r].backend = req[r].backend
                            /\ ~req'[r].released => ~req[r].released
<1>1. agent' = agent
  BY DEF Arrive, Submit, SubmitGlobal, Cancel, EnterWorkspace, StartPrompt, Answered,
         ReplyArrives, UserAnswers, CancelSeen, Return, ToolReturns, Waits
<1>2. Coherent(agent) /\ RestTyped /\ req[r] \in RequestType
  BY DEF IInv, TypeOK, RestTyped
<1>. DEFINE Same == /\ InTurn(r) /\ req'[r].sid = req[r].sid
                    /\ req'[r].backend = req[r].backend
                    /\ ~req'[r].released => ~req[r].released
<1>3. ASSUME NEW kind \in KindsSent, NEW s \in Sessions, Submit(r, kind, s)
      PROVE  ~InTurn(r)'
  <2>1. req'[r] = [Idle EXCEPT !.kind = kind, !.sid = s, !.pc = "session",
                               !.turn = IF kind = "prompt" THEN turns + 1 ELSE 0]
    BY <1>2, <1>3 DEF Submit, Signalled, RestTyped
  <2>. QED  BY <2>1 DEF InTurn, Idle
<1>4. ASSUME NEW kind \in KindsSent, SubmitGlobal(r, kind)
      PROVE  ~InTurn(r)'
  <2>1. req'[r] = [Idle EXCEPT !.kind = kind, !.pc = "workspace"]
    BY <1>2, <1>4 DEF SubmitGlobal, RestTyped
  <2>. QED  BY <2>1 DEF InTurn, Idle
<1>5. ASSUME Cancel(r), InTurn(r)' PROVE Same
  <2>1. req'[r] = [req[r] EXCEPT !.cancelled = TRUE]
    BY <1>2, <1>5 DEF Cancel, RestTyped
  <2>. QED  BY <1>2, <1>5, <2>1 DEF InTurn, RequestType
<1>6. ASSUME EnterWorkspace(r) \/ StartPrompt(r)
      PROVE  ~InTurn(r)'
  <2>1. CASE Answer(r)
    BY <1>2, <2>1, AnswerEndsTurn
  <2>2. CASE req' = [req EXCEPT ![r].pc = "workspace"]
    BY <1>2, <2>2 DEF InTurn, RestTyped, RequestType
  <2>. QED  BY <1>6, <2>1, <2>2 DEF EnterWorkspace, StartPrompt
<1>7. ASSUME NEW outcome, Return(r, outcome), InTurn(r) PROVE Same
  <2>1. req'[r] = [req[r] EXCEPT !.pc = "resume", !.outcome = outcome]
    BY <1>2, <1>7 DEF Return, RestTyped, RequestType
  <2>. QED  BY <1>2, <1>7, <2>1 DEF RequestType
<1>8. ASSUME Answered(r) \/ CancelSeen(r) PROVE Same
  BY <1>7, <1>8 DEF Answered, ReplyArrives, UserAnswers, CancelSeen, InTurn
<1>9. ASSUME ToolReturns(r), InTurn(r)' PROVE Same
  <2>1. InTurn(r) /\ ~req[r].released
    BY <1>9 DEF ToolReturns, InTurn, IInv, Holding, IsHolding
  <2>2. GoOn(r, req[r].round)
    BY <1>2, <1>9, AnswerEndsTurn DEF ToolReturns
  <2>. QED  BY <1>2, <2>1, <2>2, GoOnKeepsTurn
<1>10. InTurn(r)' => Same
  <2>. HIDE DEF Same
  <2>. QED  BY <1>3, <1>4, <1>5, <1>6, <1>8, <1>9 DEF Arrive, Waits
<1>. QED  BY <1>1, <1>10

LEMMA WaitsKeepAgent ==
    ASSUME IInv, NEW r \in Requests, Waits(r)
    PROVE  AgentKept(r)
BY WaitsKeepTurn DEF AgentKept, IInv, TurnsAreOpen, TurnsAreLive

LEMMA StepKeepsAgent ==
    ASSUME IInv, NEW r \in Requests, Step(r)
    PROVE  AgentKept(r)
BY WaitsKeepAgent, HandleKeepsAgent, TurnKeepsAgent DEF Step, Waits

LEMMA StepLocks ==
    ASSUME IInv, NEW r \in Requests, Step(r)
    PROVE  Locks'
<1>1. Locks /\ turns \in 0..MaxTurns /\ Coherent(agent) /\ agent \in AgentType
  BY DEF IInv, TypeOK, Locks, RestTyped
<1>2. KindsSent \subseteq Kinds
  BY KindsAssumption
<1>3. CASE Arrive(r)
  BY <1>1, <1>2, <1>3, SubmitLocks, SubmitGlobalLocks, CancelLocks DEF Arrive
<1>4. CASE EnterWorkspace(r)
  <2>1. /\ HasSession(r)
        /\ req' = [req EXCEPT ![r].pc = "workspace"]
        /\ workspace' = Append(workspace, r)
        /\ UNCHANGED <<present, line, closing>>
    BY <1>4 DEF EnterWorkspace
  <2>. QED  BY <1>1, <2>1, EnterLocks
<1>5. CASE StartPrompt(r)
  BY <1>1, <1>5, StartPromptLocks
<1>6. CASE Handle(r) \/ RejectPrompt(r) \/ RunSlash(r)
  BY <1>1, <1>6, HandlerLocks
<1>7. CASE AskModel(r)
  <2>1. IsPlaced(r) /\ req[r].kind = "prompt" /\ req[r].pc = "workspace"
    BY <1>1, <1>7 DEF Locks, Placed, AskModel, Runs
  <2>2. req[r].sid \in Sessions /\ req[r].turn \in Turns
    BY <2>1 DEF IsPlaced, InLine, OnSession
  <2>. QED  BY <1>1, <1>7, <2>2, AskReaches, AskModelLocks
<1>8. CASE Answered(r)
  <2>1. \E o \in Outcomes : Return(r, o) /\ req[r].pc \in {"infer", "ask"}
    BY <1>8 DEF Answered, ReplyArrives, UserAnswers
  <2>. QED  BY <1>1, <2>1, ReturnLocks
<1>9. CASE CancelSeen(r)
  <2>1. "cancelled" \in Outcomes
    BY DEF Outcomes
  <2>. QED  BY <1>1, <1>9, <2>1, ReturnLocks DEF CancelSeen
<1>10. CASE Resume(r)
  BY <1>1, <1>10, ResumeLocks
<1>11. CASE ToolReturns(r)
  BY <1>1, <1>11, ToolReturnsLocks
<1>. QED
  BY <1>3, <1>4, <1>5, <1>6, <1>7, <1>8, <1>9, <1>10, <1>11 DEF Step, TakeTurn

CountersTyped ==
    /\ turns \in 0..MaxTurns
    /\ others \in 0..MaxOthers
    /\ changes \in 0..MaxDirChanges
    /\ restarts \in 0..MaxRestarts

LEMMA StepCounts ==
    ASSUME CountersTyped, NEW r \in Requests, Step(r)
    PROVE  CountersTyped'
<1>1. ASSUME NEW kind \in KindsSent, NEW s \in Sessions, Submit(r, kind, s)
      PROVE  CountersTyped'
  BY <1>1, BoundsAssumption DEF CountersTyped, Submit
<1>2. ASSUME NEW kind \in KindsSent, SubmitGlobal(r, kind)
      PROVE  CountersTyped'
  BY <1>2, BoundsAssumption DEF CountersTyped, SubmitGlobal
<1>3. CASE UNCHANGED <<turns, others, changes, restarts>>
  BY <1>3 DEF CountersTyped
<1>4. \/ \E kind \in KindsSent, s \in Sessions : Submit(r, kind, s)
      \/ \E kind \in KindsSent : SubmitGlobal(r, kind)
      \/ UNCHANGED <<turns, others, changes, restarts>>
  BY DEF Step, Arrive, Cancel, EnterWorkspace, StartPrompt, Handle, HandleNew,
         HandleLoad, HandleFork, HandleClose, HandleConfig, HandleLogout, TakeTurn,
         RejectPrompt, RunSlash, AskModel, Answered, ReplyArrives, UserAnswers,
         CancelSeen, Return, Resume, ToolReturns
<1>. QED  BY <1>1, <1>2, <1>3, <1>4

LEMMA StepSaves ==
    ASSUME IInv, NEW r \in Requests, Step(r)
    PROVE  saved' \in [Sessions -> Copies \cup {NoCopy}]
<1>1. /\ saved \in [Sessions -> Copies \cup {NoCopy}]
      /\ Coherent(agent) /\ Locks /\ RestTyped
  BY DEF IInv, TypeOK, Copies, Locks, RestTyped
<1>2. CASE saved' = saved
  BY <1>1, <1>2
<1>3. CASE HandleClose(r)
  <2>1. \E copy \in {saved[req[r].sid], NoCopy} :
           saved' = [saved EXCEPT ![req[r].sid] = copy]
    BY <1>3 DEF HandleClose
  <2>. QED  BY <1>1, <2>1
<1>4. CASE RunSlash(r)
  <2>1. saved' = saved \/ saved' = [saved EXCEPT ![req[r].sid] = NoCopy]
    BY <1>4 DEF RunSlash
  <2>. QED  BY <1>1, <2>1
<1>5. CASE Resume(r)
  <2>. DEFINE s == req[r].sid
  <2>1. InTurn(r)
    BY <1>5 DEF Resume, InTurn
  <2>2. /\ s \in Sessions /\ Known(agent, s)
        /\ ~req[r].released => agent.active = s
    BY <1>1, <2>1, TurnIsPrompt DEF IInv, TurnsAreOpen, TurnsAreLive
  <2>. SUFFICES ASSUME NEW a \in AgentType, Known(a, s),
                       saved' = [saved EXCEPT ![s] = SavedCopy(a, r)]
                PROVE  saved' \in [Sessions -> Copies \cup {NoCopy}]
    BY <1>1, <1>2, <1>5, <2>2, ResumeReaches
  <2>3. HistoryOf(a, req[r].backend) \in Conversations
    BY <1>1, HistoryType DEF RestTyped, RequestType
  <2>4. a.sess[s].model \in Models
    BY <2>2 DEF AgentType, SessionStates, Known
  <2>5. SavedCopy(a, r) \in Copies
    BY <2>3, <2>4 DEF SavedCopy, Copies
  <2>. QED  BY <1>1, <2>2, <2>5
<1>6. saved' = saved \/ HandleClose(r) \/ RunSlash(r) \/ Resume(r)
  BY DEF Step, Arrive, Submit, SubmitGlobal, Cancel, EnterWorkspace, StartPrompt,
         Handle, HandleNew, HandleLoad, HandleFork, HandleConfig, HandleLogout,
         TakeTurn, RejectPrompt, AskModel, Answered, ReplyArrives, UserAnswers,
         CancelSeen, Return, ToolReturns
<1>. QED  BY <1>2, <1>3, <1>4, <1>5, <1>6

LEMMA StepKeepsInvariant ==
    ASSUME IInv, NEW r \in Requests, Step(r)
    PROVE  IInv'
<1>1. AgentKept(r) /\ Locks'
  BY StepKeepsAgent, StepLocks
<1>2. TypeOK'
  <2>1. CountersTyped'
    BY StepCounts DEF IInv, TypeOK, CountersTyped
  <2>2. saved' \in [Sessions -> Copies \cup {NoCopy}]
    BY StepSaves
  <2>3. agent' \in AgentType
    BY <1>1 DEF AgentKept, Coherent
  <2>. QED  BY <1>1, <2>1, <2>2, <2>3 DEF TypeOK, Locks, RestTyped, CountersTyped, Copies
<1>3. ASSUME NEW x \in Requests, x # r
      PROVE  Untouched(x)
  BY <1>3, StepTouchesOwn DEF IInv, TypeOK, RestTyped
<1>4. TurnsAreOpen'
  <2>. SUFFICES ASSUME NEW x \in Requests, x # r, InTurn(x)'
                PROVE  Known(agent', req'[x].sid)
    BY <1>1 DEF TurnsAreOpen, AgentKept
  <2>1. InTurn(x) /\ req'[x].sid = req[x].sid
    BY <1>3 DEF InTurn, Untouched
  <2>2. Known(agent, req[x].sid)
    BY <2>1 DEF IInv, TurnsAreOpen
  <2>3. /\ req[x].kind = "prompt" /\ req[x].pc \notin {"idle", "session"}
        /\ req[x].sid \in Sessions
    BY <2>1, TurnIsPrompt DEF IInv, TypeOK, Locks, RestTyped
  <2>4. ~(req[r].sid = req[x].sid /\ req[r].kind = "close" /\ req[r].pc = "workspace")
    BY <2>3, OneOwner DEF IInv, OnSession
  <2>. QED  BY <1>1, <2>1, <2>2, <2>3, <2>4 DEF AgentKept
<1>5. TurnsAreLive'
  <2>. SUFFICES ASSUME NEW x \in Requests, x # r, InTurn(x)', ~req'[x].released
                PROVE  agent'.active = req'[x].sid
    BY <1>1 DEF TurnsAreLive, AgentKept
  <2>1. InTurn(x) /\ req'[x].sid = req[x].sid /\ ~req[x].released
    BY <1>3 DEF InTurn, Untouched
  <2>2. HasWorkspace(x) /\ agent.active = req[x].sid
    BY <2>1 DEF IInv, Holding, IsHolding, TurnsAreLive
  <2>3. ~HasWorkspace(r)
    BY <2>2 DEF HasWorkspace
  <2>. QED  BY <1>1, <2>1, <2>2, <2>3 DEF AgentKept
<1>. QED  BY <1>1, <1>2, <1>4, <1>5 DEF IInv, AgentKept, Locks

LEMMA StartStateType ==
    ASSUME NEW selected \in LocalModels, NEW localInference \in BOOLEAN,
           NEW signedIn \in BOOLEAN
    PROVE  Coherent(StartState(selected, localInference, signedIn))
<1>. DEFINE a == StartState(selected, localInference, signedIn)
            first == IF Provider THEN CHOOSE b \in Backends : TRUE ELSE Local
<1>1. first \in Backends \cup {Local}
  BY FreshBackend
<1>. HIDE DEF first
<1>2. /\ [active |-> NoSession, procDir |-> NoSession, live |-> first,
          model |-> selected, selected |-> selected,
          localInference |-> localInference, signedIn |-> signedIn,
          weights |-> "none", engine |-> << >>, pending |-> NoHistory,
          hist |-> [b \in Backends |-> << >>],
          sess |-> [s \in Sessions |-> NoState]] \in AgentType
  BY <1>1, NoTurnsType DEF AgentType, Models
<1>3. a \in AgentType /\ a.active = NoSession /\ \A s \in Sessions : ~Known(a, s)
  BY <1>2 DEF StartState, first, Known
<1>. HIDE DEF a
<1>4. Coherent(a)
  BY <1>3 DEF Coherent, ActiveIsKnown, Owned, Holds
<1>. QED  BY <1>4 DEF a

LEMMA InitInvariant ==
    ASSUME Init
    PROVE  IInv
<1>1. Coherent(agent)
  <2>1. DefaultLocal \in LocalModels /\ TRUE \in BOOLEAN /\ (~Provider) \in BOOLEAN
    BY ModelsAssumption
  <2>. QED  BY <2>1, StartStateType DEF Init
<1>2. TypeOK
  <2>1. agent \in AgentType
    BY <1>1 DEF Coherent
  <2>2. req \in [Requests -> RequestType]
    BY IdleType DEF Init
  <2>3. line \in [Sessions -> Seq(Requests)] /\ workspace \in Seq(Requests)
    BY DEF Init
  <2>4. saved \in [Sessions -> [conv : Conversations, model : Models] \cup {NoCopy}]
    BY DEF Init
  <2>5. CountersTyped
    BY BoundsAssumption DEF Init, CountersTyped
  <2>6. present \in SUBSET Dirs /\ closing \in SUBSET Sessions
    BY DEF Init
  <2>. QED  BY <2>1, <2>2, <2>3, <2>4, <2>5, <2>6 DEF TypeOK, CountersTyped
<1>3. \A r \in Requests : req[r] = Idle
  BY DEF Init
<1>4. Idle.pc = "idle"
  BY DEF Idle
<1>. QED  BY <1>1, <1>2, <1>3, <1>4 DEF IInv, Placed, IsPlaced, Holding, IsHolding,
             TurnsAreOpen, TurnsAreLive, InTurn

LEMMA RestartKeepsInvariant ==
    ASSUME IInv, Restart
    PROVE  IInv'
<1>1. Locks'
  BY RestartLocks DEF IInv, TypeOK, Locks, RestTyped
<1>2. Coherent(agent')
  <2>1. agent.selected \in LocalModels /\ agent.localInference \in BOOLEAN
        /\ agent.signedIn \in BOOLEAN
    BY DEF IInv, TypeOK, AgentType
  <2>. QED  BY <2>1, StartStateType DEF Restart
<1>3. \A r \in Requests : req'[r] = Idle
  BY DEF Restart
<1>4. Idle.pc = "idle"
  BY DEF Idle
<1>5. TypeOK'
  <2>1. agent' \in AgentType
    BY <1>2 DEF Coherent
  <2>2. /\ saved' = saved /\ turns' = turns /\ others' = others /\ changes' = changes
        /\ restarts' \in 0..MaxRestarts
    BY BoundsAssumption DEF Restart, IInv, TypeOK
  <2>. QED  BY <1>1, <2>1, <2>2 DEF IInv, TypeOK, Locks, RestTyped
<1>. QED  BY <1>1, <1>2, <1>3, <1>4, <1>5 DEF IInv, Locks, TurnsAreOpen, TurnsAreLive, InTurn

LEMMA DirKeepsInvariant ==
    ASSUME IInv, NEW d \in Dirs, ChangeDir(d)
    PROVE  IInv'
<1>1. /\ UNCHANGED <<agent, saved, line, workspace, closing, req, turns, others, restarts>>
      /\ present' \in SUBSET Dirs
      /\ changes' \in 0..MaxDirChanges
  BY BoundsAssumption DEF ChangeDir, IInv, TypeOK
<1>2. Locks'
  BY <1>1, LocksUnchanged DEF IInv, TypeOK, Locks, RestTyped
<1>. QED
  BY <1>1, <1>2 DEF IInv, TypeOK, Locks, RestTyped, TurnsAreOpen, TurnsAreLive, InTurn,
     Coherent, Owned, ActiveIsKnown, Holds, Known

LEMMA IdleKeepsInvariant ==
    ASSUME IInv, UNCHANGED vars
    PROVE  IInv'
BY DEF IInv, TypeOK, vars, Placed, IsPlaced, InLine, Holding, IsHolding, HasWorkspace,
       TurnsAreOpen, TurnsAreLive, InTurn, Coherent, Owned, ActiveIsKnown, Holds, Known

LEMMA NextIsStep ==
    ASSUME [Next]_vars
    PROVE  \/ \E r \in Requests : Step(r)
           \/ \E d \in Dirs : ChangeDir(d)
           \/ Restart
           \/ UNCHANGED vars
BY Zenon DEF Next, Step, Rest

LEMMA NextKeepsInvariant ==
    ASSUME IInv, [Next]_vars
    PROVE  IInv'
BY NextIsStep, StepKeepsInvariant, DirKeepsInvariant, RestartKeepsInvariant,
   IdleKeepsInvariant

\* The inductive invariant: the agent's state hangs together, and each request
\* stands where its step says in the queue of its session and of the workspace
\* (lock_session, WorkspaceHold, handle_prompt and the other handlers, main.rs).
THEOREM Invariant == Spec => []IInv
<1>1. Init => IInv
  BY InitInvariant
<1>2. IInv /\ [Next]_vars => IInv'
  BY NextKeepsInvariant
<1>. QED  BY <1>1, <1>2, PTL DEF Spec

\* Every variable stays in its type: the agent and its parked sessions, the two
\* queues, the requests and the saved copies (SiGitAgent, SessionState,
\* WorkspaceHold, main.rs).
THEOREM TypeCorrect == Spec => []TypeOK
<1>1. IInv => TypeOK
  BY DEF IInv
<1>. QED  BY <1>1, Invariant, PTL

\* However sessions are parked, installed, moved to another model, closed or
\* restored, and whatever turns are waiting meanwhile, no two sessions hold one
\* HTTP backend, and none is parked with the live one (park_active_session,
\* install_session, install_remote_backend).
THEOREM BackendsOwned == Spec => []BackendsAreOwned
<1>1. IInv => BackendsAreOwned
  BY Zenon DEF IInv, Coherent, Owned, Holds, BackendsAreOwned
<1>. QED  BY <1>1, Invariant, PTL

\* The session of a turn stays open until the turn has ended: a close that
\* crosses the turn waits for it (handle_close_session, the session's lock).
THEOREM TurnsKeepTheirSession == Spec => []TurnsAreOpen
<1>1. IInv => TurnsAreOpen
  BY DEF IInv
<1>. QED  BY <1>1, Invariant, PTL

-----------------------------------------------------------------------------
(* A tool runs where its session is *)

\* Located, of any agent.
IsLocated(a) == a.active # NoSession =>
                   \/ a.procDir = a.sess[a.active].cwd
                   \/ a.sess[a.active].cwd \notin present

LEMMA VisitedIsLocated ==
    ASSUME NEW a, NEW b, NEW s \in Sessions, Visited(a, b, s)
    PROVE  IsLocated(b)
BY DEF Visited, IsLocated

LEMMA MovesKeepLocated ==
    ASSUME NEW a, NEW b, Coherent(a), IsLocated(a), Moves(a, b)
    PROVE  IsLocated(b)
BY DEF Moves, IsLocated, Coherent, ActiveIsKnown

LEMMA ReachesKeepLocated ==
    ASSUME NEW a, NEW b, NEW s \in Sessions, Coherent(a), IsLocated(a), Reaches(a, b, s)
    PROVE  IsLocated(b)
BY VisitedIsLocated, MovesKeepLocated DEF Reaches

LEMMA StepKeepsLocated ==
    ASSUME IInv, Located, NEW r \in Requests, Step(r)
    PROVE  IsLocated(agent')
<1>1. /\ Coherent(agent) /\ Typed /\ RestTyped /\ Locks /\ IsLocated(agent)
      /\ agent.active # NoSession => agent.active \in Sessions /\ Known(agent, agent.active)
  BY DEF IInv, TypeOK, Typed, Copies, RestTyped, Locks, Located, IsLocated, Coherent,
         ActiveIsKnown
<1>2. req[r].pc \notin {"idle", "session"} /\ OnSession(req[r].kind) => req[r].sid \in Sessions
  BY <1>1 DEF Locks, Placed, IsPlaced, InLine
<1>3. InTurn(r) => /\ req[r].sid \in Sessions /\ Known(agent, req[r].sid)
                   /\ ~req[r].released => agent.active = req[r].sid
  BY <1>1, TurnIsPrompt DEF IInv, TurnsAreOpen, TurnsAreLive
<1>4. CASE HandleNew(r)
  BY <1>1, <1>4, NewReaches, VisitedIsLocated
<1>5. CASE HandleLoad(r)
  <2>1. req[r].sid \in Sessions
    BY <1>2, <1>5 DEF HandleLoad, Runs, OnSession
  <2>2. ASSUME agent' = Park(agent), agent.active # NoSession
        PROVE  IsLocated(agent')
    <3>1. /\ agent'.active = agent.active /\ agent'.procDir = agent.procDir
          /\ agent'.sess[agent.active] = ParkedState(agent)
      BY <1>1, <2>2, ParkCoherent
    <3>2. ParkedState(agent).cwd = agent.sess[agent.active].cwd
      BY <1>1, <2>2 DEF ParkedState, Coherent, AgentType, SessionStates, Known
    <3>. QED  BY <1>1, <3>1, <3>2 DEF IsLocated
  <2>3. ASSUME agent' = Park(agent), agent.active = NoSession
        PROVE  IsLocated(agent')
    BY <2>3 DEF Park, IsLocated
  <2>. QED  BY <1>1, <1>5, <2>1, <2>2, <2>3, LoadReaches, VisitedIsLocated
<1>6. CASE HandleFork(r)
  <2>1. req[r].sid \in Sessions
    BY <1>2, <1>6 DEF HandleFork, Runs, OnSession
  <2>. QED  BY <1>1, <1>6, <2>1, ForkReaches, VisitedIsLocated
<1>7. CASE HandleClose(r)
  <2>1. req[r].sid \in Sessions /\ agent' = ClosedAgent(agent, req[r].sid)
    BY <1>2, <1>7 DEF HandleClose, Runs, OnSession
  <2>. QED  BY <1>1, <2>1, ClosedEffect DEF IsLocated
<1>8. CASE HandleConfig(r)
  <2>1. req[r].sid \in Sessions
    BY <1>2, <1>8 DEF HandleConfig, Runs, OnSession
  <2>. QED  BY <1>1, <1>8, <2>1, ConfigReaches, ReachesKeepLocated
<1>9. CASE HandleLogout(r)
  BY <1>1, <1>9, LeaveCloudEffect DEF HandleLogout, IsLocated
<1>10. CASE TakeTurn(r)
  <2>1. req[r].sid \in Sessions /\ req[r].turn \in Turns
    <3>1. IsPlaced(r) /\ req[r].pc = "workspace" /\ req[r].kind = "prompt"
      BY <1>1, <1>10 DEF Locks, Placed, TakeTurn, RejectPrompt, RunSlash, AskModel, Runs
    <3>. QED  BY <3>1 DEF IsPlaced, InLine, OnSession
  <2>. QED
    BY <1>1, <1>10, <2>1, RejectReaches, SlashReaches, AskReaches, ReachesKeepLocated
       DEF TakeTurn
<1>11. CASE Resume(r)
  <2>1. InTurn(r)
    BY <1>11 DEF Resume, InTurn
  <2>. QED  BY <1>1, <1>3, <1>11, <2>1, ResumeReaches, ReachesKeepLocated
<1>12. CASE Waits(r)
  BY <1>1, <1>12, WaitsKeepTurn
<1>. QED
  BY <1>4, <1>5, <1>6, <1>7, <1>8, <1>9, <1>10, <1>11, <1>12 DEF Step, Handle, Waits

LEMMA StepLocatesTurn ==
    ASSUME IInv, Located, TurnsAreLocated, NEW r \in Requests, Step(r),
           InTurn(r)', ~req'[r].released
    PROVE  agent'.procDir = agent'.sess[req'[r].sid].cwd
<1>1. Coherent(agent) /\ RestTyped /\ Locks
  BY DEF IInv, TypeOK, RestTyped, Locks
<1>2. AgentKept(r) /\ IsLocated(agent')
  BY StepKeepsAgent, StepKeepsLocated
<1>3. /\ agent'.active = req'[r].sid
      /\ agent'.active # NoSession
      /\ agent'.active \in Sessions
  <2>1. agent'.active = req'[r].sid /\ Known(agent', agent'.active) /\ Coherent(agent')
    BY <1>2 DEF AgentKept
  <2>2. Locks' /\ InTurn(r)'
    BY StepLocks
  <2>3. req'[r].sid \in Sessions
    BY <2>2 DEF Locks, Placed, IsPlaced, InLine, InTurn, OnSession
  <2>. QED  BY <2>1, <2>3, MarkersAssumption
<1>4. agent'.sess[agent'.active].cwd \in present => agent'.procDir = agent'.sess[req'[r].sid].cwd
  BY <1>2, <1>3 DEF IsLocated
<1>5. ~Answer(r)
  BY <1>1, AnswerEndsTurn
<1>6. CASE AskModel(r)
  <2>1. IsPlaced(r) /\ req[r].pc = "workspace" /\ req[r].kind = "prompt"
    BY <1>1, <1>6 DEF Locks, Placed, AskModel, Runs
  <2>2. req[r].sid \in Sessions /\ req[r].turn \in Turns
    BY <2>1 DEF IsPlaced, InLine, OnSession
  <2>. QED  BY <1>1, <1>4, <1>6, <2>2, AskReaches
<1>7. CASE Resume(r)
  <2>1. InTurn(r)
    BY <1>7 DEF Resume, InTurn
  <2>2. /\ req[r].sid \in Sessions /\ Known(agent, req[r].sid)
        /\ ~req[r].released => agent.active = req[r].sid
    BY <1>1, <2>1, TurnIsPrompt DEF IInv, TurnsAreOpen, TurnsAreLive
  <2>3. /\ agent'.active = req[r].sid
        /\ \/ ~req[r].released /\ agent' = agent
           \/ agent'.sess[req[r].sid].cwd \in present
    BY <1>1, <1>7, <2>2, ResumeReaches
  <2>. QED  BY <1>3, <1>4, <2>1, <2>3 DEF TurnsAreLocated
<1>8. CASE Waits(r)
  BY <1>8, WaitsKeepTurn DEF TurnsAreLocated
<1>9. ~(Handle(r) \/ RejectPrompt(r) \/ RunSlash(r))
  BY <1>5 DEF Handle, HandleNew, HandleLoad, HandleFork, HandleClose, HandleConfig,
     HandleLogout, RejectPrompt, RunSlash
<1>. QED  BY <1>6, <1>7, <1>8, <1>9 DEF Step, TakeTurn, Waits

LInv == IInv /\ Located /\ TurnsAreLocated

LEMMA StepKeepsPlace ==
    ASSUME LInv, NEW r \in Requests, Step(r), present' \subseteq present
    PROVE  Located' /\ TurnsAreLocated'
<1>. USE DEF LInv
<1>1. IsLocated(agent') /\ AgentKept(r)
  BY StepKeepsLocated, StepKeepsAgent
<1>2. Located'
  BY <1>1 DEF IsLocated, Located
<1>3. ASSUME NEW x \in Requests, InTurn(x)', ~req'[x].released
      PROVE  agent'.procDir = agent'.sess[req'[x].sid].cwd
  <2>1. CASE x = r
    BY <1>3, <2>1, StepLocatesTurn
  <2>2. CASE x # r
    <3>1. Untouched(x)
      BY <2>2, StepTouchesOwn DEF IInv, TypeOK, RestTyped
    <3>2. InTurn(x) /\ req'[x].sid = req[x].sid /\ ~req[x].released
      BY <1>3, <3>1 DEF InTurn, Untouched
    <3>3. HasWorkspace(x)
      BY <3>2 DEF IInv, Holding, IsHolding
    <3>4. ~HasWorkspace(r)
      BY <2>2, <3>3 DEF HasWorkspace
    <3>. QED  BY <1>1, <3>2, <3>4 DEF AgentKept, TurnsAreLocated
  <2>. QED  BY <2>1, <2>2
<1>. QED  BY <1>2, <1>3 DEF TurnsAreLocated

\* A tool call runs with its own session live and in its session's directory,
\* however often other sessions were put in place while its turn waited, as long
\* as no directory that was removed comes back (reinstall_for_tools, main.rs
\* 2628-2650, enter_session_cwd).  If one comes back, the directory of the
\* process may still be another session's, as the run workspace_dir_returns shows.
THEOREM ToolsStayInTheirSession ==
    Spec /\ [][present' \subseteq present]_vars => []ToolsRunInTheirSession
<1>1. Init => LInv
  <2>1. ASSUME Init PROVE Located /\ TurnsAreLocated
    <3>1. \A r \in Requests : ~InTurn(r)
      BY <2>1 DEF Init, Idle, InTurn
    <3>2. agent.active = NoSession
      BY <2>1 DEF Init, StartState
    <3>. QED  BY <3>1, <3>2 DEF Located, TurnsAreLocated
  <2>. QED  BY <2>1, InitInvariant DEF LInv
<1>2. LInv /\ [Next]_vars /\ [present' \subseteq present]_vars => LInv'
  <2>. SUFFICES ASSUME LInv, [Next]_vars, [present' \subseteq present]_vars
                PROVE  Located' /\ TurnsAreLocated'
    BY NextKeepsInvariant DEF LInv
  <2>1. present' \subseteq present
    BY DEF vars
  <2>2. CASE \E r \in Requests : Step(r)
    BY <2>1, <2>2, StepKeepsPlace
  <2>3. CASE UNCHANGED <<agent, req>>
    BY <2>1, <2>3 DEF LInv, Located, TurnsAreLocated, InTurn
  <2>4. CASE Restart
    <3>1. \A r \in Requests : ~InTurn(r)'
      BY <2>4 DEF Restart, Idle, InTurn
    <3>2. agent'.active = NoSession
      BY <2>4 DEF Restart, StartState
    <3>. QED  BY <3>1, <3>2 DEF Located, TurnsAreLocated
  <2>. QED  BY <2>2, <2>3, <2>4, NextIsStep DEF ChangeDir, vars
<1>3. LInv => ToolsRunInTheirSession
  <2>. SUFFICES ASSUME LInv, NEW r \in Requests, req[r].pc = "run"
                PROVE  /\ agent.active = req[r].sid
                       /\ agent.procDir = agent.sess[req[r].sid].cwd
    BY DEF ToolsRunInTheirSession
  <2>1. InTurn(r) /\ ~req[r].released
    BY DEF LInv, IInv, Holding, IsHolding, InTurn
  <2>. QED  BY <2>1 DEF LInv, IInv, TurnsAreLive, TurnsAreLocated
<1>. QED  BY <1>1, <1>2, <1>3, PTL DEF Spec

-----------------------------------------------------------------------------
(* Cancelled turns and closing sessions *)

\* A request that is handled stays what it is, and stays cancelled, until it is
\* answered.
LEMMA StepKeepsRequest ==
    ASSUME RestTyped, NEW r \in Requests, Step(r), req[r].pc # "idle", ~Answer(r)
    PROVE  /\ req'[r].kind = req[r].kind /\ req'[r].sid = req[r].sid
           /\ req[r].cancelled => req'[r].cancelled
<1>1. req[r] \in RequestType /\ req \in [Requests -> RequestType]
  BY DEF RestTyped
<1>2. \A pc \in PCs : req' = [req EXCEPT ![r].pc = pc] =>
         /\ req'[r].kind = req[r].kind /\ req'[r].sid = req[r].sid
         /\ req'[r].cancelled = req[r].cancelled
  BY <1>1 DEF RequestType
<1>3. CASE Arrive(r)
  <2>1. Cancel(r)
    BY <1>3 DEF Arrive, Submit, SubmitGlobal
  <2>2. req'[r] = [req[r] EXCEPT !.cancelled = TRUE]
    BY <1>1, <2>1 DEF Cancel
  <2>. QED  BY <1>1, <2>2 DEF RequestType
<1>4. CASE EnterWorkspace(r) \/ StartPrompt(r)
  <2>1. req' = [req EXCEPT ![r].pc = "workspace"]
    BY <1>4 DEF EnterWorkspace, StartPrompt
  <2>. QED  BY <1>2, <2>1 DEF PCs
<1>5. CASE Answered(r) \/ CancelSeen(r)
  <2>1. \E o : Return(r, o)
    BY <1>5 DEF Answered, CancelSeen, ReplyArrives, UserAnswers
  <2>. QED  BY <1>1, <2>1 DEF Return, RequestType
<1>6. CASE AskModel(r)
  <2>1. \E live, before : Wait(r, [req[r] EXCEPT !.pc = "infer", !.backend = live,
                                                 !.before = before])
    BY <1>6 DEF AskModel
  <2>2. PICK live, before : Wait(r, [req[r] EXCEPT !.pc = "infer", !.backend = live,
                                                   !.before = before])
    BY <2>1
  <2>. QED  BY <1>1, <2>2 DEF Wait, RequestType
<1>7. CASE Resume(r) \/ ToolReturns(r)
  <2>1. \/ GoOn(r, req[r].round + 1) \/ GoOn(r, req[r].round)
        \/ req' = [req EXCEPT ![r].pc = "run", ![r].outcome = "none", ![r].released = FALSE]
    BY <1>7, Zenon DEF Resume, ToolReturns
  <2>2. CASE req' = [req EXCEPT ![r].pc = "run", ![r].outcome = "none", ![r].released = FALSE]
    BY <1>1, <2>2 DEF RequestType
  <2>. QED  BY <2>1, <2>2, GoOnKeepsTurn
<1>8. ~(Handle(r) \/ RejectPrompt(r) \/ RunSlash(r))
  BY DEF Handle, HandleNew, HandleLoad, HandleFork, HandleClose, HandleConfig,
     HandleLogout, RejectPrompt, RunSlash
<1>. QED  BY <1>3, <1>4, <1>5, <1>6, <1>7, <1>8 DEF Step, TakeTurn

\* How a prompt gets to the model, and a turn to a tool.
LEMMA StepToModel ==
    ASSUME RestTyped, NEW r \in Requests, Step(r)
    PROVE  /\ req[r].pc \in {"session", "workspace"} /\ req'[r].pc = "infer" => AskModel(r)
           /\ req'[r].pc = "run" => req[r].pc = "run" \/ ~req[r].cancelled
<1>1. req[r] \in RequestType /\ req \in [Requests -> RequestType]
  BY DEF RestTyped
<1>2. CASE \E kind \in KindsSent, s \in Sessions : Submit(r, kind, s)
  <2>1. PICK kind \in KindsSent, s \in Sessions : Submit(r, kind, s)
    BY <1>2
  <2>2. req'[r] = [Idle EXCEPT !.kind = kind, !.sid = s, !.pc = "session",
                               !.turn = IF kind = "prompt" THEN turns + 1 ELSE 0]
    BY <1>1, <2>1 DEF Submit, Signalled
  <2>. QED  BY <2>2 DEF Idle
<1>3. CASE \E kind \in KindsSent : SubmitGlobal(r, kind)
  <2>1. \E kind : req'[r] = [Idle EXCEPT !.kind = kind, !.pc = "workspace"]
    BY <1>1, <1>3 DEF SubmitGlobal
  <2>. QED  BY <2>1 DEF Idle
<1>4. CASE Cancel(r)
  <2>1. req'[r] = [req[r] EXCEPT !.cancelled = TRUE]
    BY <1>1, <1>4 DEF Cancel
  <2>. QED  BY <1>1, <2>1 DEF RequestType
<1>5. CASE Answer(r)
  BY <1>1, <1>5 DEF Answer, Idle
<1>6. CASE ~Answer(r) /\ (EnterWorkspace(r) \/ StartPrompt(r))
  <2>1. req' = [req EXCEPT ![r].pc = "workspace"]
    BY <1>6 DEF EnterWorkspace, StartPrompt
  <2>. QED  BY <1>1, <2>1 DEF RequestType
<1>7. CASE Answered(r) \/ CancelSeen(r)
  <2>1. (\E o : Return(r, o)) /\ req[r].pc \in {"infer", "ask"}
    BY <1>7 DEF Answered, CancelSeen, ReplyArrives, UserAnswers
  <2>. QED  BY <1>1, <2>1 DEF Return, RequestType
<1>8. CASE AskModel(r)
  BY <1>8 DEF AskModel
<1>9. CASE ~Answer(r) /\ Resume(r)
  <2>1. req[r].pc = "resume" /\ ~req[r].cancelled
    BY <1>9, Zenon DEF Resume, Interrupted
  <2>. QED  BY <2>1
<1>10. CASE ToolReturns(r)
  BY <1>10 DEF ToolReturns
<1>11. Handle(r) \/ RejectPrompt(r) \/ RunSlash(r) => Answer(r)
  BY DEF Handle, HandleNew, HandleLoad, HandleFork, HandleClose, HandleConfig,
     HandleLogout, RejectPrompt, RunSlash
<1>. QED
  BY <1>2, <1>3, <1>4, <1>5, <1>6, <1>7, <1>8, <1>9, <1>10, <1>11
     DEF Step, Arrive, TakeTurn

\* Once a turn is cancelled it starts no tool: an approval that crosses the
\* cancellation does not get through, nor a turn that was waiting for the
\* workspace (PromptCancellation, main.rs 3932-3938).
THEOREM CancelledTurnsStop == Spec => CancelledTurnStartsNoTool
<1>1. ASSUME IInv, [Next]_vars, NEW r \in Requests, req[r].cancelled, req'[r].pc = "run"
      PROVE  req[r].pc = "run"
  <2>1. RestTyped
    BY <1>1 DEF IInv, TypeOK, RestTyped
  <2>2. CASE \E x \in Requests : Step(x)
    <3>1. PICK x \in Requests : Step(x)
      BY <2>2
    <3>2. CASE x = r
      BY <1>1, <2>1, <3>1, <3>2, StepToModel
    <3>3. CASE x # r
      <4>1. Untouched(r)
        BY <2>1, <3>1, <3>3, StepTouchesOwn
      <4>. QED  BY <1>1, <4>1 DEF Untouched
    <3>. QED  BY <3>2, <3>3
  <2>3. CASE Restart
    BY <1>1, <2>3 DEF Restart, Idle
  <2>4. CASE req' = req
    BY <1>1, <2>4
  <2>. QED  BY <1>1, <2>2, <2>3, <2>4, NextIsStep DEF ChangeDir, vars
<1>2. IInv /\ [Next]_vars =>
        [\A r \in Requests :
           (req[r].cancelled /\ req'[r].pc = "run") => req[r].pc = "run"]_vars
  BY <1>1
<1>. QED  BY <1>2, Invariant, PTL DEF Spec, CancelledTurnStartsNoTool

\* A close in flight.
Closes(c) == req[c].kind = "close" /\ req[c].pc # "idle"

\* A session with a close in flight is marked as closing; it has one such close,
\* and a prompt that is registered on it has been told.
ClosingIsMarked ==
    /\ \A c \in Requests : Closes(c) => req[c].sid \in closing
    /\ \A c, d \in Requests : Closes(c) /\ Closes(d) /\ req[c].sid = req[d].sid => c = d
    /\ \A c, r \in Requests : Closes(c) /\ Registered(r) /\ req[c].sid = req[r].sid
                                => req[r].cancelled

LEMMA StepMarks ==
    ASSUME RestTyped, NEW r \in Requests, Step(r)
    PROVE  \/ closing' = closing
           \/ \E s \in Sessions : Submit(r, "close", s) /\ closing' = closing \cup {s}
           \/ Closes(r) /\ Answer(r) /\ closing' = closing \ {req[r].sid}
BY DEF Step, Arrive, Submit, SubmitGlobal, Cancel, EnterWorkspace, StartPrompt, Handle,
       HandleNew, HandleLoad, HandleFork, HandleClose, HandleConfig, HandleLogout,
       TakeTurn, RejectPrompt, RunSlash, AskModel, Answered, ReplyArrives, UserAnswers,
       CancelSeen, Return, Resume, ToolReturns, Runs, Closes

\* A slot that is not in use takes a request from the client.
LEMMA FromIdle ==
    ASSUME RestTyped, NEW r \in Requests, Step(r), req[r].pc = "idle"
    PROVE  \/ \E kind \in KindsSent, s \in Sessions :
                Submit(r, kind, s) /\ req'[r].kind = kind /\ req'[r].pc = "session"
           \/ req'[r].kind \in KindsSent \ {"prompt", "close"}
<1>1. Arrive(r) /\ ~Cancel(r)
  <2>1. ~(HasSession(r) \/ (\E kind : Runs(r, kind)))
    BY DEF HasSession, Runs
  <2>. QED
    BY <2>1 DEF Step, EnterWorkspace, StartPrompt, Handle, HandleNew, HandleLoad,
       HandleFork, HandleClose, HandleConfig, HandleLogout, TakeTurn, RejectPrompt,
       RunSlash, AskModel, Answered, ReplyArrives, UserAnswers, CancelSeen, Resume,
       ToolReturns, Cancel, Registered
<1>2. CASE \E kind \in KindsSent : SubmitGlobal(r, kind)
  BY <1>2 DEF SubmitGlobal, OnSession, Idle, RestTyped
<1>3. CASE \E kind \in KindsSent, s \in Sessions : Submit(r, kind, s)
  <2>1. PICK kind \in KindsSent, s \in Sessions : Submit(r, kind, s)
    BY <1>3
  <2>2. req'[r] = [Idle EXCEPT !.kind = kind, !.sid = s, !.pc = "session",
                               !.turn = IF kind = "prompt" THEN turns + 1 ELSE 0]
    BY <2>1 DEF Submit, Signalled, RestTyped
  <2>3. req'[r].kind = kind /\ req'[r].pc = "session"
    BY <2>2 DEF Idle
  <2>. QED  BY <2>1, <2>3
<1>. QED  BY <1>1, <1>2, <1>3 DEF Arrive

\* A close arrives: its session is marked, and the turn on it is told.
LEMMA SubmitCloseMarks ==
    ASSUME RestTyped, ClosingIsMarked, ~MayRepeatClose, NEW r \in Requests,
           NEW s \in Sessions, Submit(r, "close", s)
    PROVE  ClosingIsMarked'
<1>. USE DEF RestTyped
<1>. DEFINE st == [Idle EXCEPT !.kind = "close", !.sid = s, !.pc = "session", !.turn = 0]
<1>1. /\ s \notin closing /\ closing' = closing \cup {s}
      /\ req[r].pc = "idle"
      /\ req' = [Signalled(s) EXCEPT ![r] = st]
  BY DEF Submit
<1>2. st.kind = "close" /\ st.sid = s /\ st.pc = "session"
  BY DEF Idle
<1>. HIDE DEF st
<1>3. req'[r] = st
  BY <1>1 DEF Signalled
<1>4. ASSUME NEW x \in Requests, x # r
      PROVE  /\ req'[x].kind = req[x].kind /\ req'[x].sid = req[x].sid
             /\ req'[x].pc = req[x].pc
             /\ req[x].cancelled => req'[x].cancelled
             /\ Registered(x) /\ req[x].sid = s => req'[x].cancelled
  <2>1. req'[x] = IF Registered(x) /\ req[x].sid = s
                  THEN [req[x] EXCEPT !.cancelled = TRUE] ELSE req[x]
    BY <1>1, <1>4 DEF Signalled
  <2>2. req[x] \in RequestType
    OBVIOUS
  <2>. QED  BY <2>1, <2>2 DEF RequestType
<1>5. \A c \in Requests : Closes(c)' => \/ c = r
                                        \/ c # r /\ Closes(c) /\ req'[c].sid = req[c].sid
                                           /\ req[c].sid \in closing /\ req[c].sid # s
  BY <1>1, <1>4 DEF Closes, ClosingIsMarked
<1>6. \A c \in Requests : Closes(c)' => req'[c].sid \in closing'
  BY <1>1, <1>2, <1>3, <1>5
<1>7. \A c, d \in Requests : Closes(c)' /\ Closes(d)' /\ req'[c].sid = req'[d].sid => c = d
  BY <1>2, <1>3, <1>5 DEF ClosingIsMarked
<1>8. ASSUME NEW x \in Requests, Registered(x)'
      PROVE  x # r /\ Registered(x) /\ req'[x].sid = req[x].sid
  <2>1. x # r
    BY <1>2, <1>3, <1>8 DEF Registered
  <2>. QED  BY <1>4, <1>8, <2>1 DEF Registered
<1>9. \A c, x \in Requests : Closes(c)' /\ Registered(x)' /\ req'[c].sid = req'[x].sid
                                => req'[x].cancelled
  BY <1>2, <1>3, <1>4, <1>5, <1>8 DEF ClosingIsMarked
<1>. QED  BY <1>6, <1>7, <1>9 DEF ClosingIsMarked

\* Any other step: no close appears, and a turn registers only on a session that
\* is not marked.
LEMMA OtherStepsMark ==
    ASSUME RestTyped, ClosingIsMarked, NEW r \in Requests, Step(r),
           ~ \E s \in Sessions : Submit(r, "close", s)
    PROVE  ClosingIsMarked'
<1>1. \A x \in Requests : x # r => Untouched(x)
  BY StepTouchesOwn
<1>2. Answer(r) => req'[r].pc = "idle"
  BY DEF Answer, Idle, RestTyped
<1>3. Closes(r)' => Closes(r) /\ req'[r].sid = req[r].sid
  <2>. SUFFICES ASSUME Closes(r)'
                PROVE  Closes(r) /\ req'[r].sid = req[r].sid
    OBVIOUS
  <2>1. req[r].pc # "idle"
    BY FromIdle DEF Closes
  <2>2. ~Answer(r)
    BY <1>2 DEF Closes
  <2>. QED  BY <2>1, <2>2, StepKeepsRequest DEF Closes
<1>4. \A c \in Requests : Closes(c)' => Closes(c) /\ req'[c].sid = req[c].sid
  BY <1>1, <1>3 DEF Closes, Untouched
<1>5. \A c \in Requests : Closes(c)' => req[c].sid \in closing'
  <2>. SUFFICES ASSUME NEW c \in Requests, Closes(c)', Closes(r), Answer(r),
                       closing' = closing \ {req[r].sid}
                PROVE  req[c].sid \in closing'
    BY <1>4, StepMarks DEF ClosingIsMarked
  <2>1. c # r
    BY <1>2 DEF Closes
  <2>. QED  BY <1>4, <2>1 DEF ClosingIsMarked
<1>6. ASSUME NEW x \in Requests, Registered(x)'
      PROVE  /\ req'[x].sid = req[x].sid
             /\ \/ Registered(x) /\ (req[x].cancelled => req'[x].cancelled)
                \/ req[x].sid \notin closing
  <2>1. CASE x # r
    BY <1>1, <1>6, <2>1 DEF Registered, Untouched
  <2>2. CASE x = r
    <3>1. ~Answer(r)
      BY <1>2, <1>6, <2>2 DEF Registered
    <3>2. req[r].pc # "idle"
      BY <1>6, <2>2, FromIdle DEF Registered
    <3>3. /\ req'[r].kind = req[r].kind /\ req'[r].sid = req[r].sid
          /\ req[r].cancelled => req'[r].cancelled
      BY <3>1, <3>2, StepKeepsRequest
    <3>4. CASE req[r].pc # "session"
      BY <1>6, <2>2, <3>2, <3>3, <3>4 DEF Registered
    <3>5. CASE req[r].pc = "session"
      <4>1. req[r].kind = "prompt"
        BY <1>6, <2>2, <3>3 DEF Registered
      <4>2. StartPrompt(r)
        BY <3>5, <4>1, <3>1 DEF Step, Arrive, Submit, SubmitGlobal, Cancel, Registered,
           EnterWorkspace, Handle, HandleNew, HandleLoad, HandleFork, HandleClose,
           HandleConfig, HandleLogout, TakeTurn, RejectPrompt, RunSlash, AskModel, Runs,
           Answered, ReplyArrives, UserAnswers, CancelSeen, Resume, ToolReturns
      <4>. QED  BY <2>2, <3>1, <3>3, <4>2 DEF StartPrompt
    <3>. QED  BY <3>4, <3>5
  <2>. QED  BY <2>1, <2>2
<1>7. \A c \in Requests : Closes(c)' => req'[c].sid \in closing'
  BY <1>4, <1>5
<1>8. \A c, d \in Requests : Closes(c)' /\ Closes(d)' /\ req'[c].sid = req'[d].sid => c = d
  BY <1>4 DEF ClosingIsMarked
<1>9. \A c, x \in Requests : Closes(c)' /\ Registered(x)' /\ req'[c].sid = req'[x].sid
                                => req'[x].cancelled
  BY <1>4, <1>6 DEF ClosingIsMarked
<1>. QED  BY <1>7, <1>8, <1>9 DEF ClosingIsMarked

\* A prompt that was queued ahead of a close does not get to the model once the
\* close has been received, when the client closes no session it is closing
\* (begin_close, main.rs 3155-3159).  The marks are a set: of two closes of one
\* session in flight the first to end would clear the other's.
THEOREM QueuedPromptsStop ==
    ASSUME ~MayRepeatClose
    PROVE  Spec => QueuedPromptIsTurnedAway
<1>. DEFINE Inv == IInv /\ ClosingIsMarked
<1>1. Init => Inv
  <2>1. ASSUME Init PROVE ClosingIsMarked
    BY <2>1 DEF Init, Idle, ClosingIsMarked, Closes, Registered
  <2>. QED  BY <2>1, InitInvariant
<1>2. Inv /\ [Next]_vars => Inv'
  <2>. SUFFICES ASSUME IInv, ClosingIsMarked, [Next]_vars
                PROVE  ClosingIsMarked'
    BY NextKeepsInvariant
  <2>1. RestTyped
    BY DEF IInv, TypeOK, RestTyped
  <2>2. CASE \E r \in Requests : Step(r)
    BY <2>1, <2>2, SubmitCloseMarks, OtherStepsMark
  <2>3. CASE Restart
    BY <2>3 DEF Restart, Idle, ClosingIsMarked, Closes, Registered
  <2>4. CASE UNCHANGED <<req, closing>>
    BY <2>4 DEF ClosingIsMarked, Closes, Registered
  <2>. QED  BY <2>2, <2>3, <2>4, NextIsStep DEF ChangeDir, vars
<1>3. ASSUME Inv, [Next]_vars, NEW r \in Requests,
             req[r].pc \in {"session", "workspace"}, req'[r].pc = "infer",
             NEW c \in Requests, Closes(c), req[c].sid = req[r].sid
      PROVE  FALSE
  <2>1. RestTyped
    BY <1>3 DEF IInv, TypeOK, RestTyped
  <2>2. CASE \E x \in Requests : Step(x)
    <3>1. PICK x \in Requests : Step(x)
      BY <2>2
    <3>2. CASE x = r
      <4>1. AskModel(r)
        BY <1>3, <2>1, <3>1, <3>2, StepToModel
      <4>2. Registered(r) /\ ~req[r].cancelled
        BY <4>1 DEF AskModel, Runs, Registered
      <4>. QED  BY <1>3, <4>2 DEF ClosingIsMarked
    <3>3. CASE x # r
      <4>1. Untouched(r)
        BY <2>1, <3>1, <3>3, StepTouchesOwn
      <4>. QED  BY <1>3, <4>1 DEF Untouched
    <3>. QED  BY <3>2, <3>3
  <2>3. CASE Restart
    BY <1>3, <2>3 DEF Restart, Idle
  <2>4. CASE req' = req
    BY <1>3, <2>4
  <2>. QED  BY <1>3, <2>2, <2>3, <2>4, NextIsStep DEF ChangeDir, vars
<1>4. Inv /\ [Next]_vars =>
        [\A r \in Requests :
           (req[r].pc \in {"session", "workspace"} /\ req'[r].pc = "infer") =>
              ~ \E c \in Requests : /\ req[c].kind = "close" /\ req[c].sid = req[r].sid
                                    /\ req[c].pc # "idle"]_vars
  BY <1>3 DEF Closes
<1>. QED  BY <1>1, <1>2, <1>4, PTL DEF Spec, QueuedPromptIsTurnedAway

-----------------------------------------------------------------------------
(* A turn and its backend *)

\* A session keeps its own backend only while what it is parked with is of the
\* model it has picked.  That can go wrong when the model of the process changes
\* and the session's does not: with an override, when the model is picked, and
\* without one, when weights do not load or the account signs out.
NoFallback ==
    IF Provider THEN "config" \notin KindsSent /\ "models" \notin CommandsSent
    ELSE ~LoadMayFail /\ "logout" \notin KindsSent

\* With an override, and no model picked, there is one model.
OneModel(a) ==
    /\ a.model = DefaultLocal /\ a.selected = DefaultLocal
    /\ \A s \in Sessions : Known(a, s) =>
          /\ a.sess[s].model = DefaultLocal
          /\ a.sess[s].remote # NoRemote => a.sess[s].remote.model = DefaultLocal

NeverFallsBack(a) == IF Provider THEN OneModel(a) ELSE a.signedIn

\* The live session's model is the model of the process.
Agrees(a) == a.active # NoSession => a.sess[a.active].model = a.model

Settled(a) == NeverFallsBack(a) /\ Agrees(a)

SameModels(a, b) ==
    /\ b.active = a.active /\ b.model = a.model
    /\ b.selected = a.selected /\ b.signedIn = a.signedIn
    /\ \A s \in Sessions : Known(b, s) <=> Known(a, s)
    /\ \A s \in Sessions : Known(a, s) => /\ b.sess[s].model = a.sess[s].model
                                          /\ b.sess[s].remote = a.sess[s].remote

LEMMA SameModelsSettled ==
    ASSUME NEW a, NEW b, ActiveIsKnown(a), SameModels(a, b)
    PROVE  /\ NeverFallsBack(a) => NeverFallsBack(b)
           /\ Settled(a) => Settled(b)
BY DEF SameModels, ActiveIsKnown, NeverFallsBack, Settled, OneModel, Agrees

\* What is done to a conversation.
LEMMA RestoreSameModels ==
    ASSUME NEW a \in AgentType, NEW b \in Backends \cup {Local}, NEW conv \in Conversations
    PROVE  SameModels(a, Restore(a, b, conv))
<1>1. LET c == Restore(a, b, conv)
      IN  /\ c.active = a.active /\ c.model = a.model /\ c.selected = a.selected
          /\ c.signedIn = a.signedIn /\ c.sess = a.sess
  BY DEF AgentType, Restore
<1>. QED  BY <1>1 DEF SameModels, Known

LEMMA PushSameModels ==
    ASSUME NEW a \in AgentType, NEW b \in Backends \cup {Local}, NEW t \in Turns
    PROVE  SameModels(a, Push(a, b, t))
<1>1. Append(HistoryOf(a, b), t) \in Conversations
  BY HistoryType DEF Conversations
<1>. QED  BY <1>1, RestoreSameModels DEF Push

LEMMA ForgetSameModels ==
    ASSUME NEW a \in AgentType, NEW b \in Backends \cup {Local}
    PROVE  SameModels(a, Forget(a, b))
<1>. DEFINE h == HistoryOf(a, b)
<1>1. h \in Conversations
  BY HistoryType
<1>. HIDE DEF h
<1>2. h # << >> => SubSeq(h, 1, Len(h) - 1) \in Conversations
  BY <1>1 DEF Conversations
<1>3. SameModels(a, a)
  BY DEF SameModels
<1>. QED  BY <1>1, <1>2, <1>3, RestoreSameModels DEF Forget, h

LEMMA SeedSameModels ==
    ASSUME NEW a \in AgentType, NEW conv \in Conversations
    PROVE  SameModels(a, Seed(a, conv))
<1>1. LET c == Seed(a, conv)
      IN  /\ c.active = a.active /\ c.model = a.model /\ c.selected = a.selected
          /\ c.signedIn = a.signedIn /\ c.sess = a.sess
  BY DEF AgentType, Restore, Seed
<1>. QED  BY <1>1 DEF SameModels, Known

LEMMA StartLoadSameModels ==
    ASSUME NEW a \in AgentType, NEW ok
    PROVE  SameModels(a, StartLoad(a, ok))
<1>1. LET c == StartLoad(a, ok)
      IN  /\ c.active = a.active /\ c.model = a.model /\ c.selected = a.selected
          /\ c.signedIn = a.signedIn /\ c.sess = a.sess
  BY DEF AgentType, StartLoad
<1>. QED  BY <1>1 DEF SameModels, Known

LEMMA LocalInferenceSameModels ==
    ASSUME NEW a \in AgentType, NEW on
    PROVE  SameModels(a, [a EXCEPT !.localInference = on])
<1>1. LET c == [a EXCEPT !.localInference = on]
      IN  /\ c.active = a.active /\ c.model = a.model /\ c.selected = a.selected
          /\ c.signedIn = a.signedIn /\ c.sess = a.sess
  BY DEF AgentType
<1>. QED  BY <1>1 DEF SameModels, Known

\* record_active_model makes the two agree.
LEMMA RecordSettles ==
    ASSUME NEW a \in AgentType, ActiveIsKnown(a), NeverFallsBack(a)
    PROVE  Settled(RecordModel(a))
<1>1. CASE a.active = NoSession
  BY <1>1 DEF RecordModel, Settled, Agrees
<1>2. CASE a.active # NoSession
  <2>1. a.active \in Sessions /\ Known(a, a.active) /\ a.sess[a.active] \in SessionStates
        /\ a.model \in Models
    BY <1>2 DEF AgentType, Known, ActiveIsKnown
  <2>. DEFINE st == [a.sess[a.active] EXCEPT !.model = a.model]
              b == RecordModel(a)
  <2>2. /\ st \in SessionStates /\ st.model = a.model
        /\ st.remote = a.sess[a.active].remote
    BY <2>1 DEF SessionStates
  <2>3. b = [a EXCEPT !.sess = [a.sess EXCEPT ![a.active] = st]]
    BY <1>2, <2>1, Zenon DEF RecordModel
  <2>. HIDE DEF st, b
  <2>4. st # NoState
    BY <2>2, MarkersAssumption
  <2>5. /\ b.active = a.active /\ b.model = a.model /\ b.selected = a.selected
        /\ b.signedIn = a.signedIn
        /\ b.sess = [a.sess EXCEPT ![a.active] = st]
    BY <2>3 DEF AgentType
  <2>6. a.sess \in [Sessions -> SessionStates \cup {NoState}]
    BY DEF AgentType
  <2>7. b.sess[a.active] = st /\ \A x \in Sessions : x # a.active => b.sess[x] = a.sess[x]
    BY <2>1, <2>5, <2>6
  <2>8. Agrees(b)
    BY <2>2, <2>5, <2>7 DEF Agrees
  <2>9. NeverFallsBack(b)
    BY <2>1, <2>2, <2>5, <2>7 DEF NeverFallsBack, OneModel, Known
  <2>. QED  BY <2>8, <2>9 DEF Settled, b
<1>. QED  BY <1>1, <1>2

LEMMA ResetToLocalSettles ==
    ASSUME NEW a \in AgentType, ActiveIsKnown(a), NeverFallsBack(a)
    PROVE  Settled(ResetToLocal(a))
<1>. DEFINE conv == IF a.live = Local THEN << >> ELSE HistoryOf(a, a.live)
            onDevice == [a EXCEPT !.live = Local, !.pending = NoHistory]
            d == IF conv = << >> THEN onDevice ELSE Restore(onDevice, Local, conv)
<1>1. conv \in Conversations
  BY HistoryType, NoTurnsType DEF AgentType
<1>2. /\ onDevice \in AgentType
      /\ onDevice.active = a.active /\ onDevice.model = a.model
      /\ onDevice.selected = a.selected /\ onDevice.signedIn = a.signedIn
      /\ onDevice.sess = a.sess
  BY DEF AgentType
<1>. HIDE DEF onDevice, conv
<1>3. /\ SameModels(a, onDevice) /\ ActiveIsKnown(onDevice)
      /\ SameModels(onDevice, onDevice)
  BY <1>2 DEF SameModels, Known, ActiveIsKnown
<1>4. SameModels(onDevice, d)
  BY <1>1, <1>2, <1>3, RestoreSameModels
<1>5. d \in AgentType
  BY <1>1, <1>2, RestoreType
<1>. HIDE DEF d
<1>6. NeverFallsBack(d) /\ ActiveIsKnown(d)
  BY <1>3, <1>4, SameModelsSettled DEF SameModels, ActiveIsKnown
<1>7. Settled(RecordModel(d))
  BY <1>5, <1>6, RecordSettles
<1>8. ResetToLocal(a) = RecordModel(d)
  BY DEF ResetToLocal, conv, onDevice, d
<1>. QED  BY <1>7, <1>8

LEMMA SwitchToCloudSettles ==
    ASSUME NEW a \in AgentType, ActiveIsKnown(a), ~Provider, a.signedIn, NEW m \in Models
    PROVE  Settled(SwitchToCloud(a, m))
<1>. DEFINE b == NewBackend(a)
            h == HistoryOf(a, a.live)
            c == [a EXCEPT !.hist[b] = h, !.live = b,
                           !.pending = NoHistory, !.model = m, !.localInference = FALSE]
<1>1. b \in Backends
  BY NewBackendIsUnowned
<1>2. h \in Conversations
  BY HistoryType DEF AgentType
<1>. HIDE DEF b, h
<1>3. /\ c \in AgentType
      /\ c.active = a.active /\ c.signedIn = a.signedIn /\ c.sess = a.sess
  BY <1>1, <1>2 DEF AgentType
<1>. HIDE DEF c
<1>4. ActiveIsKnown(c) /\ NeverFallsBack(c)
  BY <1>3 DEF ActiveIsKnown, Known, NeverFallsBack
<1>5. Settled(RecordModel(c))
  BY <1>3, <1>4, RecordSettles
<1>. QED  BY <1>5 DEF SwitchToCloud, c, b, h

LEMMA SwitchToLocalSettles ==
    ASSUME NEW a \in AgentType, ActiveIsKnown(a), ~Provider, a.signedIn,
           NEW m \in LocalModels
    PROVE  Settled(SwitchToLocal(a, m))
<1>. DEFINE c == [a EXCEPT !.weights = "loaded", !.selected = m, !.model = m]
            w == RecordModel(c)
            d == ResetToLocal(w)
            e == [d EXCEPT !.localInference = TRUE]
<1>1. /\ c \in AgentType
      /\ c.active = a.active /\ c.signedIn = a.signedIn /\ c.sess = a.sess
  BY DEF AgentType, Models
<1>. HIDE DEF c
<1>2. ActiveIsKnown(c) /\ NeverFallsBack(c)
  BY <1>1 DEF ActiveIsKnown, Known, NeverFallsBack
<1>3. Settled(w) /\ Moves(c, w)
  BY <1>1, <1>2, RecordSettles, RecordModelMoves
<1>. HIDE DEF w
<1>4. w \in AgentType /\ ActiveIsKnown(w) /\ NeverFallsBack(w)
  BY <1>2, <1>3 DEF Moves, ActiveIsKnown, Settled
<1>5. Settled(d) /\ Moves(w, d)
  BY <1>4, ResetToLocalSettles, ResetToLocalMoves
<1>. HIDE DEF d
<1>6. d \in AgentType /\ ActiveIsKnown(d)
  BY <1>4, <1>5 DEF Moves, ActiveIsKnown
<1>7. Settled(e)
  BY <1>5, <1>6, LocalInferenceSameModels, SameModelsSettled
<1>. QED  BY <1>7 DEF SwitchToLocal, LoadWeights, c, w, d, e

LEMMA RestoreModelSettles ==
    ASSUME NEW a, Coherent(a), NeverFallsBack(a), NEW s \in Sessions, a.active = s,
           NEW ok, Provider \/ ok
    PROVE  Settled(RestoreModel(a, s, ok))
<1>1. /\ a \in AgentType /\ ActiveIsKnown(a) /\ a.active # NoSession
      /\ Known(a, s) /\ a.sess[s].model \in Models
  BY MarkersAssumption DEF Coherent, ActiveIsKnown, AgentType, SessionStates, Known
<1>2. a.sess[s].model \notin CloudModels => a.sess[s].model \in LocalModels
  BY <1>1 DEF Models
<1>3. Provider => Settled(a)
  BY <1>1 DEF NeverFallsBack, OneModel, Settled, Agrees
<1>4. a.sess[s].model = a.model => Settled(a)
  BY DEF Settled, Agrees
<1>5. CASE Provider \/ a.sess[s].model = a.model
  BY <1>3, <1>4, <1>5 DEF RestoreModel
<1>6. CASE ~(Provider \/ a.sess[s].model = a.model)
  BY <1>1, <1>2, <1>6, SwitchToCloudSettles, SwitchToLocalSettles
     DEF RestoreModel, NeverFallsBack
<1>. QED  BY <1>5, <1>6

LEMMA ParkNeverFallsBack ==
    ASSUME NEW a, Coherent(a), NeverFallsBack(a)
    PROVE  NeverFallsBack(Park(a))
<1>1. /\ Park(a).model = a.model /\ Park(a).selected = a.selected
      /\ Park(a).signedIn = a.signedIn
      /\ \A x \in Sessions : x # a.active => Park(a).sess[x] = a.sess[x]
      /\ a.active # NoSession => Park(a).sess[a.active] = ParkedState(a)
      /\ \A x \in Sessions : Known(Park(a), x) <=> Known(a, x)
  BY ParkCoherent
<1>2. ASSUME a.active \in Sessions, Known(a, a.active)
      PROVE  /\ ParkedState(a).model = a.sess[a.active].model
             /\ ParkedState(a).remote # NoRemote => ParkedState(a).remote.model = a.model
  <2>. DEFINE rem == IF a.live = Local THEN NoRemote ELSE [backend |-> a.live, model |-> a.model]
  <2>1. rem # NoRemote => rem.model = a.model
    OBVIOUS
  <2>. HIDE DEF rem
  <2>2. a.sess[a.active] \in SessionStates
    BY <1>2 DEF Coherent, AgentType, Known
  <2>3. /\ [a.sess[a.active] EXCEPT !.conv = HistoryOf(a, a.live), !.remote = rem].model
             = a.sess[a.active].model
        /\ [a.sess[a.active] EXCEPT !.conv = HistoryOf(a, a.live), !.remote = rem].remote = rem
    BY <2>2 DEF SessionStates
  <2>. QED  BY <2>1, <2>3 DEF ParkedState, rem
<1>. QED  BY <1>1, <1>2, MarkersAssumption DEF NeverFallsBack, OneModel

LEMMA InstallNeverFallsBack ==
    ASSUME NEW p, CoherentParked(p), NeverFallsBack(p), NEW s \in Sessions, Known(p, s)
    PROVE  NeverFallsBack(Install(p, s))
<1>. DEFINE b == Install(p, s)
            st == [p.sess[s] EXCEPT !.remote = NoRemote]
<1>1. p \in AgentType /\ p.sess[s] \in SessionStates
  BY DEF CoherentParked, AgentType, Known
<1>2. Installed(p, b, s)
  BY <1>1, InstallEffect
<1>3. /\ \A x \in Sessions : Known(b, x) <=> Known(p, x)
      /\ \A x \in Sessions : x # s => b.sess[x] = p.sess[x]
      /\ b.sess[s] = st
  BY InstallCoherent
<1>4. st.model = p.sess[s].model /\ st.remote = NoRemote
  BY <1>1 DEF SessionStates
<1>. HIDE DEF st
<1>5. /\ b.selected = p.selected /\ b.signedIn = p.signedIn
  BY <1>1 DEF Install, Seed, Restore, AgentType
<1>. HIDE DEF b
<1>6. Provider => OneModel(b)
  BY <1>2, <1>3, <1>4, <1>5 DEF Installed, OwnBackend, OneModel, NeverFallsBack
<1>. QED  BY <1>5, <1>6 DEF NeverFallsBack, b

LEMMA OpenSettles ==
    ASSUME NEW p, CoherentParked(p), NeverFallsBack(p), NEW s \in Sessions,
           NEW st \in SessionStates, st.remote = NoRemote,
           Provider => st.model = DefaultLocal, NEW ok, Provider \/ ok
    PROVE  Settled(OpenParked(p, s, st, ok))
<1>. DEFINE q == [p EXCEPT !.sess[s] = st]
            i == Install(q, s)
<1>1. /\ CoherentParked(q)
      /\ q.model = p.model /\ q.selected = p.selected /\ q.signedIn = p.signedIn
      /\ q.sess[s] = st
      /\ \A x \in Sessions : x # s => q.sess[x] = p.sess[x]
  BY OpenSlot
<1>. HIDE DEF q
<1>2. Known(q, s)
  BY <1>1, MarkersAssumption DEF Known
<1>3. NeverFallsBack(q)
  BY <1>1 DEF NeverFallsBack, OneModel, Known
<1>4. NeverFallsBack(i) /\ Coherent(i) /\ i.active = s
  BY <1>1, <1>2, <1>3, InstallNeverFallsBack, InstallCoherent
<1>. HIDE DEF i
<1>5. Settled(RestoreModel(i, s, ok))
  BY <1>4, RestoreModelSettles
<1>. QED  BY <1>5 DEF OpenParked, InstallAndRestore, q, i

LEMMA ActivateSettles ==
    ASSUME NEW a, Coherent(a), Settled(a), NEW s \in Sessions, Known(a, s),
           NEW ok, Provider \/ ok
    PROVE  Settled(Activate(a, s, ok))
<1>1. CASE a.active = s
  BY <1>1, ActivateLive
<1>2. CASE a.active # s
  <2>. DEFINE p == Park(a)
              i == Install(p, s)
  <2>1. CoherentParked(p) /\ NeverFallsBack(p) /\ Known(p, s)
    BY ParkCoherent, ParkNeverFallsBack DEF Settled
  <2>. HIDE DEF p
  <2>2. NeverFallsBack(i) /\ Coherent(i) /\ i.active = s
    BY <2>1, InstallNeverFallsBack, InstallCoherent
  <2>. HIDE DEF i
  <2>3. Settled(RestoreModel(i, s, ok))
    BY <2>2, RestoreModelSettles
  <2>. QED  BY <1>2, <2>3 DEF Activate, InstallAndRestore, p, i
<1>. QED  BY <1>1, <1>2

LEMMA PickSettles ==
    ASSUME NEW a, Coherent(a), Settled(a), ~Provider, NEW m \in Models, NEW ok, ok
    PROVE  Settled(PickModel(a, m, ok)) /\ Settled(ModelsCommand(a, m, ok))
<1>1. a \in AgentType /\ ActiveIsKnown(a) /\ a.signedIn /\ NeverFallsBack(a)
  BY DEF Coherent, Settled, NeverFallsBack
<1>2. m \notin CloudModels => m \in LocalModels
  BY DEF Models
<1>. QED
  BY <1>1, <1>2, RecordSettles, SwitchToCloudSettles, SwitchToLocalSettles
     DEF PickModel, ModelsCommand

LEMMA FallBackSettles ==
    ASSUME NEW a, Coherent(a), Settled(a)
    PROVE  Settled(FallBackToLocal(a))
<1>. DEFINE c == [a EXCEPT !.model = a.selected]
            d == ResetToLocal(c)
<1>1. /\ c \in AgentType
      /\ c.active = a.active /\ c.model = a.selected /\ c.selected = a.selected
      /\ c.signedIn = a.signedIn /\ c.sess = a.sess
  BY DEF Coherent, AgentType, Models
<1>. HIDE DEF c
<1>2. ActiveIsKnown(c) /\ NeverFallsBack(c)
  BY <1>1 DEF Coherent, ActiveIsKnown, Known, Settled, NeverFallsBack, OneModel
<1>3. Settled(d) /\ Moves(c, d)
  BY <1>1, <1>2, ResetToLocalSettles, ResetToLocalMoves
<1>. HIDE DEF d
<1>4. d \in AgentType /\ ActiveIsKnown(d)
  BY <1>2, <1>3 DEF Moves, ActiveIsKnown
<1>. QED  BY <1>3, <1>4, LocalInferenceSameModels, SameModelsSettled
             DEF FallBackToLocal, c, d

LEMMA LoadCommandSettles ==
    ASSUME NEW a, Coherent(a), Settled(a), NEW ok
    PROVE  Settled(LoadCommand(a, ok))
<1>. DEFINE c == IF a.model \in CloudModels THEN FallBackToLocal(a)
                 ELSE [a EXCEPT !.localInference = TRUE]
<1>1. a \in AgentType /\ ActiveIsKnown(a)
  BY DEF Coherent
<1>2. Settled(c)
  BY <1>1, FallBackSettles, LocalInferenceSameModels, SameModelsSettled
<1>3. c \in AgentType /\ ActiveIsKnown(c)
  <2>1. [a EXCEPT !.localInference = TRUE] \in AgentType
        /\ [a EXCEPT !.localInference = TRUE].active = a.active
        /\ [a EXCEPT !.localInference = TRUE].sess = a.sess
    BY <1>1 DEF AgentType
  <2>2. Moves(a, FallBackToLocal(a))
    BY <1>1, FallBackMoves
  <2>. QED  BY <1>1, <2>1, <2>2 DEF Moves, ActiveIsKnown, Known
<1>. HIDE DEF c
<1>4. Settled(StartLoad(c, ok))
  BY <1>2, <1>3, StartLoadSameModels, SameModelsSettled
<1>. QED  BY <1>4 DEF LoadCommand, c

LEMMA ReloadCommandSettles ==
    ASSUME NEW a, Coherent(a), Settled(a), NEW ok
    PROVE  Settled(ReloadCommand(a, ok))
<1>. DEFINE here == ResetToLocal(a)
            e == [here EXCEPT !.weights = "none"]
<1>1. a \in AgentType /\ ActiveIsKnown(a) /\ NeverFallsBack(a) /\ a.model \in Models
  BY DEF Coherent, Settled, AgentType
<1>2. CASE a.model \in CloudModels
  <2>1. ~Provider
    BY <1>1, <1>2, ModelsAssumption DEF NeverFallsBack, OneModel
  <2>. QED  BY <1>1, <1>2, <2>1, SwitchToCloudSettles DEF ReloadCommand, NeverFallsBack
<1>3. CASE a.model \notin CloudModels
  <2>1. Settled(here) /\ here \in AgentType /\ ActiveIsKnown(here)
    BY <1>1, ResetToLocalSettles, ResetToLocalMoves DEF Moves, ActiveIsKnown
  <2>. HIDE DEF here
  <2>2. /\ e \in AgentType
        /\ e.active = here.active /\ e.model = here.model /\ e.selected = here.selected
        /\ e.signedIn = here.signedIn /\ e.sess = here.sess
    BY <2>1 DEF AgentType
  <2>. HIDE DEF e
  <2>3. SameModels(here, e) /\ ActiveIsKnown(e)
    BY <2>1, <2>2 DEF SameModels, Known, ActiveIsKnown
  <2>4. Settled(StartLoad(e, ok))
    BY <2>1, <2>2, <2>3, StartLoadSameModels, SameModelsSettled
  <2>. QED  BY <1>3, <2>1, <2>4 DEF ReloadCommand, here, e
<1>. QED  BY <1>2, <1>3

LEMMA ClearCommandSettles ==
    ASSUME NEW a, Coherent(a), Settled(a), NEW s \in Sessions, a.active = s, Known(a, s)
    PROVE  Settled(ClearCommand(a, s))
<1>. DEFINE st == [a.sess[s] EXCEPT !.conv = << >>]
            c == [a EXCEPT !.sess[s].conv = << >>]
<1>1. a \in AgentType /\ ActiveIsKnown(a) /\ a.sess[s] \in SessionStates
  BY DEF Coherent, AgentType, Known
<1>2. /\ st \in SessionStates /\ st.model = a.sess[s].model
      /\ st.remote = a.sess[s].remote
  BY <1>1, NoTurnsType DEF SessionStates
<1>3. c = [a EXCEPT !.sess = [a.sess EXCEPT ![s] = st]]
  BY Zenon DEF st
<1>. HIDE DEF st, c
<1>4. /\ c \in AgentType
      /\ c.active = a.active /\ c.model = a.model /\ c.selected = a.selected
      /\ c.signedIn = a.signedIn /\ c.sess = [a.sess EXCEPT ![s] = st]
  BY <1>1, <1>2, <1>3 DEF AgentType
<1>5. a.sess \in [Sessions -> SessionStates \cup {NoState}]
  BY <1>1 DEF AgentType
<1>6. c.sess[s] = st /\ \A x \in Sessions : x # s => c.sess[x] = a.sess[x]
  BY <1>4, <1>5
<1>7. SameModels(a, c) /\ ActiveIsKnown(c)
  BY <1>1, <1>2, <1>4, <1>6, MarkersAssumption DEF SameModels, Known, ActiveIsKnown
<1>8. Settled(Seed(c, << >>))
  BY <1>1, <1>4, <1>7, NoTurnsType, SeedSameModels, SameModelsSettled
<1>. QED  BY <1>8 DEF ClearCommand, c

LEMMA ClosedSettles ==
    ASSUME NEW a, Coherent(a), Settled(a), NEW s \in Sessions
    PROVE  Settled(ClosedAgent(a, s))
<1>1. LET b == ClosedAgent(a, s)
      IN  /\ Coherent(b)
          /\ b.active = IF a.active = s THEN NoSession ELSE a.active
          /\ b.model = a.model /\ b.selected = a.selected /\ b.signedIn = a.signedIn
          /\ ~Known(b, s)
          /\ \A x \in Sessions : x # s => b.sess[x] = a.sess[x]
  BY ClosedEffect
<1>2. a.active # NoSession => a.active \in Sessions
  BY DEF Coherent, ActiveIsKnown
<1>. QED  BY <1>1, <1>2 DEF Settled, NeverFallsBack, OneModel, Agrees, Known

\* With an override there is no tier to leave.
LEMMA LeaveCloudSettles ==
    ASSUME NEW a, Coherent(a), Settled(a), Provider
    PROVE  /\ Settled(LeaveCloud(a))
           /\ LeaveCloud(a).active = a.active /\ LeaveCloud(a).live = a.live
           /\ LeaveCloud(a).sess = a.sess
<1>. DEFINE moved == {s \in Sessions : Known(a, s) /\ a.sess[s].model \in CloudModels}
            slots == [s \in Sessions |->
                        IF s \in moved THEN [a.sess[s] EXCEPT !.model = a.selected]
                        ELSE a.sess[s]]
            out == [a EXCEPT !.signedIn = FALSE, !.localInference = TRUE, !.sess = slots]
<1>1. a \in AgentType /\ OneModel(a) /\ DefaultLocal \notin CloudModels
  BY ModelsAssumption DEF Coherent, Settled, NeverFallsBack
<1>2. moved = {} /\ a.model \notin CloudModels
  BY <1>1 DEF OneModel
<1>3. slots = a.sess
  BY <1>1, <1>2 DEF AgentType
<1>. HIDE DEF slots
<1>4. LeaveCloud(a) = out
  BY <1>2 DEF LeaveCloud, slots
<1>5. /\ out.active = a.active /\ out.live = a.live /\ out.sess = a.sess
      /\ out.model = a.model /\ out.selected = a.selected
  BY <1>1, <1>3 DEF AgentType
<1>. HIDE DEF out
<1>6. Settled(out)
  BY <1>1, <1>5 DEF Settled, NeverFallsBack, OneModel, Agrees, Known
<1>. QED  BY <1>4, <1>5, <1>6

\* The kinds of request that are handled are those the client sends.
OnlySent == \A r \in Requests : req[r].pc # "idle" => req[r].kind \in KindsSent

\* With an override the saved copies are of the one model, too.
OneModelSaved == Provider => \A s \in Sessions : saved[s] # NoCopy => saved[s].model = DefaultLocal

LEMMA StepSendsKinds ==
    ASSUME RestTyped, OnlySent, NEW r \in Requests, Step(r)
    PROVE  OnlySent'
<1>1. \A x \in Requests : x # r => Untouched(x)
  BY StepTouchesOwn
<1>2. CASE req[r].pc = "idle"
  <2>1. req'[r].kind \in KindsSent
    BY <1>2, FromIdle
  <2>. QED  BY <1>1, <2>1 DEF OnlySent, Untouched
<1>3. CASE req[r].pc # "idle"
  <2>1. req'[r].pc = "idle" \/ req'[r].kind = req[r].kind
    BY <1>3, StepKeepsRequest DEF Answer, Idle, RestTyped
  <2>. QED  BY <1>1, <1>3, <2>1 DEF OnlySent, Untouched
<1>. QED  BY <1>2, <1>3

LEMMA LoadsSucceed ==
    ASSUME NoFallback, NEW ok \in Loads
    PROVE  Provider \/ ok
BY DEF NoFallback, Loads

LEMMA ReinstallSettles ==
    ASSUME NoFallback, NEW a, Coherent(a), Settled(a), NEW s \in Sessions, NEW ok \in Loads
    PROVE  Settled(Reinstall(a, s, ok))
BY LoadsSucceed, ActivateSettles DEF Reinstall

LEMMA PrepareSettles ==
    ASSUME NoFallback, NEW a, Coherent(a), Settled(a), NEW s \in Sessions, NEW ok \in Loads,
           NEW loads
    PROVE  Settled(Prepare(a, s, ok, loads))
<1>. DEFINE here == Reinstall(a, s, ok)
<1>1. Settled(here) /\ here \in AgentType /\ ActiveIsKnown(here)
  BY ReinstallSettles, ReinstallReaches DEF Coherent
<1>. HIDE DEF here
<1>2. Settled(StartLoad(here, loads))
  BY <1>1, StartLoadSameModels, SameModelsSettled
<1>. QED  BY <1>1, <1>2 DEF Prepare, here

Calm == NoFallback /\ IInv /\ Settled(agent) /\ OneModelSaved /\ OnlySent

LEMMA NewStateSettles ==
    ASSUME Calm, NEW d \in Dirs
    PROVE  /\ NewState(agent, d) \in SessionStates /\ NewState(agent, d).remote = NoRemote
           /\ Provider => NewState(agent, d).model = DefaultLocal
<1>1. Coherent(agent) /\ (Provider => agent.model = DefaultLocal)
  BY DEF Calm, IInv, Settled, NeverFallsBack, OneModel
<1>2. Provider => NewState(agent, d).model = DefaultLocal
  BY <1>1 DEF NewState
<1>. QED  BY <1>1, <1>2, NewStateType DEF Coherent

LEMMA HandleSettles ==
    ASSUME Calm, NEW r \in Requests, Handle(r)
    PROVE  Settled(agent')
<1>. USE DEF Calm
<1>1. /\ Coherent(agent) /\ Typed /\ RestTyped /\ Locks
      /\ CoherentParked(Park(agent)) /\ NeverFallsBack(Park(agent))
  BY ParkCoherent, ParkNeverFallsBack
     DEF IInv, TypeOK, Typed, Copies, RestTyped, Locks, Settled
<1>2. req[r].pc = "workspace"
  BY DEF Handle, HandleNew, HandleLoad, HandleFork, HandleClose, HandleConfig,
         HandleLogout, Runs
<1>3. req[r].kind \in KindsSent /\ (OnSession(req[r].kind) => req[r].sid \in Sessions)
  BY <1>1, <1>2 DEF OnlySent, Locks, Placed, IsPlaced, InLine
<1>4. CASE HandleNew(r)
  <2>1. CASE NoIdLeft
    BY <2>1 DEF NoIdLeft, UnusedIds
  <2>2. CASE \E s \in UnusedIds, d \in Dirs, ok \in Loads :
               agent' = OpenParked(Park(agent), s, NewState(agent, d), ok)
    <3>1. PICK s \in UnusedIds, d \in Dirs, ok \in Loads :
               agent' = OpenParked(Park(agent), s, NewState(agent, d), ok)
      BY <2>2
    <3>2. s \in Sessions /\ (Provider \/ ok)
      BY LoadsSucceed DEF UnusedIds
    <3>. QED  BY <1>1, <3>1, <3>2, NewStateSettles, OpenSettles
  <2>. QED  BY <1>4, <2>1, <2>2 DEF HandleNew
<1>5. CASE HandleLoad(r)
  <2>. DEFINE s == req[r].sid
              parked == Park(agent)
              copy == saved[s]
              conv == IF copy # NoCopy THEN copy.conv ELSE parked.sess[s].conv
  <2>0. s \in Sessions
    BY <1>3, <1>5 DEF HandleLoad, Runs, OnSession
  <2>1. CASE copy = NoCopy /\ ~Known(parked, s)
    <3>1. agent' = parked
      BY <1>5, <2>1 DEF HandleLoad
    <3>2. Agrees(parked)
      <4>1. CASE agent.active = NoSession
        BY <4>1 DEF Park, Agrees
      <4>2. CASE agent.active # NoSession
        <5>1. /\ parked.active = agent.active /\ parked.model = agent.model
              /\ parked.sess[agent.active] = ParkedState(agent)
          BY <1>1, <4>2, ParkCoherent
        <5>2. ParkedState(agent).model = agent.sess[agent.active].model
          BY <1>1, <4>2 DEF ParkedState, Coherent, ActiveIsKnown, AgentType, SessionStates, Known
        <5>. QED  BY <4>2, <5>1, <5>2 DEF Settled, Agrees
      <4>. QED  BY <4>1, <4>2
    <3>. QED  BY <1>1, <3>1, <3>2 DEF Settled
  <2>2. CASE copy # NoCopy \/ Known(parked, s)
    <3>1. PICK d \in Dirs, ok \in Loads :
            agent' = OpenParked(parked, s,
                       [NewState(agent, d) EXCEPT
                          !.conv = conv,
                          !.model = IF copy # NoCopy THEN copy.model
                                    ELSE NewState(agent, d).model], ok)
      BY <1>5, <2>2 DEF HandleLoad
    <3>. DEFINE fresh == NewState(agent, d)
                m == IF copy # NoCopy THEN copy.model ELSE fresh.model
                st == [fresh EXCEPT !.conv = conv, !.model = m]
    <3>2. /\ fresh \in SessionStates /\ fresh.remote = NoRemote
          /\ Provider => fresh.model = DefaultLocal
      BY NewStateSettles
    <3>3. copy # NoCopy => /\ copy.conv \in Conversations /\ copy.model \in Models
                           /\ Provider => copy.model = DefaultLocal
      BY <1>1, <2>0 DEF Typed, Copies, OneModelSaved
    <3>4. Known(parked, s) => parked.sess[s] \in SessionStates
      BY <1>1, <2>0 DEF CoherentParked, AgentType, Known
    <3>5. conv \in Conversations /\ m \in Models /\ (Provider => m = DefaultLocal)
      BY <2>2, <3>2, <3>3, <3>4 DEF SessionStates
    <3>. HIDE DEF fresh, conv, m
    <3>6. st \in SessionStates /\ st.remote = NoRemote /\ st.model = m
      BY <3>2, <3>5 DEF SessionStates
    <3>7. agent' = OpenParked(parked, s, st, ok)
      BY <3>1 DEF fresh, m
    <3>8. Provider \/ ok
      BY LoadsSucceed
    <3>. HIDE DEF st
    <3>. QED  BY <1>1, <2>0, <3>5, <3>6, <3>7, <3>8, OpenSettles
  <2>. QED  BY <2>1, <2>2
<1>6. CASE HandleFork(r)
  <2>1. CASE NoIdLeft
    BY <2>1 DEF NoIdLeft, UnusedIds
  <2>2. CASE ~NoIdLeft
    <3>. DEFINE parked == Park(agent)
                s == req[r].sid
                state(fresh) == IF Known(parked, s)
                                THEN [fresh EXCEPT !.conv = parked.sess[s].conv,
                                                   !.model = parked.sess[s].model]
                                ELSE IF saved[s] # NoCopy
                                THEN [fresh EXCEPT !.conv = saved[s].conv,
                                                   !.model = saved[s].model]
                                ELSE fresh
    <3>1. PICK n \in UnusedIds, d \in Dirs, ok \in Loads :
            agent' = OpenParked(parked, n, state(NewState(agent, d)), ok)
      BY <1>6, <2>2 DEF HandleFork
    <3>2. n \in Sessions /\ s \in Sessions /\ (Provider \/ ok)
      BY <1>3, <1>6, LoadsSucceed DEF UnusedIds, HandleFork, Runs, OnSession
    <3>. DEFINE fresh == NewState(agent, d)
                st == state(fresh)
    <3>3. /\ fresh \in SessionStates /\ fresh.remote = NoRemote
          /\ Provider => fresh.model = DefaultLocal
      BY NewStateSettles
    <3>4. saved[s] # NoCopy => /\ saved[s].conv \in Conversations /\ saved[s].model \in Models
                               /\ Provider => saved[s].model = DefaultLocal
      BY <1>1, <3>2 DEF Typed, Copies, OneModelSaved
    <3>5. Known(parked, s) => /\ parked.sess[s].conv \in Conversations
                              /\ parked.sess[s].model \in Models
                              /\ Provider => parked.sess[s].model = DefaultLocal
      BY <1>1, <3>2 DEF CoherentParked, AgentType, Known, SessionStates, NeverFallsBack, OneModel
    <3>. HIDE DEF fresh, parked
    <3>6. /\ st \in SessionStates /\ st.remote = NoRemote
          /\ Provider => st.model = DefaultLocal
      BY <3>3, <3>4, <3>5 DEF SessionStates
    <3>7. agent' = OpenParked(Park(agent), n, st, ok)
      BY <3>1 DEF fresh, parked
    <3>. HIDE DEF st
    <3>. QED  BY <1>1, <3>2, <3>6, <3>7, OpenSettles
  <2>. QED  BY <2>1, <2>2
<1>7. CASE HandleClose(r)
  <2>1. req[r].sid \in Sessions /\ agent' = ClosedAgent(agent, req[r].sid)
    BY <1>3, <1>7 DEF HandleClose, Runs, OnSession
  <2>. QED  BY <1>1, <2>1, ClosedSettles
<1>8. CASE HandleConfig(r)
  <2>. DEFINE s == req[r].sid
  <2>0. s \in Sessions /\ ~Provider
    BY <1>3, <1>8 DEF HandleConfig, Runs, OnSession, NoFallback
  <2>1. CASE UNCHANGED agent
    BY <2>1
  <2>2. CASE ~UNCHANGED agent
    <3>1. PICK ok \in Loads, picked \in Loads :
            /\ Known(agent, s)
            /\ \/ \E m \in Models : agent' = PickModel(Activate(agent, s, ok), m, picked)
               \/ \E on \in BOOLEAN :
                    agent' = [Activate(agent, s, ok) EXCEPT !.localInference = on]
      BY <1>8, <2>2 DEF HandleConfig
    <3>. DEFINE here == Activate(agent, s, ok)
    <3>2. Coherent(here) /\ Settled(here) /\ ok /\ picked
      BY <1>1, <2>0, <3>1, LoadsSucceed, ActivateSettles, ReinstallReaches DEF Reinstall
    <3>. HIDE DEF here
    <3>3. CASE \E m \in Models : agent' = PickModel(here, m, picked)
      BY <2>0, <3>2, <3>3, PickSettles
    <3>4. CASE \E on \in BOOLEAN : agent' = [here EXCEPT !.localInference = on]
      BY <3>2, <3>4, LocalInferenceSameModels, SameModelsSettled DEF Coherent
    <3>. QED  BY <3>1, <3>3, <3>4 DEF here
  <2>. QED  BY <2>1, <2>2
<1>9. CASE HandleLogout(r)
  <2>1. Provider
    BY <1>3, <1>9 DEF HandleLogout, Runs, NoFallback
  <2>. QED  BY <1>1, <1>9, <2>1, LeaveCloudSettles DEF HandleLogout
<1>. QED  BY <1>4, <1>5, <1>6, <1>7, <1>8, <1>9 DEF Handle

LEMMA SlashSettles ==
    ASSUME Calm, NEW r \in Requests, req[r].sid \in Sessions, RunSlash(r)
    PROVE  Settled(agent')
<1>. DEFINE s == req[r].sid
<1>1. Coherent(agent) /\ NoFallback /\ Settled(agent)
  BY DEF Calm, IInv
<1>2. PICK ok \in Loads, loads \in Loads :
        /\ InPlace(Reinstall(agent, s, ok), s)
        /\ \/ agent' = LoadCommand(Reinstall(agent, s, ok), loads)
           \/ /\ "models" \in CommandsSent
              /\ \E m \in Models : agent' = ModelsCommand(Reinstall(agent, s, ok), m, loads)
           \/ agent' = ReloadCommand(Reinstall(agent, s, ok), loads)
           \/ agent' = ClearCommand(Reinstall(agent, s, ok), s)
  BY DEF RunSlash
<1>. DEFINE here == Reinstall(agent, s, ok)
<1>3. Coherent(here) /\ Settled(here) /\ Known(here, s) /\ here.active = s
  BY <1>1, <1>2, ReinstallReaches, ReinstallSettles DEF InPlace
<1>. HIDE DEF here
<1>4. "models" \in CommandsSent => ~Provider /\ loads
  BY <1>1, LoadsSucceed DEF NoFallback
<1>5. ASSUME "models" \in CommandsSent, NEW m \in Models, agent' = ModelsCommand(here, m, loads)
      PROVE  Settled(agent')
  BY <1>3, <1>4, <1>5, PickSettles
<1>. QED  BY <1>2, <1>3, <1>5, LoadCommandSettles, ReloadCommandSettles,
             ClearCommandSettles DEF here

LEMMA AskSettles ==
    ASSUME Calm, NEW r \in Requests, req[r].sid \in Sessions, req[r].turn \in Turns,
           AskModel(r)
    PROVE  Settled(agent')
<1>. DEFINE s == req[r].sid
<1>1. Coherent(agent) /\ NoFallback /\ Settled(agent)
  BY DEF Calm, IInv
<1>2. PICK ok \in Loads, loads \in Loads :
        agent' = Push(Prepare(agent, s, ok, loads), Prepare(agent, s, ok, loads).live,
                      req[r].turn)
  BY DEF AskModel
<1>. DEFINE here == Prepare(agent, s, ok, loads)
<1>3. Coherent(here) /\ Settled(here)
  BY <1>1, PrepareReaches, PrepareSettles
<1>. HIDE DEF here
<1>4. here \in AgentType /\ here.live \in Backends \cup {Local} /\ ActiveIsKnown(here)
  BY <1>3 DEF Coherent, AgentType
<1>5. Settled(Push(here, here.live, req[r].turn))
  BY <1>3, <1>4, PushSameModels, SameModelsSettled
<1>. QED  BY <1>2, <1>5 DEF here

\* What a turn finds as it resumes, what it leaves, and what it saves.
LEMMA ResumeSettles ==
    ASSUME Calm, NEW r \in Requests, Resume(r)
    PROVE  /\ Settled(agent')
           /\ \/ saved' = saved
              \/ \E a \in AgentType :
                   /\ Settled(a) /\ Known(a, req[r].sid)
                   /\ saved' = [saved EXCEPT ![req[r].sid] = SavedCopy(a, r)]
<1>. DEFINE s == req[r].sid
            b == req[r].backend
            H(ok) == IF req[r].released THEN Reinstall(agent, s, ok) ELSE agent
<1>1. /\ Coherent(agent) /\ NoFallback /\ Settled(agent) /\ RestTyped
      /\ req[r] \in RequestType
  BY DEF Calm, IInv, TypeOK, RestTyped
<1>2. InTurn(r)
  BY DEF Resume, InTurn
<1>3. s \in Sessions /\ Known(agent, s)
  BY <1>1, <1>2, TurnIsPrompt DEF Calm, IInv, TypeOK, Locks, RestTyped, TurnsAreOpen
<1>4. PICK ok \in Loads : ResumesWith(r, H(ok))
  BY ResumeForm
<1>. DEFINE here == H(ok)
<1>5. Coherent(here) /\ Settled(here) /\ Known(here, s)
  BY <1>1, <1>3, ReinstallReaches, ReinstallSettles
<1>6. /\ agent' = here \/ agent' = Forget(here, b) \/ agent' = Restore(here, b, req[r].before)
      /\ \/ saved' = saved
         \/ saved' = [saved EXCEPT ![s] = SavedCopy(here, r)]
         \/ saved' = [saved EXCEPT ![s] = SavedCopy(agent', r)]
  BY <1>4 DEF ResumesWith
<1>. HIDE DEF here, H
<1>7. /\ here \in AgentType /\ ActiveIsKnown(here)
      /\ b \in Backends \cup {Local} /\ req[r].before \in Conversations
  BY <1>1, <1>5 DEF Coherent, RequestType
<1>8. SameModels(here, agent')
  <2>1. SameModels(here, here)
    BY DEF SameModels
  <2>. QED  BY <1>6, <1>7, <2>1, ForgetSameModels, RestoreSameModels
<1>9. Settled(agent') /\ Known(agent', s)
  BY <1>3, <1>5, <1>7, <1>8, SameModelsSettled DEF SameModels
<1>10. agent' \in AgentType
  BY <1>6, <1>7, ForgetMoves, RestoreMoves DEF Moves
<1>11. \/ saved' = saved
       \/ \E a \in AgentType :
            /\ Settled(a) /\ Known(a, s)
            /\ saved' = [saved EXCEPT ![s] = SavedCopy(a, r)]
  BY <1>5, <1>6, <1>7, <1>9, <1>10
<1>. QED  BY <1>9, <1>11

LEMMA StepSettles ==
    ASSUME Calm, NEW r \in Requests, Step(r)
    PROVE  Settled(agent')
<1>1. /\ Coherent(agent) /\ NoFallback /\ Settled(agent) /\ RestTyped /\ Locks /\ IInv
  BY DEF Calm, IInv, TypeOK, RestTyped, Locks
<1>2. CASE Waits(r)
  BY <1>1, <1>2, WaitsKeepTurn
<1>3. CASE Handle(r)
  BY <1>3, HandleSettles
<1>4. CASE TakeTurn(r)
  <2>1. req[r].sid \in Sessions /\ req[r].turn \in Turns
    BY <1>1, <1>4 DEF Locks, Placed, IsPlaced, InLine, OnSession, TakeTurn, RejectPrompt,
       RunSlash, AskModel, Runs
  <2>2. CASE RejectPrompt(r)
    <3>1. \/ agent' = agent
          \/ \E ok, loads \in Loads : agent' = Prepare(agent, req[r].sid, ok, loads)
      BY <2>2 DEF RejectPrompt
    <3>. QED  BY <1>1, <2>1, <3>1, PrepareSettles
  <2>. QED  BY <1>4, <2>1, <2>2, SlashSettles, AskSettles DEF TakeTurn
<1>5. CASE Resume(r)
  BY <1>5, ResumeSettles
<1>. QED  BY <1>2, <1>3, <1>4, <1>5 DEF Step, Waits

LEMMA StepSavesOneModel ==
    ASSUME Calm, NEW r \in Requests, Step(r)
    PROVE  OneModelSaved'
<1>1. /\ saved \in [Sessions -> Copies \cup {NoCopy}] /\ Locks /\ RestTyped
      /\ OneModelSaved
  BY DEF Calm, IInv, TypeOK, Copies, RestTyped, Locks
<1>2. CASE saved' = saved
  BY <1>1, <1>2 DEF OneModelSaved
<1>3. CASE HandleClose(r)
  <2>1. \E copy \in {saved[req[r].sid], NoCopy} :
           saved' = [saved EXCEPT ![req[r].sid] = copy]
    BY <1>3 DEF HandleClose
  <2>. QED  BY <1>1, <2>1 DEF OneModelSaved
<1>4. CASE RunSlash(r)
  <2>1. saved' = saved \/ saved' = [saved EXCEPT ![req[r].sid] = NoCopy]
    BY <1>4 DEF RunSlash
  <2>. QED  BY <1>1, <2>1 DEF OneModelSaved
<1>5. CASE Resume(r)
  <2>1. CASE saved' = saved
    BY <1>2, <2>1
  <2>2. CASE \E a \in AgentType :
               /\ Settled(a) /\ Known(a, req[r].sid)
               /\ saved' = [saved EXCEPT ![req[r].sid] = SavedCopy(a, r)]
    <3>1. PICK a \in AgentType :
               /\ Settled(a) /\ Known(a, req[r].sid)
               /\ saved' = [saved EXCEPT ![req[r].sid] = SavedCopy(a, r)]
      BY <2>2
    <3>2. req[r].sid \in Sessions
      BY <1>1, <1>5, TurnIsPrompt DEF Resume, InTurn
    <3>3. Provider => SavedCopy(a, r).model = DefaultLocal
      BY <3>1, <3>2 DEF SavedCopy, Settled, NeverFallsBack, OneModel
    <3>. HIDE DEF Known
    <3>. QED  BY <1>1, <3>1, <3>2, <3>3 DEF OneModelSaved
  <2>. QED  BY <1>5, <2>1, <2>2, ResumeSettles
<1>6. saved' = saved \/ HandleClose(r) \/ RunSlash(r) \/ Resume(r)
  BY DEF Step, Arrive, Submit, SubmitGlobal, Cancel, EnterWorkspace, StartPrompt,
         Handle, HandleNew, HandleLoad, HandleFork, HandleConfig, HandleLogout,
         TakeTurn, RejectPrompt, AskModel, Answered, ReplyArrives, UserAnswers,
         CancelSeen, Return, ToolReturns
<1>. QED  BY <1>2, <1>3, <1>4, <1>5, <1>6

LEMMA StartSettles ==
    ASSUME NEW selected \in LocalModels, NEW localInference \in BOOLEAN,
           NEW signedIn \in BOOLEAN,
           Provider => selected = DefaultLocal, ~Provider => signedIn
    PROVE  Settled(StartState(selected, localInference, signedIn))
BY DEF StartState, Settled, NeverFallsBack, OneModel, Agrees, Known

LEMMA CalmNext ==
    ASSUME Calm, [Next]_vars
    PROVE  Calm'
<1>1. IInv' /\ NoFallback' /\ RestTyped
  BY NextKeepsInvariant DEF Calm, IInv, TypeOK, RestTyped, NoFallback
<1>2. ASSUME NEW r \in Requests, Step(r) PROVE Calm'
  BY <1>1, <1>2, StepSettles, StepSavesOneModel, StepSendsKinds DEF Calm
<1>3. CASE Restart
  <2>1. /\ agent.selected \in LocalModels /\ agent.localInference \in BOOLEAN
        /\ agent.signedIn \in BOOLEAN
    BY DEF Calm, IInv, TypeOK, AgentType
  <2>2. Settled(agent')
    BY <1>3, <2>1, StartSettles DEF Restart, Calm, Settled, NeverFallsBack, OneModel
  <2>3. OneModelSaved' /\ OnlySent'
    BY <1>3 DEF Restart, Calm, OneModelSaved, OnlySent, Idle
  <2>. QED  BY <1>1, <2>2, <2>3 DEF Calm
<1>4. CASE UNCHANGED <<agent, saved, req>>
  BY <1>1, <1>4 DEF Calm, OneModelSaved, OnlySent, Settled, NeverFallsBack, OneModel,
     Agrees, Known
<1>. QED  BY <1>2, <1>3, <1>4, NextIsStep DEF ChangeDir, vars

LEMMA InitCalm ==
    ASSUME NoFallback, Init
    PROVE  Calm
<1>1. Settled(agent)
  <2>1. /\ DefaultLocal \in LocalModels /\ TRUE \in BOOLEAN /\ (~Provider) \in BOOLEAN
    BY ModelsAssumption
  <2>. QED  BY <2>1, StartSettles DEF Init
<1>2. OneModelSaved /\ OnlySent
  BY DEF Init, OneModelSaved, OnlySent, Idle
<1>. QED  BY <1>1, <1>2, InitInvariant DEF Calm

\* The backend b is that of session s: it is live, or s is parked with it.
HoldsTurn(a, s, b) ==
    /\ Known(a, s)
    /\ IF a.active = s THEN a.live = b
       ELSE /\ a.sess[s].remote # NoRemote
            /\ a.sess[s].remote.backend = b
            /\ a.sess[s].remote.model = a.sess[s].model

LEMMA VisitedHoldsTurn ==
    ASSUME NEW a, Coherent(a), Agrees(a), NEW s \in Sessions, NEW b \in Backends,
           HoldsTurn(a, s, b), NEW t \in Sessions, t # s, NEW c, Visited(a, c, t)
    PROVE  HoldsTurn(c, s, b)
<1>1. Known(c, s) /\ c.active # s
  BY DEF HoldsTurn, Visited
<1>2. CASE a.active = s
  <2>. DEFINE own == [backend |-> b, model |-> a.model]
              st == [a.sess[s] EXCEPT !.conv = HistoryOf(a, b), !.remote = own]
  <2>1. /\ a.sess[s] \in SessionStates /\ a.live = b /\ b # Local
        /\ a.sess[s].model = a.model /\ a.model \in Models
    BY <1>2, BackendsAssumption, MarkersAssumption
       DEF HoldsTurn, Agrees, Coherent, AgentType, Known
  <2>2. own \in Remotes /\ own.backend = b /\ own.model = a.model
    BY <2>1 DEF Remotes
  <2>3. own # NoRemote
    BY <2>2, MarkersAssumption
  <2>. HIDE DEF own
  <2>4. st.remote = own /\ st.model = a.model
    BY <2>1 DEF SessionStates
  <2>5. c.sess[s] = st
    BY <1>2, <2>1, MarkersAssumption DEF Visited, ParkedState, own
  <2>. QED  BY <1>1, <2>2, <2>3, <2>4, <2>5 DEF HoldsTurn
<1>3. CASE a.active # s
  BY <1>1, <1>3 DEF HoldsTurn, Visited
<1>. QED  BY <1>2, <1>3

LEMMA MovesHoldsTurn ==
    ASSUME NEW a, NEW c, Moves(a, c), NEW s \in Sessions, a.active # s, NEW b,
           HoldsTurn(a, s, b)
    PROVE  HoldsTurn(c, s, b)
BY DEF HoldsTurn, Moves

LEMMA ReachesHoldsTurn ==
    ASSUME NEW a, Coherent(a), Agrees(a), NEW s \in Sessions, NEW b \in Backends,
           HoldsTurn(a, s, b), NEW t \in Sessions, t # s, NEW c, Reaches(a, c, t)
    PROVE  HoldsTurn(c, s, b)
BY VisitedHoldsTurn, MovesHoldsTurn DEF Reaches

LEMMA ParkHoldsTurn ==
    ASSUME NEW a, Coherent(a), NEW s \in Sessions, NEW b, HoldsTurn(a, s, b)
    PROVE  HoldsTurn(Park(a), s, b)
BY ParkCoherent DEF HoldsTurn

LEMMA ClosedHoldsTurn ==
    ASSUME NEW a, Coherent(a), NEW s \in Sessions, NEW b, HoldsTurn(a, s, b),
           NEW t \in Sessions, t # s
    PROVE  HoldsTurn(ClosedAgent(a, t), s, b)
<1>1. LET c == ClosedAgent(a, t)
      IN  /\ c.active = IF a.active = t THEN NoSession ELSE a.active
          /\ c.live = a.live
          /\ \A x \in Sessions : x # t => c.sess[x] = a.sess[x]
  BY ClosedEffect
<1>. QED  BY <1>1, MarkersAssumption DEF HoldsTurn, Known

\* A step of another session's request leaves the session its backend.
LEMMA HandleHoldsTurn ==
    ASSUME Calm, NEW r \in Requests, Handle(r), NEW s \in Sessions,
           OnSession(req[r].kind) => req[r].sid # s,
           NEW b \in Backends, HoldsTurn(agent, s, b)
    PROVE  HoldsTurn(agent', s, b)
<1>1. /\ Coherent(agent) /\ Agrees(agent) /\ Settled(agent) /\ Typed /\ Known(agent, s)
      /\ OnSession(req[r].kind) => req[r].sid \in Sessions
      /\ req[r].kind \in KindsSent
  BY DEF Calm, IInv, TypeOK, Typed, Copies, Settled, HoldsTurn, Placed, IsPlaced, InLine,
         OnlySent, Handle, HandleNew, HandleLoad, HandleFork, HandleClose, HandleConfig,
         HandleLogout, Runs
<1>2. CASE HandleNew(r)
  BY <1>1, <1>2, NewReaches, VisitedHoldsTurn
<1>3. CASE HandleLoad(r)
  <2>1. req[r].sid \in Sessions /\ req[r].sid # s
    BY <1>1, <1>3 DEF HandleLoad, Runs, OnSession
  <2>. QED  BY <1>1, <1>3, <2>1, LoadReaches, VisitedHoldsTurn, ParkHoldsTurn
<1>4. CASE HandleFork(r)
  <2>1. req[r].sid \in Sessions
    BY <1>1, <1>4 DEF HandleFork, Runs, OnSession
  <2>. QED  BY <1>1, <1>4, <2>1, ForkReaches, VisitedHoldsTurn
<1>5. CASE HandleClose(r)
  <2>1. /\ req[r].sid \in Sessions /\ req[r].sid # s
        /\ agent' = ClosedAgent(agent, req[r].sid)
    BY <1>1, <1>5 DEF HandleClose, Runs, OnSession
  <2>. QED  BY <1>1, <2>1, ClosedHoldsTurn
<1>6. CASE HandleConfig(r)
  <2>1. req[r].sid \in Sessions /\ req[r].sid # s
    BY <1>1, <1>6 DEF HandleConfig, Runs, OnSession
  <2>. QED  BY <1>1, <1>6, <2>1, ConfigReaches, ReachesHoldsTurn
<1>7. CASE HandleLogout(r)
  <2>1. Provider /\ agent' = LeaveCloud(agent)
    BY <1>1, <1>7 DEF HandleLogout, Runs, Calm, NoFallback
  <2>2. agent'.active = agent.active /\ agent'.live = agent.live /\ agent'.sess = agent.sess
    BY <1>1, <2>1, LeaveCloudSettles
  <2>. QED  BY <2>2 DEF HoldsTurn, Known
<1>. QED  BY <1>2, <1>3, <1>4, <1>5, <1>6, <1>7 DEF Handle

LEMMA StepHoldsOthersTurn ==
    ASSUME Calm, TurnKeepsItsBackend, NEW r \in Requests, Step(r),
           NEW x \in Requests, x # r, InTurn(x)
    PROVE  HoldsTurn(agent', req[x].sid, req[x].backend)
<1>. DEFINE s == req[x].sid
            b == req[x].backend
<1>1. /\ Coherent(agent) /\ Agrees(agent) /\ IInv /\ Locks /\ RestTyped
  BY DEF Calm, IInv, TypeOK, Settled, Locks, RestTyped
<1>2. HoldsTurn(agent, s, b) /\ b \in Backends \cup {Local}
  BY <1>1 DEF TurnKeepsItsBackend, HoldsTurn, RestTyped, RequestType
<1>3. /\ s \in Sessions /\ req[x].kind = "prompt" /\ req[x].pc \notin {"idle", "session"}
  BY <1>1, TurnIsPrompt
<1>4. CASE agent' = agent
  BY <1>2, <1>4
<1>5. CASE agent' # agent
  <2>1. HasWorkspace(r) /\ ~Waits(r)
    BY <1>1, <1>5, StepKeepsAgent, WaitsKeepTurn DEF AgentKept
  <2>2. req[x].released /\ b # Local /\ b \in Backends
    <3>1. ~HasWorkspace(x)
      BY <2>1 DEF HasWorkspace
    <3>2. IsHolding(x)
      BY <1>1 DEF IInv, Holding
    <3>. QED  BY <1>2, <3>1, <3>2 DEF IsHolding, InTurn
  <2>3. req[r].pc \in {"workspace", "resume"}
    BY <2>1 DEF Step, Waits, Handle, HandleNew, HandleLoad, HandleFork, HandleClose,
       HandleConfig, HandleLogout, TakeTurn, RejectPrompt, RunSlash, AskModel, Resume, Runs
  <2>4. OnSession(req[r].kind) => req[r].sid # s
    BY <1>1, <1>3, <2>3, OneOwner DEF OnSession, Locks
  <2>5. CASE Handle(r)
    BY <1>2, <1>3, <2>2, <2>4, <2>5, HandleHoldsTurn
  <2>6. CASE TakeTurn(r) \/ Resume(r)
    <3>1. req[r].kind = "prompt"
      BY <1>1, <2>6, TurnIsPrompt DEF TakeTurn, RejectPrompt, RunSlash, AskModel, Runs,
         Resume, InTurn
    <3>2. /\ req[r].sid \in Sessions /\ req[r].sid # s /\ req[r].turn \in Turns
      BY <1>1, <2>3, <2>4, <3>1 DEF OnSession, Locks, Placed, IsPlaced, InLine
    <3>3. Reaches(agent, agent', req[r].sid)
      <4>1. CASE TakeTurn(r)
        BY <1>1, <3>2, <4>1, RejectReaches, SlashReaches, AskReaches DEF TakeTurn
      <4>2. CASE Resume(r)
        <5>1. InTurn(r)
          BY <4>2 DEF Resume, InTurn
        <5>2. Known(agent, req[r].sid) /\ (~req[r].released => agent.active = req[r].sid)
          BY <1>1, <5>1 DEF IInv, TurnsAreOpen, TurnsAreLive
        <5>. QED  BY <1>1, <3>2, <4>2, <5>2, ResumeReaches
      <4>. QED  BY <2>6, <4>1, <4>2
    <3>. QED  BY <1>1, <1>2, <1>3, <2>2, <3>2, <3>3, ReachesHoldsTurn
  <2>. QED  BY <2>1, <2>5, <2>6 DEF Step, Waits
<1>. QED  BY <1>4, <1>5

\* A turn that goes on goes on with its session and its backend.
LEMMA ResumeKeepsTurn ==
    ASSUME RestTyped, NEW r \in Requests, Resume(r), InTurn(r)'
    PROVE  req'[r].sid = req[r].sid /\ req'[r].backend = req[r].backend
<1>1. ~Answer(r) /\ req[r] \in RequestType
  BY AnswerEndsTurn DEF RestTyped
<1>2. \/ GoOn(r, req[r].round + 1) \/ GoOn(r, req[r].round)
      \/ req' = [req EXCEPT ![r].pc = "run", ![r].outcome = "none", ![r].released = FALSE]
  BY <1>1, Zenon DEF Resume
<1>3. CASE req' = [req EXCEPT ![r].pc = "run", ![r].outcome = "none", ![r].released = FALSE]
  BY <1>1, <1>3 DEF RestTyped, RequestType
<1>. QED  BY <1>2, <1>3, GoOnKeepsTurn

LEMMA StepHoldsOwnTurn ==
    ASSUME Calm, TurnKeepsItsBackend, NEW r \in Requests, Step(r), InTurn(r)'
    PROVE  HoldsTurn(agent', req'[r].sid, req'[r].backend)
<1>1. /\ Coherent(agent) /\ Agrees(agent) /\ IInv /\ Locks /\ RestTyped
      /\ req[r] \in RequestType
  BY DEF Calm, IInv, TypeOK, Settled, Locks, RestTyped
<1>2. InTurn(r) => HoldsTurn(agent, req[r].sid, req[r].backend)
  BY DEF TurnKeepsItsBackend, HoldsTurn
<1>3. CASE Waits(r)
  BY <1>1, <1>2, <1>3, WaitsKeepTurn
<1>4. ~(Handle(r) \/ RejectPrompt(r) \/ RunSlash(r))
  BY <1>1, AnswerEndsTurn DEF Handle, HandleNew, HandleLoad, HandleFork, HandleClose,
     HandleConfig, HandleLogout, RejectPrompt, RunSlash
<1>5. CASE AskModel(r)
  <2>1. req[r].sid \in Sessions /\ req[r].turn \in Turns
    BY <1>1, <1>5 DEF Locks, Placed, IsPlaced, InLine, OnSession, AskModel, Runs
  <2>2. Known(agent', req[r].sid) /\ agent'.active = req[r].sid
    BY <1>1, <1>5, <2>1, AskReaches
  <2>3. PICK here \in AgentType :
          /\ agent'.live = here.live
          /\ Wait(r, [req[r] EXCEPT !.pc = "infer", !.backend = here.live,
                        !.before = IF here.live = Local THEN << >>
                                   ELSE HistoryOf(here, here.live)])
    BY <1>1, <1>5, <2>1, AskReaches
  <2>4. req'[r].sid = req[r].sid /\ req'[r].backend = here.live
    BY <1>1, <2>3 DEF Wait, RestTyped, RequestType
  <2>. QED  BY <2>2, <2>3, <2>4 DEF HoldsTurn
<1>6. CASE Resume(r)
  <2>. DEFINE s == req[r].sid
              b == req[r].backend
  <2>1. InTurn(r)
    BY <1>6 DEF Resume, InTurn
  <2>2. /\ s \in Sessions /\ Known(agent, s)
        /\ ~req[r].released => agent.active = s
    BY <1>1, <2>1, TurnIsPrompt DEF IInv, TurnsAreOpen, TurnsAreLive
  <2>3. req'[r].sid = s /\ req'[r].backend = b
    BY <1>1, <1>6, ResumeKeepsTurn
  <2>4. HoldsTurn(agent, s, b)
    BY <1>2, <2>1
  <2>5. agent' = agent \/ \E ok \in Loads : agent' = Reinstall(agent, s, ok)
    BY <1>1, <1>6, <2>2, ResumeReaches
  <2>6. ASSUME agent.active # s, NEW ok \in Loads, agent' = Reinstall(agent, s, ok)
        PROVE  HoldsTurn(agent', s, b)
    <3>1. OwnBackend(agent, s)
      BY <2>4, <2>6 DEF HoldsTurn, OwnBackend
    <3>2. agent' = Activate(agent, s, ok)
      BY <2>2, <2>6 DEF Reinstall
    <3>3. Visited(agent, agent', s) /\ agent'.live = agent.sess[s].remote.backend
      BY <1>1, <2>2, <2>6, <3>1, <3>2, ActivateEffect
    <3>. QED  BY <2>4, <2>6, <3>3 DEF HoldsTurn, Visited
  <2>7. ASSUME agent.active = s, NEW ok \in Loads, agent' = Reinstall(agent, s, ok)
        PROVE  agent' = agent
    BY <2>7, ActivateLive DEF Reinstall
  <2>. QED  BY <2>3, <2>4, <2>5, <2>6, <2>7
<1>. QED  BY <1>3, <1>4, <1>5, <1>6 DEF Step, Waits, TakeTurn

LEMMA NextKeepsBackends ==
    ASSUME Calm, TurnKeepsItsBackend, [Next]_vars
    PROVE  TurnKeepsItsBackend'
<1>1. ASSUME NEW r \in Requests, Step(r)
      PROVE  TurnKeepsItsBackend'
  <2>. SUFFICES ASSUME NEW x \in Requests, InTurn(x)'
                PROVE  HoldsTurn(agent', req'[x].sid, req'[x].backend)
    BY DEF TurnKeepsItsBackend, HoldsTurn
  <2>1. CASE x = r
    BY <1>1, <2>1, StepHoldsOwnTurn
  <2>2. CASE x # r
    <3>1. Untouched(x)
      BY <1>1, <2>2, StepTouchesOwn DEF Calm, IInv, TypeOK, RestTyped
    <3>2. InTurn(x) /\ req'[x].sid = req[x].sid /\ req'[x].backend = req[x].backend
      BY <3>1 DEF Untouched, InTurn
    <3>. QED  BY <1>1, <2>2, <3>2, StepHoldsOthersTurn
  <2>. QED  BY <2>1, <2>2
<1>2. CASE Restart
  BY <1>2 DEF Restart, Idle, InTurn, TurnKeepsItsBackend
<1>3. CASE UNCHANGED <<agent, req>>
  BY <1>3 DEF TurnKeepsItsBackend, InTurn, Known
<1>. QED  BY <1>1, <1>2, <1>3, NextIsStep DEF ChangeDir, vars

\* The backend a turn was given stays its session's until the turn ends, whatever
\* sessions are installed, opened and closed while it waits, as long as models
\* load, the account stays signed in and, with a provider override, no model is
\* picked (the comment at main.rs 3530; install_session, which takes a parked
\* backend back only for the model the session has picked).
THEOREM TurnsKeepTheirBackend ==
    ASSUME NoFallback
    PROVE  Spec => []TurnKeepsItsBackend
<1>. DEFINE Inv == Calm /\ TurnKeepsItsBackend
<1>1. Init => Inv
  <2>. SUFFICES ASSUME Init PROVE Inv
    OBVIOUS
  <2>1. \A r \in Requests : ~InTurn(r)
    BY DEF Init, Idle, InTurn
  <2>. QED  BY <2>1, InitCalm DEF TurnKeepsItsBackend
<1>2. Inv /\ [Next]_vars => Inv'
  BY CalmNext, NextKeepsBackends
<1>3. Inv => TurnKeepsItsBackend
  OBVIOUS
<1>. QED  BY <1>1, <1>2, <1>3, PTL DEF Spec
-----------------------------------------------------------------------------
(* Threads of sessions that are served by endpoints *)

\* With an override, as long as no model is picked and the backend is not made
\* again, every session is served by an endpoint of its own.
EndpointsOnly ==
    /\ Provider
    /\ "config" \notin KindsSent
    /\ "models" \notin CommandsSent /\ "reload" \notin CommandsSent

\* A parked session has its backend, which holds what is parked.
OnEndpoints(a) ==
    /\ a.live \in Backends
    /\ \A s \in Sessions : Known(a, s) /\ a.active # s =>
          /\ OwnBackend(a, s)
          /\ a.hist[a.sess[s].remote.backend] = a.sess[s].conv

Served(a) == Coherent(a) /\ OneModel(a) /\ OnEndpoints(a)

\* ThreadOf, of any agent that serves its sessions so.
ThreadIn(a, s) ==
    IF ~Known(a, s) THEN NoState
    ELSE IF a.active = s THEN a.hist[a.live] ELSE a.sess[s].conv

LEMMA ThreadIs ==
    ASSUME Served(agent), NEW s \in Sessions
    PROVE  ThreadOf(s) = ThreadIn(agent, s)
BY BackendsAssumption DEF ThreadOf, ThreadIn, Served, OnEndpoints, OwnBackend, HistoryOf

LEMMA ThreadType ==
    ASSUME NEW a, Served(a), NEW s \in Sessions
    PROVE  /\ Known(a, s) => ThreadIn(a, s) \in Conversations
           /\ Known(a, s) <=> ThreadIn(a, s) # NoState
<1>1. Known(a, s) => ThreadIn(a, s) \in Conversations
  BY DEF ThreadIn, Served, OnEndpoints, Coherent, AgentType, SessionStates, Known
<1>. QED  BY <1>1, MarkersAssumption DEF ThreadIn

\* Session s is put in place and has conversation c; what the other sessions'
\* backends hold is what they held.
Opened(a, b, s, c) ==
    /\ Visited(a, b, s)
    /\ OneModel(b)
    /\ b.live \in Backends
    /\ b.hist[b.live] = c
    /\ \A x \in Sessions : x # s /\ Known(b, x) =>
          b.hist[b.sess[x].remote.backend] = a.hist[b.sess[x].remote.backend]

LEMMA ParkedIs ==
    ASSUME NEW a, Served(a), a.active # NoSession
    PROVE  LET st == ParkedState(a)
           IN  /\ st.remote # NoRemote
               /\ st.remote.backend = a.live
               /\ st.remote.model = DefaultLocal
               /\ st.model = DefaultLocal
               /\ st.conv = a.hist[a.live]
<1>. DEFINE own == [backend |-> a.live, model |-> a.model]
            st == [a.sess[a.active] EXCEPT !.conv = HistoryOf(a, a.live), !.remote = own]
<1>1. /\ a.sess[a.active] \in SessionStates /\ a.sess[a.active].model = DefaultLocal
      /\ a.live \in Backends /\ a.live # Local /\ a.model = DefaultLocal /\ a.model \in Models
  BY BackendsAssumption
     DEF Served, Coherent, ActiveIsKnown, AgentType, Known, OneModel, OnEndpoints
<1>2. own \in Remotes /\ own.backend = a.live /\ own.model = DefaultLocal
  BY <1>1 DEF Remotes
<1>3. own # NoRemote
  BY <1>2, MarkersAssumption
<1>. HIDE DEF own
<1>4. /\ st.remote = own /\ st.model = DefaultLocal
      /\ st.conv = HistoryOf(a, a.live)
  BY <1>1 DEF SessionStates
<1>5. ParkedState(a) = st
  BY <1>1 DEF ParkedState, own
<1>6. HistoryOf(a, a.live) = a.hist[a.live]
  BY <1>1 DEF HistoryOf
<1>. HIDE DEF st
<1>. QED  BY <1>2, <1>3, <1>4, <1>5, <1>6

LEMMA OpenedServed ==
    ASSUME NEW a, Served(a), NEW s \in Sessions, NEW c, NEW b, Opened(a, b, s, c)
    PROVE  /\ Served(b)
           /\ Known(b, s) /\ ThreadIn(b, s) = c
           /\ \A x \in Sessions : x # s => ThreadIn(b, x) = ThreadIn(a, x)
<1>1. /\ Coherent(b) /\ b.active = s /\ Known(b, s) /\ OneModel(b) /\ b.live \in Backends
      /\ b.hist[b.live] = c
  BY DEF Opened, Visited
<1>2. ASSUME NEW x \in Sessions, x # s, Known(b, x)
      PROVE  /\ Known(a, x)
             /\ OwnBackend(b, x)
             /\ b.hist[b.sess[x].remote.backend] = b.sess[x].conv
             /\ b.sess[x].conv = ThreadIn(a, x)
  <2>1. Known(a, x)
    BY <1>2 DEF Opened, Visited
  <2>2. b.hist[b.sess[x].remote.backend] = a.hist[b.sess[x].remote.backend]
    BY <1>2 DEF Opened
  <2>3. CASE x = a.active
    <3>1. a.active # NoSession /\ b.sess[x] = ParkedState(a)
      BY <1>2, <2>3, MarkersAssumption DEF Opened, Visited
    <3>. QED  BY <2>1, <2>2, <2>3, <3>1, ParkedIs DEF OwnBackend, ThreadIn
  <2>4. CASE x # a.active
    <3>1. b.sess[x] = a.sess[x]
      BY <1>2, <2>4 DEF Opened, Visited
    <3>. QED  BY <2>1, <2>2, <2>4, <3>1 DEF Served, OnEndpoints, OwnBackend, ThreadIn
  <2>. QED  BY <2>3, <2>4
<1>3. Served(b)
  BY <1>1, <1>2 DEF Served, OnEndpoints
<1>4. ASSUME NEW x \in Sessions, x # s
      PROVE  ThreadIn(b, x) = ThreadIn(a, x)
  <2>1. CASE Known(b, x)
    BY <1>1, <1>2, <1>4, <2>1 DEF ThreadIn
  <2>2. CASE ~Known(b, x)
    <3>1. ~Known(a, x)
      BY <1>4, <2>2 DEF Opened, Visited
    <3>. QED  BY <2>2, <3>1 DEF ThreadIn
  <2>. QED  BY <2>1, <2>2
<1>. QED  BY <1>1, <1>3, <1>4 DEF ThreadIn

LEMMA InstallHistories ==
    ASSUME NEW p \in AgentType, NEW s \in Sessions, Known(p, s), p.live # Local
    PROVE  /\ OwnBackend(p, s) => Install(p, s).hist = p.hist
           /\ ~OwnBackend(p, s) =>
                Install(p, s).hist = [p.hist EXCEPT ![NewBackend(p)] = p.sess[s].conv]
<1>. DEFINE state == p.sess[s]
            here == [p EXCEPT !.active = s,
                              !.procDir = IF state.cwd \in present THEN state.cwd ELSE @,
                              !.sess[s].remote = NoRemote]
            mine == [here EXCEPT !.engine = << >>, !.live = state.remote.backend,
                                 !.model = state.remote.model]
            other == [here EXCEPT !.live = NewBackend(p)]
<1>1. here.hist = p.hist /\ mine.hist = here.hist
  BY DEF AgentType
<1>2. NewBackend(p) \in Backends /\ NewBackend(p) # Local
  BY FreshBackend, BackendsAssumption
<1>3. other.hist = p.hist /\ other.live = NewBackend(p)
  BY <1>1 DEF AgentType
<1>4. Install(p, s) = IF OwnBackend(p, s) THEN mine ELSE Seed(other, state.conv)
  BY DEF Install, OwnBackend, here, mine, other
<1>5. DOMAIN other = DOMAIN p
  BY DEF AgentType
<1>. HIDE DEF mine, other, here
<1>6. Seed(other, state.conv).hist = [p.hist EXCEPT ![NewBackend(p)] = state.conv]
  <2>. DEFINE e == [other EXCEPT !.engine = << >>]
              h == [e.hist EXCEPT ![NewBackend(p)] = state.conv]
  <2>1. Seed(other, state.conv) = [e EXCEPT !.hist = h]
    BY <1>2, <1>3, Zenon DEF Seed, Restore, h
  <2>2. e.hist = p.hist /\ DOMAIN e = DOMAIN p /\ "hist" \in DOMAIN p
    BY <1>3, <1>5 DEF AgentType
  <2>. HIDE DEF e
  <2>. QED  BY <2>1, <2>2
<1>. QED  BY <1>1, <1>4, <1>6

\* With an override no model is put back.
LEMMA RestoreModelOff ==
    ASSUME Provider, NEW a, NEW s, NEW ok
    PROVE  RestoreModel(a, s, ok) = a
BY DEF RestoreModel

LEMMA ParkHistories ==
    ASSUME NEW a, Coherent(a)
    PROVE  Park(a).hist = a.hist
<1>1. CASE a.active = NoSession \/ ~Known(a, a.active)
  BY <1>1 DEF Park
<1>2. CASE ~(a.active = NoSession \/ ~Known(a, a.active))
  <2>1. Park(a) = [a EXCEPT !.sess = [a.sess EXCEPT ![a.active] = ParkedState(a)]]
    BY <1>2, ParkEffect DEF Coherent
  <2>. QED  BY <2>1 DEF Coherent, AgentType
<1>. QED  BY <1>1, <1>2

\* A session that is opened gets what it is opened with.
LEMMA OpenOpens ==
    ASSUME Provider, NEW a, Served(a), NEW s \in Sessions, NEW ok,
           NEW st \in SessionStates, st.remote = NoRemote, st.model = DefaultLocal
    PROVE  Opened(a, OpenParked(Park(a), s, st, ok), s, st.conv)
<1>. DEFINE p == Park(a)
            q == [p EXCEPT !.sess[s] = st]
            b == OpenParked(p, s, st, ok)
            k == NewBackend(q)
<1>1. Coherent(a) /\ NeverFallsBack(a) /\ a.live \in Backends /\ a.live # Local
  BY BackendsAssumption DEF Served, NeverFallsBack, OnEndpoints
<1>2. /\ CoherentParked(p) /\ NeverFallsBack(p) /\ p.live = a.live /\ p.hist = a.hist
  BY <1>1, ParkCoherent, ParkNeverFallsBack, ParkHistories
<1>3. Visited(a, b, s)
  BY <1>1, OpenEffect
<1>4. OneModel(b)
  BY <1>2, OpenSettles DEF Settled, NeverFallsBack
<1>5. b = Install(q, s)
  BY RestoreModelOff DEF OpenParked, InstallAndRestore
<1>6. /\ CoherentParked(q) /\ q.sess[s] = st /\ q.live = p.live
      /\ \A x \in Sessions : x # s => q.sess[x] = p.sess[x]
  BY <1>2, OpenSlot
<1>7. q.hist = p.hist
  BY <1>2 DEF CoherentParked, AgentType
<1>. HIDE DEF q, b
<1>8. q \in AgentType /\ Known(q, s) /\ ~OwnBackend(q, s) /\ q.live # Local
  BY <1>1, <1>2, <1>6, MarkersAssumption DEF CoherentParked, Known, OwnBackend
<1>9. b.live = k /\ k \in Backends /\ k \notin HeldBackends(q)
  BY <1>5, <1>8, InstallEffect, FreshBackend DEF Installed
<1>10. b.hist = [q.hist EXCEPT ![k] = st.conv] /\ q.hist \in [Backends -> Conversations]
  BY <1>5, <1>6, <1>8, InstallHistories DEF AgentType
<1>. HIDE DEF k
<1>11. ASSUME NEW x \in Sessions, x # s, Known(b, x)
       PROVE  b.hist[b.sess[x].remote.backend] = a.hist[b.sess[x].remote.backend]
  <2>1. b.sess[x] = q.sess[x] /\ Known(q, x)
    <3>1. CoherentParked(q) /\ Known(q, s)
      BY <1>6, <1>8
    <3>2. /\ \A y \in Sessions : Known(Install(q, s), y) <=> Known(q, y)
          /\ \A y \in Sessions : y # s => Install(q, s).sess[y] = q.sess[y]
      BY <3>1, InstallCoherent
    <3>. QED  BY <1>5, <1>11, <3>2
  <2>2. q.sess[x].remote # NoRemote
    <3>1. CASE x = a.active
      <4>1. a.active # NoSession
        BY <3>1, MarkersAssumption
      <4>2. q.sess[x] = ParkedState(a)
        BY <1>1, <1>6, <1>11, <3>1, <4>1, ParkCoherent
      <4>. QED  BY <4>1, <4>2, ParkedIs
    <3>2. CASE x # a.active
      <4>1. q.sess[x] = a.sess[x]
        BY <1>1, <1>6, <1>11, <3>2, ParkCoherent
      <4>. QED  BY <2>1, <3>2, <4>1 DEF Served, OnEndpoints, OwnBackend, Known
    <3>. QED  BY <3>1, <3>2
  <2>3. q.sess[x].remote.backend \in HeldBackends(q)
    BY <2>1, <2>2 DEF HeldBackends, Known
  <2>4. q.sess[x].remote.backend # k
    BY <1>9, <2>3
  <2>5. q.sess[x].remote.backend \in Backends
    BY <1>8, <2>1, <2>2 DEF AgentType, Known, SessionStates, Remotes
  <2>. QED  BY <1>2, <1>7, <1>10, <2>1, <2>4, <2>5
<1>12. b.hist[b.live] = st.conv
  BY <1>9, <1>10
<1>. HIDE DEF p
<1>13. Opened(a, b, s, st.conv)
  BY <1>3, <1>4, <1>9, <1>11, <1>12 DEF Opened
<1>. QED  BY <1>13 DEF b, p

\* A session that is activated finds its thread.
LEMMA ActivateOpens ==
    ASSUME Provider, NEW a, Served(a), Settled(a), NEW s \in Sessions, Known(a, s),
           a.active # s, NEW ok
    PROVE  Opened(a, Activate(a, s, ok), s, ThreadIn(a, s))
<1>. DEFINE p == Park(a)
            b == Activate(a, s, ok)
<1>1. Coherent(a) /\ OwnBackend(a, s) /\ a.live # Local
      /\ a.hist[a.sess[s].remote.backend] = a.sess[s].conv
  BY BackendsAssumption DEF Served, OnEndpoints
<1>2. Visited(a, b, s) /\ b.live = a.sess[s].remote.backend
  BY <1>1, ActivateEffect
<1>3. OneModel(b)
  BY <1>1, ActivateSettles DEF Settled, NeverFallsBack
<1>4. b = Install(p, s)
  BY RestoreModelOff DEF Activate, InstallAndRestore
<1>5. CoherentParked(p) /\ p.sess[s] = a.sess[s] /\ Known(p, s) /\ p.live = a.live
      /\ p.hist = a.hist
  BY <1>1, ParkCoherent, ParkHistories
<1>. HIDE DEF p, b
<1>6. b.hist = a.hist
  <2>1. p \in AgentType /\ p.live # Local
    BY <1>1, <1>5 DEF CoherentParked
  <2>2. OwnBackend(p, s)
    BY <1>1, <1>5 DEF OwnBackend
  <2>3. Install(p, s).hist = p.hist
    BY <1>5, <2>1, <2>2, InstallHistories
  <2>. QED  BY <1>4, <1>5, <2>3
<1>7. b.live \in Backends
  BY <1>1, <1>2 DEF OwnBackend, Coherent, AgentType, Known, SessionStates, Remotes
<1>8. b.hist[b.live] = ThreadIn(a, s)
  BY <1>1, <1>2, <1>6 DEF ThreadIn
<1>9. Opened(a, b, s, ThreadIn(a, s))
  BY <1>2, <1>3, <1>6, <1>7, <1>8 DEF Opened
<1>. QED  BY <1>9 DEF b

\* What is done to the live session's conversation, which is c afterwards.
OnLive(a, b, c) ==
    /\ Coherent(b) /\ OneModel(b)
    /\ b.active = a.active /\ b.live = a.live
    /\ \A x \in Sessions : Known(b, x) <=> Known(a, x)
    /\ \A x \in Sessions : x # a.active => b.sess[x] = a.sess[x]
    /\ b.hist[b.live] = c
    /\ \A k \in Backends : k # a.live => b.hist[k] = a.hist[k]

LEMMA OnLiveServed ==
    ASSUME NEW a, Served(a), NEW c, NEW b, OnLive(a, b, c)
    PROVE  /\ Served(b)
           /\ \A x \in Sessions : x # a.active => ThreadIn(b, x) = ThreadIn(a, x)
           /\ \A x \in Sessions : x = a.active => Known(a, x) /\ Known(b, x)
                                                  /\ ThreadIn(b, x) = c
<1>1. ASSUME NEW x \in Sessions, x # a.active, Known(b, x)
      PROVE  /\ Known(a, x) /\ b.sess[x] = a.sess[x]
             /\ a.sess[x].remote.backend # a.live
             /\ a.sess[x].remote.backend \in Backends
             /\ b.hist[a.sess[x].remote.backend] = a.hist[a.sess[x].remote.backend]
             /\ OwnBackend(a, x) /\ a.hist[a.sess[x].remote.backend] = a.sess[x].conv
  <2>1. Known(a, x) /\ b.sess[x] = a.sess[x]
    BY <1>1 DEF OnLive
  <2>2. OwnBackend(a, x) /\ a.hist[a.sess[x].remote.backend] = a.sess[x].conv
    BY <1>1, <2>1 DEF Served, OnEndpoints
  <2>3. a.sess[x].remote.backend # a.live
    BY <1>1, <2>1, <2>2 DEF Served, Coherent, Owned, Holds, OwnBackend
  <2>4. a.sess[x].remote.backend \in Backends
    BY <2>1, <2>2 DEF OwnBackend, Served, Coherent, AgentType, Known, SessionStates, Remotes
  <2>. QED  BY <2>1, <2>2, <2>3, <2>4 DEF OnLive
<1>2. Served(b)
  BY <1>1 DEF Served, OnEndpoints, OnLive, OwnBackend
<1>3. ASSUME NEW x \in Sessions, x # a.active PROVE ThreadIn(b, x) = ThreadIn(a, x)
  BY <1>1, <1>3 DEF ThreadIn, OnLive
<1>4. ASSUME NEW x \in Sessions, x = a.active
      PROVE  Known(a, x) /\ Known(b, x) /\ ThreadIn(b, x) = c
  <2>1. Known(a, x)
    BY <1>4, MarkersAssumption DEF Served, Coherent, ActiveIsKnown
  <2>. QED  BY <1>4, <2>1 DEF ThreadIn, OnLive
<1>. QED  BY <1>2, <1>3, <1>4

-----------------------------------------------------------------------------
(* The steps of SessionThreads, session by session *)

OneOf(T) == IF T = {} THEN 0 ELSE CHOOSE t \in T : TRUE
RunningTurn(s) == OneOf(RunningOn(s))
SavedThread(s) == IF saved[s] = NoCopy THEN NoCopy ELSE saved[s].conv

\* The three variables of SessionThreads.
ThreadMap == [s \in Sessions |-> ThreadOf(s)]
RunningMap == [s \in Sessions |-> RunningTurn(s)]
SavedMap == [s \in Sessions |-> SavedThread(s)]

SameThreads == \A x \in Sessions : ThreadOf(x)' = ThreadOf(x)
SameRunning == \A x \in Sessions : RunningTurn(x)' = RunningTurn(x)
SameSaved == \A x \in Sessions : SavedThread(x)' = SavedThread(x)

\* One session's thread becomes c, or the turn on it t, or its copy c.
ThreadBecomes(s, c) ==
    /\ ThreadOf(s)' = c
    /\ \A x \in Sessions : x # s => ThreadOf(x)' = ThreadOf(x)
RunningBecomes(s, t) ==
    /\ RunningTurn(s)' = t
    /\ \A x \in Sessions : x # s => RunningTurn(x)' = RunningTurn(x)
SavedBecomes(s, c) ==
    /\ SavedThread(s)' = c
    /\ \A x \in Sessions : x # s => SavedThread(x)' = SavedThread(x)

LEMMA SameMaps ==
    /\ SameThreads => ThreadMap' = ThreadMap
    /\ SameRunning => RunningMap' = RunningMap
    /\ SameSaved => SavedMap' = SavedMap
<1>1. SameThreads => ThreadMap' = ThreadMap
  BY DEF SameThreads, ThreadMap
<1>2. SameRunning => RunningMap' = RunningMap
  BY DEF SameRunning, RunningMap
<1>3. SameSaved => SavedMap' = SavedMap
  BY DEF SameSaved, SavedMap
<1>. QED  BY <1>1, <1>2, <1>3

LEMMA MapsBecome ==
    ASSUME NEW s \in Sessions, NEW c
    PROVE  /\ ThreadBecomes(s, c) => ThreadMap' = [ThreadMap EXCEPT ![s] = c]
           /\ RunningBecomes(s, c) => RunningMap' = [RunningMap EXCEPT ![s] = c]
           /\ SavedBecomes(s, c) => SavedMap' = [SavedMap EXCEPT ![s] = c]
<1>1. ThreadBecomes(s, c) => ThreadMap' = [ThreadMap EXCEPT ![s] = c]
  BY DEF ThreadBecomes, ThreadMap
<1>2. RunningBecomes(s, c) => RunningMap' = [RunningMap EXCEPT ![s] = c]
  BY DEF RunningBecomes, RunningMap
<1>3. SavedBecomes(s, c) => SavedMap' = [SavedMap EXCEPT ![s] = c]
  BY DEF SavedBecomes, SavedMap
<1>. QED  BY <1>1, <1>2, <1>3

LEMMA AbstractStutter ==
    ASSUME SameThreads, SameRunning, SameSaved
    PROVE  UNCHANGED Threads!vars
<1>1. ThreadMap' = ThreadMap /\ RunningMap' = RunningMap /\ SavedMap' = SavedMap
  BY SameMaps
<1>. QED  BY <1>1 DEF Threads!vars, ThreadMap, RunningMap, SavedMap, RunningTurn, OneOf, SavedThread

LEMMA AbstractNew ==
    ASSUME NEW s \in Sessions, ThreadOf(s) = NoState, SavedThread(s) = NoCopy,
           ThreadBecomes(s, << >>), SameRunning, SameSaved
    PROVE  Threads!Next
<1>1. /\ ThreadMap' = [ThreadMap EXCEPT ![s] = << >>]
      /\ RunningMap' = RunningMap /\ SavedMap' = SavedMap
  BY SameMaps, MapsBecome
<1>2. ThreadMap[s] = NoState /\ SavedMap[s] = NoCopy
  BY DEF ThreadMap, SavedMap
<1>3. Threads!New(s)
  BY <1>1, <1>2
     DEF Threads!New, Threads!Open, ThreadMap, RunningMap, SavedMap, RunningTurn, OneOf, SavedThread
<1>. QED  BY <1>3 DEF Threads!Next

LEMMA AbstractLoad ==
    ASSUME NEW s \in Sessions, RunningTurn(s) = 0, SavedThread(s) # NoCopy,
           ThreadBecomes(s, SavedThread(s)), SameRunning, SameSaved
    PROVE  Threads!Next
<1>1. /\ ThreadMap' = [ThreadMap EXCEPT ![s] = SavedThread(s)]
      /\ RunningMap' = RunningMap /\ SavedMap' = SavedMap
  BY SameMaps, MapsBecome
<1>2. RunningMap[s] = 0 /\ SavedMap[s] = SavedThread(s)
  BY DEF RunningMap, SavedMap
<1>3. Threads!Load(s)
  BY <1>1, <1>2
     DEF Threads!Load, Threads!Quiet, ThreadMap, RunningMap, SavedMap, RunningTurn, OneOf,
         SavedThread
<1>. QED  BY <1>3 DEF Threads!Next

LEMMA AbstractFork ==
    ASSUME NEW s \in Sessions, NEW n \in Sessions, RunningTurn(s) = 0,
           ThreadOf(n) = NoState, SavedThread(n) = NoCopy,
           ThreadBecomes(n, IF ThreadOf(s) # NoState THEN ThreadOf(s)
                            ELSE IF SavedThread(s) # NoCopy THEN SavedThread(s) ELSE << >>),
           SameRunning, SameSaved
    PROVE  Threads!Next
<1>. DEFINE source == IF ThreadOf(s) # NoState THEN ThreadOf(s)
                      ELSE IF SavedThread(s) # NoCopy THEN SavedThread(s) ELSE << >>
<1>1. /\ ThreadMap' = [ThreadMap EXCEPT ![n] = source]
      /\ RunningMap' = RunningMap /\ SavedMap' = SavedMap
  BY SameMaps, MapsBecome
<1>2. /\ RunningMap[s] = 0 /\ ThreadMap[n] = NoState /\ SavedMap[n] = NoCopy
      /\ ThreadMap[s] = ThreadOf(s) /\ SavedMap[s] = SavedThread(s)
  BY DEF ThreadMap, RunningMap, SavedMap
<1>3. source = Threads!ForkSource(s)
  BY DEF Threads!ForkSource, Threads!Open, SavedThread
<1>. HIDE DEF source
<1>4. Threads!Fork(s, n)
  BY <1>1, <1>2, <1>3
     DEF Threads!Fork, Threads!Quiet, Threads!Open, ThreadMap, RunningMap, SavedMap,
         RunningTurn, OneOf, SavedThread
<1>. QED  BY <1>4 DEF Threads!Next

LEMMA AbstractClose ==
    ASSUME NEW s \in Sessions, RunningTurn(s) = 0, ThreadBecomes(s, NoState), SameRunning,
           SavedBecomes(s, SavedThread(s)) \/ SavedBecomes(s, NoCopy)
    PROVE  Threads!Next
<1>1. /\ ThreadMap' = [ThreadMap EXCEPT ![s] = NoState]
      /\ RunningMap' = RunningMap
      /\ \E copy \in {SavedMap[s], NoCopy} : SavedMap' = [SavedMap EXCEPT ![s] = copy]
  <2>1. SavedMap[s] = SavedThread(s)
    BY DEF SavedMap
  <2>. QED  BY <2>1, SameMaps, MapsBecome
<1>2. RunningMap[s] = 0
  BY DEF RunningMap
<1>3. Threads!Close(s)
  BY <1>1, <1>2
     DEF Threads!Close, Threads!Quiet, ThreadMap, RunningMap, SavedMap, RunningTurn, OneOf,
         SavedThread
<1>. QED  BY <1>3 DEF Threads!Next

LEMMA AbstractAsk ==
    ASSUME NEW s \in Sessions, NEW t \in Turns, ThreadOf(s) # NoState, RunningTurn(s) = 0,
           \A o \in Sessions : ThreadOf(o) # NoState =>
              \A i \in 1..Len(ThreadOf(o)) : ThreadOf(o)[i] # t,
           ThreadBecomes(s, Append(ThreadOf(s), t)), RunningBecomes(s, t), SameSaved
    PROVE  Threads!Next
<1>1. /\ ThreadMap' = [ThreadMap EXCEPT ![s] = Append(ThreadMap[s], t)]
      /\ RunningMap' = [RunningMap EXCEPT ![s] = t] /\ SavedMap' = SavedMap
  <2>1. ThreadMap[s] = ThreadOf(s)
    BY DEF ThreadMap
  <2>. QED  BY <2>1, SameMaps, MapsBecome
<1>2. /\ ThreadMap[s] # NoState /\ RunningMap[s] = 0
      /\ \A o \in Sessions : ThreadMap[o] # NoState =>
            \A i \in 1..Len(ThreadMap[o]) : ThreadMap[o][i] # t
  BY DEF ThreadMap, RunningMap
<1>3. Threads!Ask(s, t)
  BY <1>1, <1>2
     DEF Threads!Ask, Threads!Quiet, Threads!Open, ThreadMap, RunningMap, SavedMap,
         RunningTurn, OneOf, SavedThread
<1>. QED  BY <1>3 DEF Threads!Next

LEMMA AbstractEnd ==
    ASSUME NEW s \in Sessions, RunningTurn(s) # 0, SameThreads, RunningBecomes(s, 0),
           SavedBecomes(s, SavedThread(s)) \/ SavedBecomes(s, ThreadOf(s))
    PROVE  Threads!Next
<1>1. /\ ThreadMap' = ThreadMap /\ RunningMap' = [RunningMap EXCEPT ![s] = 0]
      /\ \E copy \in {SavedMap[s], ThreadMap[s]} : SavedMap' = [SavedMap EXCEPT ![s] = copy]
  <2>1. SavedMap[s] = SavedThread(s) /\ ThreadMap[s] = ThreadOf(s)
    BY DEF SavedMap, ThreadMap
  <2>. QED  BY <2>1, SameMaps, MapsBecome
<1>2. RunningMap[s] # 0
  BY DEF RunningMap
<1>3. Threads!End(s)
  BY <1>1, <1>2
     DEF Threads!End, Threads!Ended, Threads!Quiet, ThreadMap, RunningMap, SavedMap,
         RunningTurn, OneOf, SavedThread
<1>. QED  BY <1>3 DEF Threads!Next

LEMMA AbstractTakeBack ==
    ASSUME NEW s \in Sessions, NEW before \in Conversations, NEW t \in Turns,
           RunningTurn(s) = t, ThreadOf(s) = Append(before, t),
           ThreadBecomes(s, before), RunningBecomes(s, 0),
           SavedBecomes(s, SavedThread(s)) \/ SavedBecomes(s, before)
    PROVE  Threads!Next
<1>0. /\ Append(before, t) # << >> /\ Append(before, t)[Len(Append(before, t))] = t
      /\ SubSeq(Append(before, t), 1, Len(Append(before, t)) - 1) = before
      /\ t # 0
  BY DEF Conversations, Turns
<1>1. /\ ThreadMap' = [ThreadMap EXCEPT
                         ![s] = SubSeq(ThreadMap[s], 1, Len(ThreadMap[s]) - 1)]
      /\ RunningMap' = [RunningMap EXCEPT ![s] = 0]
      /\ \E copy \in {SavedMap[s], ThreadMap'[s]} : SavedMap' = [SavedMap EXCEPT ![s] = copy]
  <2>1. SavedMap[s] = SavedThread(s) /\ ThreadMap[s] = ThreadOf(s)
    BY DEF SavedMap, ThreadMap
  <2>2. ThreadMap' = [ThreadMap EXCEPT ![s] = before] /\ RunningMap' = [RunningMap EXCEPT ![s] = 0]
    BY MapsBecome
  <2>3. ThreadMap'[s] = before
    BY DEF ThreadMap, ThreadBecomes
  <2>4. SubSeq(ThreadMap[s], 1, Len(ThreadMap[s]) - 1) = before
    BY <1>0, <2>1
  <2>5. SavedMap' = [SavedMap EXCEPT ![s] = SavedThread(s)]
        \/ SavedMap' = [SavedMap EXCEPT ![s] = before]
    BY MapsBecome
  <2>. QED  BY <2>1, <2>2, <2>3, <2>4, <2>5
<1>2. /\ RunningMap[s] # 0 /\ ThreadMap[s] # << >>
      /\ ThreadMap[s][Len(ThreadMap[s])] = RunningMap[s]
  BY <1>0 DEF RunningMap, ThreadMap
<1>3. Threads!TakeBack(s)
  BY <1>1, <1>2
     DEF Threads!TakeBack, Threads!Ended, Threads!Quiet, ThreadMap, RunningMap, SavedMap,
         RunningTurn, OneOf, SavedThread
<1>. QED  BY <1>3 DEF Threads!Next

LEMMA AbstractClear ==
    ASSUME NEW s \in Sessions, ThreadOf(s) # NoState, RunningTurn(s) = 0,
           ThreadBecomes(s, << >>), SameRunning, SavedBecomes(s, NoCopy)
    PROVE  Threads!Next
<1>1. /\ ThreadMap' = [ThreadMap EXCEPT ![s] = << >>]
      /\ RunningMap' = RunningMap /\ SavedMap' = [SavedMap EXCEPT ![s] = NoCopy]
  BY SameMaps, MapsBecome
<1>2. ThreadMap[s] # NoState /\ RunningMap[s] = 0
  BY DEF ThreadMap, RunningMap
<1>3. Threads!Clear(s)
  BY <1>1, <1>2
     DEF Threads!Clear, Threads!Open, Threads!Quiet, ThreadMap, RunningMap, SavedMap,
         RunningTurn, OneOf, SavedThread
<1>. QED  BY <1>3 DEF Threads!Next

LEMMA AbstractRestart ==
    ASSUME \A x \in Sessions : ThreadOf(x)' = NoState /\ RunningTurn(x)' = 0, SameSaved
    PROVE  Threads!Next
<1>1. /\ ThreadMap' = [x \in Sessions |-> NoState] /\ RunningMap' = [x \in Sessions |-> 0]
      /\ SavedMap' = SavedMap
  BY SameMaps DEF ThreadMap, RunningMap
<1>2. Threads!Restart
  BY <1>1 DEF Threads!Restart, ThreadMap, RunningMap, SavedMap, RunningTurn, OneOf, SavedThread
<1>. QED  BY <1>2 DEF Threads!Next

-----------------------------------------------------------------------------
(* Which turn runs on a session *)

\* The slot r is taken, given back, or goes on with its request.
Joins(r) ==
    /\ req[r].pc = "idle"
    /\ req'[r].pc \in {"session", "workspace"}
    /\ IF req'[r].kind = "prompt" THEN turns' = turns + 1 /\ req'[r].turn = turns + 1
       ELSE turns' = turns /\ req'[r].turn = 0
Leaves(r) == req[r].pc # "idle" /\ req'[r] = Idle /\ turns' = turns
Stays(r) ==
    /\ req[r].pc # "idle" /\ req'[r].pc # "idle"
    /\ turns' = turns
    /\ req'[r].kind = req[r].kind /\ req'[r].sid = req[r].sid /\ req'[r].turn = req[r].turn
    /\ InTurn(r) => InTurn(r)' /\ req'[r].before = req[r].before
    /\ InTurn(r)' => InTurn(r) \/ AskModel(r)

LEMMA GoOnStays ==
    ASSUME RestTyped, NEW r \in Requests, InTurn(r), NEW round, GoOn(r, round)
    PROVE  /\ InTurn(r)' /\ req'[r].pc # "idle"
           /\ req'[r].turn = req[r].turn /\ req'[r].before = req[r].before
<1>1. req[r] \in RequestType /\ req \in [Requests -> RequestType]
  BY DEF RestTyped
<1>2. CASE req' = [req EXCEPT ![r].pc = "run", ![r].outcome = "none",
                              ![r].round = round, ![r].released = FALSE]
  BY <1>1, <1>2 DEF RequestType, InTurn
<1>3. CASE \E pc \in {"ask", "infer"} : Wait(r, [req[r] EXCEPT !.pc = pc, !.round = round])
  <2>1. PICK pc \in {"ask", "infer"} : Wait(r, [req[r] EXCEPT !.pc = pc, !.round = round])
    BY <1>3
  <2>. DEFINE st == [req[r] EXCEPT !.pc = pc, !.round = round]
              w == [st EXCEPT !.outcome = "none", !.released = GivesUp(st.backend)]
  <2>2. /\ w.pc = pc /\ w.turn = req[r].turn /\ w.before = req[r].before
    BY <1>1 DEF RequestType
  <2>3. req'[r] = w
    BY <1>1, <2>1 DEF Wait
  <2>. HIDE DEF w
  <2>. QED  BY <2>1, <2>2, <2>3 DEF InTurn
<1>. QED  BY <1>2, <1>3 DEF GoOn

LEMMA SubmitJoins ==
    ASSUME RestTyped, NEW r \in Requests, NEW kind, NEW s,
           Submit(r, kind, s) \/ SubmitGlobal(r, kind)
    PROVE  Joins(r)
<1>1. CASE Submit(r, kind, s)
  <2>1. req'[r] = [Idle EXCEPT !.kind = kind, !.sid = s, !.pc = "session",
                               !.turn = IF kind = "prompt" THEN turns + 1 ELSE 0]
    BY <1>1 DEF Submit, Signalled, RestTyped
  <2>2. /\ req'[r].kind = kind /\ req'[r].pc = "session"
        /\ req'[r].turn = IF kind = "prompt" THEN turns + 1 ELSE 0
    BY <2>1 DEF Idle
  <2>. QED  BY <1>1, <2>2 DEF Submit, Joins
<1>2. CASE SubmitGlobal(r, kind)
  <2>1. req'[r] = [Idle EXCEPT !.kind = kind, !.pc = "workspace"]
    BY <1>2 DEF SubmitGlobal, RestTyped
  <2>2. req'[r].kind = kind /\ req'[r].pc = "workspace" /\ req'[r].turn = 0
    BY <2>1 DEF Idle
  <2>3. kind # "prompt"
    BY <1>2 DEF SubmitGlobal, OnSession
  <2>. QED  BY <1>2, <2>2, <2>3 DEF SubmitGlobal, Joins
<1>. QED  BY <1>1, <1>2

LEMMA StepCases ==
    ASSUME RestTyped, NEW r \in Requests, Step(r)
    PROVE  Joins(r) \/ Leaves(r) \/ Stays(r)
<1>1. req[r] \in RequestType /\ req \in [Requests -> RequestType]
  BY DEF RestTyped
<1>2. CASE Arrive(r) /\ ~Cancel(r)
  BY <1>2, SubmitJoins DEF Arrive
<1>3. ASSUME ~(Arrive(r) /\ ~Cancel(r))
      PROVE  turns' = turns /\ req[r].pc # "idle"
  <2>1. turns' = turns
    BY <1>3 DEF Step, Arrive, Cancel, EnterWorkspace, StartPrompt, Handle, HandleNew,
       HandleLoad, HandleFork, HandleClose, HandleConfig, HandleLogout, TakeTurn,
       RejectPrompt, RunSlash, AskModel, Answered, ReplyArrives, UserAnswers,
       CancelSeen, Return, Resume, ToolReturns
  <2>2. req[r].pc # "idle"
    BY <1>3 DEF Step, Cancel, Registered, EnterWorkspace, StartPrompt, HasSession, Handle,
       HandleNew, HandleLoad, HandleFork, HandleClose, HandleConfig, HandleLogout,
       TakeTurn, RejectPrompt, RunSlash, AskModel, Answered, ReplyArrives, UserAnswers,
       CancelSeen, Resume, ToolReturns, Runs
  <2>. QED  BY <2>1, <2>2
<1>4. CASE Cancel(r)
  <2>1. req'[r] = [req[r] EXCEPT !.cancelled = TRUE]
    BY <1>1, <1>4 DEF Cancel
  <2>2. /\ req'[r].pc = req[r].pc /\ req'[r].kind = req[r].kind /\ req'[r].sid = req[r].sid
        /\ req'[r].turn = req[r].turn /\ req'[r].before = req[r].before
    BY <1>1, <2>1 DEF RequestType
  <2>. QED  BY <1>3, <1>4, <2>2 DEF Stays, InTurn
<1>5. CASE Answer(r) /\ req[r].pc # "idle" /\ turns' = turns
  BY <1>1, <1>5 DEF Answer, Leaves
<1>6. ASSUME NEW state \in RequestType, req'[r] = state, state.pc # "idle",
             req[r].pc # "idle", turns' = turns,
             state.kind = req[r].kind, state.sid = req[r].sid, state.turn = req[r].turn,
             InTurn(r) => InTurn(r)' /\ state.before = req[r].before,
             InTurn(r)' => InTurn(r) \/ AskModel(r)
      PROVE  Stays(r)
  BY <1>6 DEF Stays
<1>7. CASE ~Answer(r) /\ (EnterWorkspace(r) \/ StartPrompt(r))
  <2>1. req' = [req EXCEPT ![r].pc = "workspace"] /\ req[r].pc = "session"
    BY <1>7 DEF EnterWorkspace, StartPrompt, HasSession
  <2>2. /\ req'[r].pc = "workspace" /\ req'[r].kind = req[r].kind
        /\ req'[r].sid = req[r].sid /\ req'[r].turn = req[r].turn
    BY <1>1, <2>1 DEF RequestType
  <2>3. turns' = turns
    BY <1>7 DEF EnterWorkspace, StartPrompt
  <2>. QED  BY <2>1, <2>2, <2>3 DEF Stays, InTurn
<1>8. CASE Answered(r) \/ CancelSeen(r)
  <2>1. PICK o : Return(r, o) /\ req[r].pc \in {"infer", "ask"}
    BY <1>8 DEF Answered, CancelSeen, ReplyArrives, UserAnswers
  <2>2. /\ req'[r].pc = "resume" /\ req'[r].kind = req[r].kind
        /\ req'[r].sid = req[r].sid /\ req'[r].turn = req[r].turn
        /\ req'[r].before = req[r].before
    BY <1>1, <2>1 DEF Return, RequestType
  <2>. QED  BY <2>1, <2>2 DEF Stays, InTurn, Return
<1>9. CASE AskModel(r)
  <2>1. PICK live, before : Wait(r, [req[r] EXCEPT !.pc = "infer", !.backend = live,
                                                   !.before = before])
    BY <1>9 DEF AskModel
  <2>. DEFINE st == [req[r] EXCEPT !.pc = "infer", !.backend = live, !.before = before]
              w == [st EXCEPT !.outcome = "none", !.released = GivesUp(st.backend)]
  <2>2. /\ w.pc = "infer" /\ w.kind = req[r].kind /\ w.sid = req[r].sid
        /\ w.turn = req[r].turn
    BY <1>1 DEF RequestType
  <2>3. req'[r] = w
    BY <1>1, <2>1 DEF Wait
  <2>. HIDE DEF w
  <2>4. req[r].pc = "workspace" /\ turns' = turns
    BY <1>9 DEF AskModel, Runs
  <2>. QED  BY <1>9, <2>2, <2>3, <2>4 DEF Stays, InTurn
<1>10. CASE ~Answer(r) /\ (Resume(r) \/ ToolReturns(r))
  <2>1. InTurn(r) /\ req[r].pc # "idle" /\ turns' = turns
    BY <1>10 DEF Resume, ToolReturns, InTurn
  <2>2. \/ GoOn(r, req[r].round + 1) \/ GoOn(r, req[r].round)
        \/ req' = [req EXCEPT ![r].pc = "run", ![r].outcome = "none", ![r].released = FALSE]
    BY <1>10, Zenon DEF Resume, ToolReturns
  <2>3. CASE req' = [req EXCEPT ![r].pc = "run", ![r].outcome = "none", ![r].released = FALSE]
    <3>1. /\ req'[r].pc = "run" /\ req'[r].kind = req[r].kind
          /\ req'[r].sid = req[r].sid /\ req'[r].turn = req[r].turn
          /\ req'[r].before = req[r].before
      BY <1>1, <2>3 DEF RequestType
    <3>. QED  BY <2>1, <3>1 DEF Stays, InTurn
  <2>4. CASE \E round : GoOn(r, round)
    <3>1. /\ InTurn(r)' /\ req'[r].pc # "idle" /\ req'[r].kind = req[r].kind
          /\ req'[r].sid = req[r].sid /\ req'[r].turn = req[r].turn
          /\ req'[r].before = req[r].before
      BY <2>1, <2>4, GoOnKeepsTurn, GoOnStays
    <3>. QED  BY <2>1, <3>1 DEF Stays
  <2>. QED  BY <2>2, <2>3, <2>4
<1>11. Handle(r) \/ RejectPrompt(r) \/ RunSlash(r) => Answer(r) /\ ~(Arrive(r) /\ ~Cancel(r))
  <2>1. Handle(r) \/ RejectPrompt(r) \/ RunSlash(r) => Answer(r) /\ req[r].pc # "idle"
    BY DEF Handle, HandleNew, HandleLoad, HandleFork, HandleClose, HandleConfig,
       HandleLogout, RejectPrompt, RunSlash, Runs
  <2>2. Arrive(r) /\ ~Cancel(r) => req[r].pc = "idle"
    BY DEF Arrive, Submit, SubmitGlobal
  <2>. QED  BY <2>1, <2>2
<1>12. CASE ~(Arrive(r) /\ ~Cancel(r)) /\ Answer(r)
  BY <1>3, <1>5, <1>12
<1>. QED
  BY <1>2, <1>4, <1>7, <1>8, <1>9, <1>10, <1>11, <1>12 DEF Step, TakeTurn, Arrive

LEMMA RunningIs ==
    ASSUME Locks, NEW r \in Requests, InTurn(r)
    PROVE  RunningTurn(req[r].sid) = req[r].turn /\ req[r].turn \in Turns
<1>1. ASSUME NEW x \in Requests, InTurn(x), req[x].sid = req[r].sid PROVE x = r
  BY <1>1, TurnIsPrompt, OneOwner DEF Locks, OnSession
<1>2. RunningOn(req[r].sid) = {req[r].turn}
  BY <1>1 DEF RunningOn
<1>. QED  BY <1>2, TurnIsPrompt DEF RunningTurn, OneOf

\* A request that has its session's lock, and is not a turn.
LEMMA QuietHere ==
    ASSUME Locks, NEW r \in Requests, req[r].pc \notin {"idle", "session"},
           OnSession(req[r].kind), ~InTurn(r)
    PROVE  /\ RunningTurn(req[r].sid) = 0
           /\ \A x \in Requests : InTurn(x) => req[x].sid # req[r].sid
<1>1. \A x \in Requests : InTurn(x) => req[x].sid # req[r].sid
  BY TurnIsPrompt, OneOwner DEF Locks, OnSession
<1>2. RunningOn(req[r].sid) = {}
  BY <1>1 DEF RunningOn
<1>. QED  BY <1>1, <1>2 DEF RunningTurn, OneOf

LEMMA RunningStays ==
    ASSUME \A x \in Requests : /\ InTurn(x)' <=> InTurn(x)
                               /\ InTurn(x) => /\ req'[x].sid = req[x].sid
                                               /\ req'[x].turn = req[x].turn
    PROVE  SameRunning
<1>. SUFFICES ASSUME NEW s \in Sessions PROVE RunningTurn(s)' = RunningTurn(s)
  BY DEF SameRunning
<1>1. RunningOn(s)' = RunningOn(s)
  BY DEF RunningOn
<1>. QED  BY <1>1, Zenon DEF RunningTurn

\* The turns on a session that has none of its own in this step.
LEMMA RunningElsewhere ==
    ASSUME Locks, NEW r \in Requests, NEW s \in Sessions, req[r].sid = s,
           Stays(r) \/ ~InTurn(r)',
           \A x \in Requests : x # r => Untouched(x)
    PROVE  \A o \in Sessions : o # s => RunningTurn(o)' = RunningTurn(o)
<1>. SUFFICES ASSUME NEW o \in Sessions, o # s
              PROVE  RunningTurn(o)' = RunningTurn(o)
  OBVIOUS
<1>1. ASSUME NEW x \in Requests
      PROVE  /\ InTurn(x)' /\ req'[x].sid = o <=> InTurn(x) /\ req[x].sid = o
             /\ InTurn(x) /\ req[x].sid = o => req'[x].turn = req[x].turn
  BY DEF Untouched, Stays, InTurn
<1>2. RunningOn(o)' = RunningOn(o)
  BY <1>1 DEF RunningOn
<1>. QED  BY <1>2, Zenon DEF RunningTurn

LEMMA RunningEnds ==
    ASSUME Locks, NEW r \in Requests, NEW s \in Sessions, req[r].sid = s,
           InTurn(r), ~InTurn(r)',
           \A x \in Requests : x # r => Untouched(x)
    PROVE  RunningBecomes(s, 0) /\ RunningTurn(s) # 0
<1>1. ASSUME NEW x \in Requests PROVE ~(InTurn(x)' /\ req'[x].sid = s)
  <2>. SUFFICES ASSUME x # r, InTurn(x)', req'[x].sid = s PROVE FALSE
    OBVIOUS
  <2>1. InTurn(x) /\ req[x].sid = req[r].sid
    BY DEF Untouched, InTurn
  <2>. QED  BY <2>1, TurnIsPrompt, OneOwner DEF Locks, OnSession
<1>2. RunningOn(s)' = {}
  BY <1>1 DEF RunningOn
<1>3. RunningTurn(s)' = 0
  BY <1>2 DEF RunningTurn, OneOf
<1>4. RunningTurn(s) # 0
  BY RunningIs DEF Turns
<1>. QED  BY <1>3, <1>4, RunningElsewhere DEF RunningBecomes

LEMMA RunningBegins ==
    ASSUME Locks, NEW r \in Requests, NEW s \in Sessions, NEW t, req[r].sid = s,
           req[r].turn = t, req[r].pc \notin {"idle", "session"}, OnSession(req[r].kind),
           ~InTurn(r), InTurn(r)', Stays(r),
           \A x \in Requests : x # r => Untouched(x)
    PROVE  RunningBecomes(s, t) /\ RunningTurn(s) = 0
<1>1. ASSUME NEW x \in Requests PROVE InTurn(x)' /\ req'[x].sid = s <=> x = r
  <2>1. req'[r].sid = s
    BY DEF Stays
  <2>2. x # r => ~(InTurn(x)' /\ req'[x].sid = s)
    BY QuietHere DEF Untouched, InTurn
  <2>. QED  BY <2>1, <2>2
<1>2. RunningOn(s)' = {t}
  <2>1. req'[r].turn = t
    BY DEF Stays
  <2>. QED  BY <1>1, <2>1 DEF RunningOn
<1>3. RunningTurn(s)' = t
  BY <1>2 DEF RunningTurn, OneOf
<1>. QED  BY <1>3, QuietHere, RunningElsewhere DEF RunningBecomes

-----------------------------------------------------------------------------
(* What the functions do to the threads *)

\* No thread has changed.
Unchanged(a, b) == Served(b) /\ \A x \in Sessions : ThreadIn(b, x) = ThreadIn(a, x)

LEMMA UnchangedAgent ==
    ASSUME NEW a, Served(a), NEW b, Coherent(b), OneModel(b),
           b.active = a.active, b.live = a.live, b.hist = a.hist, b.sess = a.sess
    PROVE  Unchanged(a, b)
BY DEF Unchanged, Served, OnEndpoints, OwnBackend, ThreadIn, Known

LEMMA ServedIsRemote ==
    ASSUME NEW a, Served(a)
    PROVE  /\ a.live \in Backends /\ a.live # Local /\ a \in AgentType
           /\ ActiveIsKnown(a) /\ Coherent(a) /\ OneModel(a)
           /\ a.model \notin CloudModels
BY BackendsAssumption, ModelsAssumption DEF Served, OnEndpoints, Coherent, OneModel

LEMMA ReinstallServes ==
    ASSUME Provider, NEW a, Served(a), Settled(a), NEW s \in Sessions, NEW ok
    PROVE  LET b == Reinstall(a, s, ok)
           IN  /\ Unchanged(a, b)
               /\ Known(b, s) => b.active = s
               /\ Known(a, s) => Known(b, s)
<1>. DEFINE b == Reinstall(a, s, ok)
<1>1. Unchanged(a, a)
  BY DEF Unchanged
<1>2. Unchanged(a, b)
  <2>1. CASE ~Known(a, s) \/ a.active = s
    BY <1>1, <2>1, ActivateLive DEF Reinstall
  <2>2. CASE Known(a, s) /\ a.active # s
    <3>1. Opened(a, b, s, ThreadIn(a, s))
      BY <2>2, ActivateOpens DEF Reinstall
    <3>. HIDE DEF b
    <3>2. /\ Served(b) /\ ThreadIn(b, s) = ThreadIn(a, s)
          /\ \A x \in Sessions : x # s => ThreadIn(b, x) = ThreadIn(a, x)
      BY <3>1, OpenedServed
    <3>. QED  BY <3>2 DEF Unchanged
  <2>. QED  BY <2>1, <2>2
<1>3. /\ Known(b, s) => b.active = s
      /\ Known(a, s) => Known(b, s)
  BY ReinstallReaches DEF Served
<1>. QED  BY <1>2, <1>3

\* An endpoint needs no weights.
LEMMA PrepareIsReinstall ==
    ASSUME Provider, NEW a, Served(a), Settled(a), NEW s \in Sessions, NEW ok, NEW loads
    PROVE  Prepare(a, s, ok, loads) = Reinstall(a, s, ok)
<1>1. Served(Reinstall(a, s, ok))
  BY ReinstallServes DEF Unchanged
<1>2. Reinstall(a, s, ok).live # Local
  BY <1>1, ServedIsRemote
<1>. QED  BY <1>2 DEF Prepare

LEMMA RestoreOnLive ==
    ASSUME Provider, NEW a, Served(a), NEW conv \in Conversations
    PROVE  OnLive(a, Restore(a, a.live, conv), conv)
<1>. DEFINE b == Restore(a, a.live, conv)
<1>1. /\ a \in AgentType /\ a.live \in Backends /\ a.live # Local /\ Coherent(a)
      /\ NeverFallsBack(a) /\ ActiveIsKnown(a)
  BY ServedIsRemote DEF NeverFallsBack
<1>2. Moves(a, b) /\ SameModels(a, b)
  BY <1>1, RestoreMoves, RestoreSameModels
<1>3. Coherent(b) /\ OneModel(b)
  BY <1>1, <1>2, MovesCoherent, SameModelsSettled DEF NeverFallsBack
<1>4. b = [a EXCEPT !.hist[a.live] = conv]
  BY <1>1 DEF Restore
<1>5. b.hist = [a.hist EXCEPT ![a.live] = conv] /\ b.live = a.live /\ b.active = a.active
      /\ b.sess = a.sess
  BY <1>1, <1>4 DEF AgentType
<1>6. a.hist \in [Backends -> Conversations]
  BY <1>1 DEF AgentType
<1>. HIDE DEF b
<1>7. OnLive(a, b, conv)
  BY <1>1, <1>3, <1>5, <1>6 DEF OnLive, Known
<1>. QED  BY <1>7 DEF b

LEMMA ParkServes ==
    ASSUME Provider, NEW a, Served(a)
    PROVE  Unchanged(a, Park(a))
<1>. DEFINE p == Park(a)
<1>1. /\ Coherent(a) /\ NeverFallsBack(a)
  BY DEF Served, NeverFallsBack
<1>2. /\ CoherentParked(p) /\ OneModel(p) /\ p.hist = a.hist
      /\ p.active = a.active /\ p.live = a.live
      /\ \A x \in Sessions : x # a.active => p.sess[x] = a.sess[x]
      /\ \A x \in Sessions : Known(p, x) <=> Known(a, x)
  BY <1>1, ParkCoherent, ParkNeverFallsBack, ParkHistories DEF NeverFallsBack
<1>. HIDE DEF p
<1>3. Coherent(p)
  BY <1>2 DEF CoherentParked, Coherent, Owned
<1>4. Served(p)
  BY <1>2, <1>3 DEF Served, OnEndpoints, OwnBackend
<1>5. \A x \in Sessions : ThreadIn(p, x) = ThreadIn(a, x)
  BY <1>2 DEF ThreadIn
<1>. QED  BY <1>4, <1>5 DEF Unchanged, p

\* What is parked is the thread.
LEMMA ParkedThread ==
    ASSUME NEW a, Served(a), NEW s \in Sessions, Known(a, s)
    PROVE  /\ Park(a).sess[s].conv = ThreadIn(a, s)
           /\ Park(a).sess[s].model = DefaultLocal
           /\ Known(Park(a), s)
<1>1. /\ \A x \in Sessions : x # a.active => Park(a).sess[x] = a.sess[x]
      /\ a.active # NoSession => Park(a).sess[a.active] = ParkedState(a)
      /\ \A x \in Sessions : Known(Park(a), x) <=> Known(a, x)
  BY ParkCoherent DEF Served
<1>2. CASE s = a.active
  <2>1. a.active # NoSession
    BY <1>2, MarkersAssumption
  <2>. QED  BY <1>1, <1>2, <2>1, ParkedIs DEF ThreadIn
<1>3. CASE s # a.active
  BY <1>1, <1>3 DEF ThreadIn, Served, OneModel
<1>. QED  BY <1>2, <1>3

LEMMA CloseServes ==
    ASSUME Provider, NEW a, Served(a), Settled(a), NEW s \in Sessions
    PROVE  LET b == ClosedAgent(a, s)
           IN  /\ Served(b) /\ ThreadIn(b, s) = NoState
               /\ \A x \in Sessions : x # s => ThreadIn(b, x) = ThreadIn(a, x)
<1>. DEFINE gone == [a EXCEPT !.sess[s] = NoState]
            c == [gone EXCEPT !.active = NoSession, !.engine = << >>]
            b == ClosedAgent(a, s)
<1>1. /\ a \in AgentType /\ a.live \in Backends /\ a.live # Local /\ Coherent(a)
  BY ServedIsRemote
<1>2. /\ Coherent(b)
      /\ b.active = IF a.active = s THEN NoSession ELSE a.active
      /\ b.live = a.live
      /\ ~Known(b, s)
      /\ \A x \in Sessions : x # s => b.sess[x] = a.sess[x]
  BY <1>1, ClosedEffect
<1>3. OneModel(b)
  BY <1>1, ClosedSettles DEF Settled, NeverFallsBack
<1>4. \A k \in Backends : (k # a.live \/ a.active # s) => b.hist[k] = a.hist[k]
  <2>1. gone.hist = a.hist /\ DOMAIN gone = DOMAIN a
    BY <1>1 DEF AgentType
  <2>2. CASE a.active # s
    BY <2>1, <2>2 DEF ClosedAgent
  <2>3. CASE a.active = s
    <3>1. c.hist = a.hist /\ DOMAIN c = DOMAIN a /\ "hist" \in DOMAIN a
      BY <1>1, <2>1 DEF AgentType
    <3>2. b = Restore(c, a.live, << >>)
      BY <2>3, Zenon DEF ClosedAgent, c, gone, b
    <3>. HIDE DEF c, b
    <3>3. b.hist = [a.hist EXCEPT ![a.live] = << >>]
      BY <1>1, <3>1, <3>2 DEF Restore
    <3>4. a.hist \in [Backends -> Conversations]
      BY <1>1 DEF AgentType
    <3>. QED  BY <2>3, <3>3, <3>4
  <2>. QED  BY <2>2, <2>3
<1>. HIDE DEF b
<1>5. ASSUME NEW x \in Sessions, x # s, Known(a, x), a.active # x
      PROVE  /\ OwnBackend(a, x) /\ a.hist[a.sess[x].remote.backend] = a.sess[x].conv
             /\ b.hist[a.sess[x].remote.backend] = a.hist[a.sess[x].remote.backend]
  <2>1. OwnBackend(a, x) /\ a.hist[a.sess[x].remote.backend] = a.sess[x].conv
    BY <1>5 DEF Served, OnEndpoints
  <2>2. a.sess[x].remote.backend # a.live
    BY <1>1, <1>5, <2>1 DEF Coherent, Owned, Holds, OwnBackend
  <2>3. a.sess[x].remote.backend \in Backends
    BY <1>1, <1>5, <2>1 DEF OwnBackend, AgentType, Known, SessionStates, Remotes
  <2>. QED  BY <1>4, <2>1, <2>2, <2>3
<1>6. ASSUME NEW x \in Sessions, Known(b, x), b.active # x
      PROVE  /\ OwnBackend(b, x)
             /\ b.hist[b.sess[x].remote.backend] = b.sess[x].conv
  <2>1. x # s /\ Known(a, x) /\ b.sess[x] = a.sess[x] /\ a.active # x
    BY <1>2, <1>6 DEF Known
  <2>. QED  BY <1>5, <2>1 DEF OwnBackend
<1>7. Served(b)
  BY <1>1, <1>2, <1>3, <1>6 DEF Served, OnEndpoints
<1>8. ASSUME NEW x \in Sessions, x # s PROVE ThreadIn(b, x) = ThreadIn(a, x)
  <2>1. b.sess[x] = a.sess[x] /\ (b.active = x <=> a.active = x)
    BY <1>2, <1>8, MarkersAssumption
  <2>2. a.active = x => b.hist[b.live] = a.hist[a.live]
    BY <1>1, <1>2, <1>4, <1>8
  <2>. QED  BY <2>1, <2>2 DEF ThreadIn, Known
<1>9. ThreadIn(b, s) = NoState
  BY <1>2 DEF ThreadIn
<1>. QED  BY <1>7, <1>8, <1>9 DEF b

LEMMA LoadCommandServes ==
    ASSUME Provider, NEW a, Served(a), Settled(a), NEW ok
    PROVE  Unchanged(a, LoadCommand(a, ok))
<1>. DEFINE e == [a EXCEPT !.localInference = TRUE]
            b == LoadCommand(a, ok)
<1>1. a \in AgentType /\ Coherent(a) /\ a.model \notin CloudModels
  BY ServedIsRemote
<1>2. Coherent(b)
  BY <1>1, LoadCommandMoves, MovesCoherent
<1>3. OneModel(b)
  BY <1>1, LoadCommandSettles DEF Settled, NeverFallsBack
<1>4. b = StartLoad(e, ok)
  BY <1>1 DEF LoadCommand
<1>5. /\ e.active = a.active /\ e.live = a.live /\ e.hist = a.hist /\ e.sess = a.sess
      /\ DOMAIN e = DOMAIN a
  BY <1>1 DEF AgentType
<1>. HIDE DEF e
<1>6. /\ b.active = a.active /\ b.live = a.live /\ b.hist = a.hist /\ b.sess = a.sess
  BY <1>4, <1>5 DEF StartLoad
<1>. HIDE DEF b
<1>7. Unchanged(a, b)
  BY <1>2, <1>3, <1>6, UnchangedAgent
<1>. QED  BY <1>7 DEF b

LEMMA ClearServes ==
    ASSUME Provider, NEW a, Served(a), Settled(a), NEW s \in Sessions, a.active = s,
           Known(a, s)
    PROVE  OnLive(a, ClearCommand(a, s), << >>)
<1>. DEFINE c == [a EXCEPT !.sess[s].conv = << >>]
            e == [c EXCEPT !.engine = << >>]
            b == ClearCommand(a, s)
<1>1. a \in AgentType /\ Coherent(a) /\ a.live \in Backends /\ a.live # Local
  BY ServedIsRemote
<1>2. Moves(a, b)
  BY <1>1, ClearCommandMoves
<1>3. Coherent(b) /\ OneModel(b)
  BY <1>1, <1>2, MovesCoherent, ClearCommandSettles DEF Settled, NeverFallsBack
<1>4. c.live = a.live /\ c.hist = a.hist /\ DOMAIN c = DOMAIN a
  BY <1>1 DEF AgentType
<1>5. b = Restore(e, a.live, << >>)
  BY <1>1, <1>4, Zenon DEF ClearCommand, Seed, c, e, b
<1>. HIDE DEF c
<1>6. e.live = a.live /\ e.hist = a.hist /\ DOMAIN e = DOMAIN a
  BY <1>4
<1>7. "hist" \in DOMAIN a /\ "live" \in DOMAIN a
  BY <1>1 DEF AgentType
<1>. HIDE DEF e, b
<1>8. b = [e EXCEPT !.hist[a.live] = << >>]
  BY <1>1, <1>5 DEF Restore
<1>9. b.hist = [a.hist EXCEPT ![a.live] = << >>] /\ b.live = a.live
  BY <1>6, <1>7, <1>8
<1>10. a.hist \in [Backends -> Conversations]
  BY <1>1 DEF AgentType
<1>11. OnLive(a, b, << >>)
  BY <1>1, <1>2, <1>3, <1>9, <1>10 DEF OnLive, Moves
<1>. QED  BY <1>11 DEF b

LEMMA LeaveCloudServes ==
    ASSUME Provider, NEW a, Served(a), Settled(a)
    PROVE  Unchanged(a, LeaveCloud(a))
<1>. DEFINE b == LeaveCloud(a)
<1>1. a \in AgentType /\ Coherent(a) /\ a.model \notin CloudModels
  BY ServedIsRemote
<1>2. /\ Settled(b) /\ b.active = a.active /\ b.live = a.live /\ b.sess = a.sess
  BY <1>1, LeaveCloudSettles
<1>3. Coherent(b)
  BY <1>1, LeaveCloudEffect
<1>4. b.hist = a.hist
  BY <1>1 DEF LeaveCloud, AgentType
<1>. HIDE DEF b
<1>5. Unchanged(a, b)
  BY <1>2, <1>3, <1>4, UnchangedAgent DEF Settled, NeverFallsBack
<1>. QED  BY <1>5 DEF b

LEMMA StartServes ==
    ASSUME Provider, NEW localInference \in BOOLEAN, NEW signedIn \in BOOLEAN
    PROVE  LET b == StartState(DefaultLocal, localInference, signedIn)
           IN  Served(b) /\ \A x \in Sessions : ThreadIn(b, x) = NoState
<1>. DEFINE b == StartState(DefaultLocal, localInference, signedIn)
<1>1. Coherent(b) /\ Settled(b)
  BY ModelsAssumption, StartStateType, StartSettles
<1>2. b.live \in Backends /\ \A x \in Sessions : ~Known(b, x)
  BY FreshBackend DEF StartState, Known
<1>. HIDE DEF b
<1>3. Served(b)
  BY <1>1, <1>2 DEF Served, OnEndpoints, Settled, NeverFallsBack
<1>. QED  BY <1>2, <1>3 DEF ThreadIn, b

-----------------------------------------------------------------------------
(* The turns of the prompts *)

IsPrompt(r) == req[r].kind = "prompt" /\ req[r].pc # "idle"
Waiting(r) == req[r].kind = "prompt" /\ req[r].pc \in {"session", "workspace"}

\* Every prompt has a turn of its own.
PromptsDiffer ==
    \A p, q \in Requests : IsPrompt(p) /\ IsPrompt(q) /\ p # q => req[p].turn # req[q].turn
PromptsCounted == \A r \in Requests : req[r].turn <= turns

\* A prompt with the turn t has been sent to the model.
Asked(t) == t <= turns /\ \A r \in Requests : Waiting(r) => req[r].turn # t

LEMMA AskBegins ==
    ASSUME RestTyped, NEW r \in Requests, AskModel(r)
    PROVE  InTurn(r)' /\ ~InTurn(r) /\ Waiting(r)
<1>1. req[r] \in RequestType /\ req \in [Requests -> RequestType]
  BY DEF RestTyped
<1>2. PICK b, c : Wait(r, [req[r] EXCEPT !.pc = "infer", !.backend = b, !.before = c])
  BY DEF AskModel
<1>. DEFINE st == [req[r] EXCEPT !.pc = "infer", !.backend = b, !.before = c]
            w == [st EXCEPT !.outcome = "none", !.released = GivesUp(st.backend)]
<1>3. w.pc = "infer"
  BY <1>1 DEF RequestType
<1>4. req'[r] = w
  BY <1>1, <1>2 DEF Wait
<1>. HIDE DEF w
<1>. QED  BY <1>3, <1>4 DEF InTurn, AskModel, Runs, Waiting

LEMMA StepPrompts ==
    ASSUME RestTyped, turns \in Nat, PromptsDiffer, PromptsCounted,
           NEW r \in Requests, Step(r)
    PROVE  /\ PromptsDiffer' /\ PromptsCounted'
           /\ \A t \in Turns : Asked(t) => Asked(t)'
           /\ \A t \in Turns : AskModel(r) /\ req[r].turn = t => ~Asked(t) /\ Asked(t)'
<1>1. \A x \in Requests : x # r => Untouched(x)
  BY StepTouchesOwn
<1>2. Joins(r) \/ Leaves(r) \/ Stays(r)
  BY StepCases
<1>3. /\ req \in [Requests -> RequestType]
      /\ \A x \in Requests : req[x].turn \in Nat /\ req[x].pc \in PCs
  BY DEF RestTyped, RequestType, Turns
<1>4. turns' \in Nat /\ turns' >= turns
  <2>1. CASE Joins(r)
    <3>1. turns' = turns + 1 \/ turns' = turns
      BY <2>1 DEF Joins
    <3>. QED  BY <3>1
  <2>2. CASE Leaves(r) \/ Stays(r)
    BY <2>2 DEF Leaves, Stays
  <2>. QED  BY <1>2, <2>1, <2>2
<1>5. PromptsCounted'
  <2>1. req'[r].turn <= turns'
    BY <1>2, <1>3 DEF PromptsCounted, Joins, Leaves, Stays, Idle
  <2>2. ASSUME NEW x \in Requests, x # r PROVE req'[x].turn <= turns'
    BY <1>1, <1>3, <1>4, <2>2 DEF PromptsCounted, Untouched
  <2>. QED  BY <2>1, <2>2 DEF PromptsCounted
<1>6. \* A prompt of this slot is the one before, or new.
      IsPrompt(r)' => \/ IsPrompt(r) /\ req'[r].turn = req[r].turn
                      \/ req'[r].turn = turns + 1
  BY <1>2 DEF IsPrompt, Joins, Leaves, Stays, Idle
<1>7. PromptsDiffer'
  <2>1. ASSUME NEW x \in Requests, x # r, IsPrompt(x)', IsPrompt(r)'
        PROVE  req'[x].turn # req'[r].turn
    <3>1. IsPrompt(x) /\ req'[x].turn = req[x].turn /\ req[x].turn <= turns
      BY <1>1, <2>1 DEF Untouched, IsPrompt, PromptsCounted
    <3>. QED  BY <1>3, <1>6, <2>1, <3>1 DEF PromptsDiffer
  <2>2. ASSUME NEW x \in Requests, NEW y \in Requests, x # r, y # r, x # y,
               IsPrompt(x)', IsPrompt(y)'
        PROVE  req'[x].turn # req'[y].turn
    BY <1>1, <2>2 DEF Untouched, IsPrompt, PromptsDiffer
  <2>. QED  BY <2>1, <2>2 DEF PromptsDiffer
<1>8. Waiting(r)' => \/ Waiting(r) /\ req'[r].turn = req[r].turn
                     \/ req'[r].turn = turns + 1
  BY <1>2, <1>3 DEF Waiting, Joins, Leaves, Stays, Idle, InTurn, PCs
<1>9. ASSUME NEW t \in Turns, Asked(t) PROVE Asked(t)'
  <2>1. t <= turns' /\ t \in Nat /\ t <= turns
    BY <1>4, <1>9 DEF Asked, Turns
  <2>2. ASSUME NEW x \in Requests, Waiting(x)' PROVE req'[x].turn # t
    <3>1. CASE x = r
      BY <1>8, <1>9, <2>1, <2>2, <3>1 DEF Asked
    <3>2. CASE x # r
      BY <1>1, <1>9, <2>2, <3>2 DEF Untouched, Waiting, Asked
    <3>. QED  BY <3>1, <3>2
  <2>. QED  BY <2>1, <2>2 DEF Asked
<1>10. ASSUME NEW t \in Turns, AskModel(r), req[r].turn = t PROVE ~Asked(t) /\ Asked(t)'
  <2>1. InTurn(r)' /\ Waiting(r)
    BY <1>10, AskBegins
  <2>2. t <= turns'
    BY <1>3, <1>4, <1>10 DEF PromptsCounted
  <2>3. ASSUME NEW x \in Requests, Waiting(x)' PROVE req'[x].turn # t
    <3>1. x # r
      BY <2>1, <2>3 DEF Waiting, InTurn
    <3>2. IsPrompt(x) /\ IsPrompt(r) /\ req'[x].turn = req[x].turn
      BY <1>1, <2>1, <2>3, <3>1 DEF Untouched, Waiting, IsPrompt
    <3>. QED  BY <1>10, <3>1, <3>2 DEF PromptsDiffer
  <2>4. ~Asked(t)
    BY <1>10, <2>1 DEF Asked
  <2>5. Asked(t)'
    BY <2>2, <2>3 DEF Asked
  <2>. QED  BY <2>4, <2>5
<1>. QED  BY <1>5, <1>7, <1>9, <1>10

LEMMA HasInAppend ==
    ASSUME NEW c \in Conversations, NEW t \in Turns, NEW u
    PROVE  /\ Has(Append(c, t), u) => Has(c, u) \/ u = t
           /\ Has(c, u) => Has(Append(c, t), u)
<1>1. /\ Len(Append(c, t)) = Len(c) + 1 /\ Len(c) \in Nat
      /\ \A i \in 1..Len(c) : Append(c, t)[i] = c[i]
      /\ Append(c, t)[Len(c) + 1] = t
  BY DEF Conversations
<1>2. \A i \in 1..Len(c) : i \in 1..(Len(c) + 1)
  BY <1>1
<1>3. \A i \in 1..(Len(c) + 1) : i \in 1..Len(c) \/ i = Len(c) + 1
  BY <1>1
<1>. QED  BY <1>1, <1>2, <1>3 DEF Has

LEMMA NoneHasNone == \A u : ~Has(<< >>, u)
BY DEF Has

-----------------------------------------------------------------------------
(* What a step does to the threads, and that SessionThreads allows it *)

\* The thread of a session that has a turn is what it was, and the turn.
TurnIsOnTop ==
    \A r \in Requests : InTurn(r) =>
        ThreadIn(agent, req[r].sid) = Append(req[r].before, req[r].turn)

\* A turn is in a thread, or in a saved copy, only when it has been asked.
Sent(t) ==
    \/ \E s \in Sessions : Known(agent, s) /\ Has(ThreadIn(agent, s), t)
    \/ \E s \in Sessions : saved[s] # NoCopy /\ Has(saved[s].conv, t)
OnlyAsked == \A t \in Turns : Sent(t) => Asked(t)

TInv ==
    /\ EndpointsOnly /\ Calm /\ TurnKeepsItsBackend
    /\ OnEndpoints(agent) /\ TurnIsOnTop
    /\ PromptsDiffer /\ PromptsCounted /\ OnlyAsked

\* The thread of s becomes c, and no other one changes.
Becomes(a, b, s, c) ==
    /\ Served(b)
    /\ ThreadIn(b, s) = c
    /\ \A x \in Sessions : x # s => ThreadIn(b, x) = ThreadIn(a, x)

Simulated == (Threads!Next \/ UNCHANGED Threads!vars) /\ TInv'

LEMMA TInvHas ==
    ASSUME TInv
    PROVE  /\ Provider /\ Served(agent) /\ Settled(agent) /\ Agrees(agent) /\ Coherent(agent)
           /\ IInv /\ Locks /\ RestTyped /\ turns \in Nat
           /\ saved \in [Sessions -> Copies \cup {NoCopy}]
           /\ Typed /\ Calm /\ OnlySent /\ "config" \notin KindsSent
<1>1. Provider /\ Settled(agent) /\ Coherent(agent) /\ OnEndpoints(agent) /\ IInv /\ Calm
  BY DEF TInv, EndpointsOnly, Calm, IInv
<1>2. OneModel(agent) /\ Agrees(agent)
  BY <1>1 DEF Settled, NeverFallsBack
<1>3. Locks /\ RestTyped /\ turns \in Nat /\ Typed
      /\ saved \in [Sessions -> Copies \cup {NoCopy}]
  BY <1>1 DEF IInv, TypeOK, Locks, RestTyped, Typed, Copies
<1>. QED  BY <1>1, <1>2, <1>3 DEF Served, Calm, TInv, EndpointsOnly

LEMMA ThreadIsNext ==
    ASSUME Served(agent'), NEW s \in Sessions
    PROVE  ThreadOf(s)' = ThreadIn(agent', s)
BY BackendsAssumption DEF ThreadOf, ThreadIn, Served, OnEndpoints, OwnBackend, HistoryOf, Known

LEMMA BecomesThread ==
    ASSUME Served(agent), NEW s \in Sessions, NEW c, Becomes(agent, agent', s, c)
    PROVE  ThreadBecomes(s, c)
BY ThreadIs, ThreadIsNext DEF Becomes, ThreadBecomes

LEMMA UnchangedThreads ==
    ASSUME Served(agent), Unchanged(agent, agent')
    PROVE  SameThreads
BY ThreadIs, ThreadIsNext DEF Unchanged, SameThreads

LEMMA SavedChanges ==
    ASSUME saved \in [Sessions -> Copies \cup {NoCopy}]
    PROVE  /\ saved' = saved => SameSaved
           /\ \A s \in Sessions : saved' = saved => SavedBecomes(s, SavedThread(s))
           /\ \A s \in Sessions, copy \in Copies \cup {NoCopy} :
                 saved' = [saved EXCEPT ![s] = copy] =>
                    SavedBecomes(s, IF copy = NoCopy THEN NoCopy ELSE copy.conv)
BY DEF SameSaved, SavedBecomes, SavedThread

LEMMA TInvKept ==
    ASSUME TInv, NEW r \in Requests, Step(r), Served(agent'),
           \A x \in Requests : x # r /\ InTurn(x) =>
              ThreadIn(agent', req[x].sid) = ThreadIn(agent, req[x].sid),
           InTurn(r)' =>
              ThreadIn(agent', req'[r].sid) = Append(req'[r].before, req'[r].turn),
           OnlyAsked'
    PROVE  TInv'
<1>1. Calm' /\ TurnKeepsItsBackend'
  <2>1. Next
    BY Zenon DEF Step, Next
  <2>. QED  BY <2>1, CalmNext, NextKeepsBackends DEF TInv
<1>2. EndpointsOnly' /\ OnEndpoints(agent')
  BY DEF TInv, EndpointsOnly, Served
<1>3. PromptsDiffer' /\ PromptsCounted'
  BY TInvHas, StepPrompts DEF TInv
<1>4. TurnIsOnTop'
  <2>. SUFFICES ASSUME NEW x \in Requests, InTurn(x)', x # r
                PROVE  ThreadIn(agent', req'[x].sid) = Append(req'[x].before, req'[x].turn)
    BY DEF TurnIsOnTop
  <2>1. Untouched(x)
    BY TInvHas, StepTouchesOwn
  <2>2. InTurn(x)
    BY <2>1 DEF Untouched, InTurn
  <2>. QED  BY <2>1, <2>2 DEF Untouched, TInv, TurnIsOnTop
<1>. QED  BY <1>1, <1>2, <1>3, <1>4 DEF TInv

\* A turn that goes on leaves its thread as it was.
LEMMA OwnKept ==
    ASSUME TInv, NEW r \in Requests, Joins(r) \/ Leaves(r) \/ Stays(r), ~AskModel(r),
           InTurn(r)'
    PROVE  InTurn(r) /\ req'[r].sid = req[r].sid /\ req'[r].before = req[r].before
           /\ req'[r].turn = req[r].turn
BY DEF Joins, Leaves, Stays, InTurn, Idle

LEMMA EndedLeaves ==
    ASSUME NEW r \in Requests, Joins(r) \/ Leaves(r) \/ Stays(r), InTurn(r), ~InTurn(r)'
    PROVE  Leaves(r)
BY DEF Joins, Stays, InTurn

\* The turns of the sessions whose thread does not change.
LEMMA OthersKept ==
    ASSUME TInv, NEW r \in Requests, NEW s \in Sessions, NEW c,
           Becomes(agent, agent', s, c),
           \/ ~Known(agent, s)
           \/ req[r].pc \notin {"idle", "session"} /\ OnSession(req[r].kind) /\ req[r].sid = s,
           NEW x \in Requests, x # r, InTurn(x)
    PROVE  ThreadIn(agent', req[x].sid) = ThreadIn(agent, req[x].sid)
<1>1. req[x].sid \in Sessions /\ req[x].kind = "prompt" /\ req[x].pc \notin {"idle", "session"}
      /\ Known(agent, req[x].sid) /\ Placed
  BY TInvHas, TurnIsPrompt DEF IInv, TurnsAreOpen
<1>2. req[x].sid # s
  BY <1>1, OneOwner DEF OnSession
<1>. QED  BY <1>1, <1>2 DEF Becomes

\* What is left to show of the turns that are in threads.
LEMMA AskedKept ==
    ASSUME TInv, NEW r \in Requests, Step(r),
           \A t \in Turns : Sent(t)' => Sent(t) \/ (AskModel(r) /\ req[r].turn = t)
    PROVE  OnlyAsked'
<1>1. /\ \A t \in Turns : Asked(t) => Asked(t)'
      /\ \A t \in Turns : AskModel(r) /\ req[r].turn = t => Asked(t)'
  BY TInvHas, StepPrompts DEF TInv
<1>2. \A t \in Turns : Sent(t) => Asked(t)
  BY DEF TInv, OnlyAsked
<1>. HIDE DEF Sent, Asked
<1>. QED  BY <1>1, <1>2 DEF OnlyAsked

LEMMA SentIsSent ==
    ASSUME NEW s \in Sessions, NEW t
    PROVE  /\ Known(agent, s) /\ Has(ThreadIn(agent, s), t) => Sent(t)
           /\ saved[s] # NoCopy /\ Has(saved[s].conv, t) => Sent(t)
BY DEF Sent

\* A turn that is sent was sent, or is in what has changed.
LEMMA SentBefore ==
    ASSUME Served(agent), NEW s \in Sessions, NEW c, Becomes(agent, agent', s, c),
           NEW t, Sent(t)',
           \A x \in Sessions : saved'[x] # NoCopy /\ Has(saved'[x].conv, t) => Sent(t)
    PROVE  Sent(t) \/ (c # NoState /\ Has(c, t))
<1>1. CASE \E x \in Sessions : saved'[x] # NoCopy /\ Has(saved'[x].conv, t)
  BY <1>1
<1>2. CASE \E x \in Sessions : Known(agent', x) /\ Has(ThreadIn(agent', x), t)
  <2>1. PICK x \in Sessions : Known(agent', x) /\ Has(ThreadIn(agent', x), t)
    BY <1>2
  <2>2. Served(agent') /\ ThreadIn(agent', x) # NoState
    BY <2>1, ThreadType DEF Becomes
  <2>3. CASE x = s
    BY <2>1, <2>2, <2>3 DEF Becomes
  <2>4. CASE x # s
    <3>1. ThreadIn(agent', x) = ThreadIn(agent, x)
      BY <2>4 DEF Becomes
    <3>2. Known(agent, x)
      BY <2>2, <3>1, ThreadType
    <3>. QED  BY <2>1, <3>1, <3>2, SentIsSent
  <2>. QED  BY <2>3, <2>4
<1>. QED  BY <1>1, <1>2 DEF Sent

LEMMA SavedSent ==
    ASSUME saved' = saved, NEW x \in Sessions, NEW t,
           saved'[x] # NoCopy, Has(saved'[x].conv, t)
    PROVE  Sent(t)
BY DEF Sent

LEMMA SentUnchanged ==
    ASSUME Served(agent), Unchanged(agent, agent'), NEW t, Sent(t)',
           \A x \in Sessions : saved'[x] # NoCopy /\ Has(saved'[x].conv, t) => Sent(t)
    PROVE  Sent(t)
<1>1. ASSUME NEW x \in Sessions, Known(agent', x), Has(ThreadIn(agent', x), t)
      PROVE  Sent(t)
  BY <1>1, ThreadType DEF Unchanged, Sent
<1>. QED  BY <1>1 DEF Sent

\* The thread map is as it was, and the turn of r goes on, ends, or was none.
LEMMA KeepIsSimulated ==
    ASSUME TInv, NEW r \in Requests, Step(r), ~AskModel(r), Unchanged(agent, agent'),
           \/ saved' = saved
           \/ /\ InTurn(r) /\ ~InTurn(r)'
              /\ \E copy \in Copies :
                   /\ saved' = [saved EXCEPT ![req[r].sid] = copy]
                   /\ copy.conv = ThreadIn(agent, req[r].sid)
    PROVE  Simulated
<1>1. /\ Served(agent) /\ Served(agent') /\ Locks /\ RestTyped
      /\ saved \in [Sessions -> Copies \cup {NoCopy}]
      /\ Joins(r) \/ Leaves(r) \/ Stays(r)
      /\ \A x \in Requests : x # r => Untouched(x)
  BY TInvHas, StepCases, StepTouchesOwn DEF Unchanged
<1>2. SameThreads
  BY <1>1, UnchangedThreads
<1>3. ASSUME InTurn(r)'
      PROVE  /\ InTurn(r) /\ req'[r].sid = req[r].sid
             /\ req'[r].turn = req[r].turn /\ req'[r].before = req[r].before
  BY <1>1, <1>3, OwnKept
<1>4. ASSUME NEW x \in Requests, InTurn(x) PROVE req[x].sid \in Sessions /\ Known(agent, req[x].sid)
  BY <1>1, <1>4, TurnIsPrompt, TInvHas DEF IInv, TurnsAreOpen
<1>5. ASSUME NEW t \in Turns, Sent(t)' PROVE Sent(t)
  <2>1. ASSUME NEW x \in Sessions, saved'[x] # NoCopy, Has(saved'[x].conv, t)
        PROVE  Sent(t)
    <3>1. CASE saved'[x] = saved[x]
      BY <2>1, <3>1, SentIsSent
    <3>2. CASE saved'[x] # saved[x]
      <4>1. /\ InTurn(r) /\ x = req[r].sid
            /\ saved'[x].conv = ThreadIn(agent, x)
        BY <1>1, <3>2
      <4>. QED  BY <1>4, <2>1, <4>1, SentIsSent
    <3>. QED  BY <3>1, <3>2
  <2>. QED  BY <1>1, <1>5, <2>1, SentUnchanged
<1>6. TInv'
  <2>1. ASSUME NEW x \in Requests, InTurn(x)
        PROVE  ThreadIn(agent', req[x].sid) = ThreadIn(agent, req[x].sid)
    BY <1>4, <2>1 DEF Unchanged
  <2>2. InTurn(r)' =>
           ThreadIn(agent', req'[r].sid) = Append(req'[r].before, req'[r].turn)
    BY <1>3, <2>1 DEF TInv, TurnIsOnTop
  <2>3. OnlyAsked'
    BY <1>5, AskedKept
  <2>. QED  BY <1>1, <2>1, <2>2, <2>3, TInvKept
<1>7. CASE InTurn(r) /\ ~InTurn(r)'
  <2>. PICK s \in Sessions : s = req[r].sid
    BY <1>4, <1>7
  <2>1. RunningBecomes(s, 0) /\ RunningTurn(s) # 0
    BY <1>1, <1>7, RunningEnds
  <2>2. SavedBecomes(s, SavedThread(s)) \/ SavedBecomes(s, ThreadOf(s))
    <3>1. CASE saved' = saved
      BY <1>1, <3>1, SavedChanges
    <3>2. CASE \E copy \in Copies :
                   /\ saved' = [saved EXCEPT ![s] = copy]
                   /\ copy.conv = ThreadIn(agent, s)
      <4>1. PICK copy \in Copies :
                   /\ saved' = [saved EXCEPT ![s] = copy]
                   /\ copy.conv = ThreadIn(agent, s)
        BY <3>2
      <4>2. copy # NoCopy
        BY MarkersAssumption DEF Copies
      <4>3. SavedBecomes(s, copy.conv)
        BY <1>1, <4>1, <4>2, SavedChanges
      <4>. QED  BY <1>1, <4>1, <4>3, ThreadIs
    <3>. QED  BY <3>1, <3>2
  <2>3. Threads!Next
    BY <1>2, <2>1, <2>2, AbstractEnd
  <2>. QED  BY <1>6, <2>3 DEF Simulated
<1>8. CASE ~(InTurn(r) /\ ~InTurn(r)')
  <2>1. InTurn(r)' <=> InTurn(r)
    BY <1>3, <1>8
  <2>2. SameRunning
    <3>1. ASSUME NEW x \in Requests
          PROVE  /\ InTurn(x)' <=> InTurn(x)
                 /\ InTurn(x) => req'[x].sid = req[x].sid /\ req'[x].turn = req[x].turn
      BY <1>1, <1>3, <2>1 DEF Untouched, InTurn
    <3>. QED  BY <3>1, RunningStays
  <2>3. SameSaved
    BY <1>1, <1>8, SavedChanges
  <2>4. UNCHANGED Threads!vars
    BY <1>2, <2>2, <2>3, AbstractStutter
  <2>. QED  BY <1>6, <2>4 DEF Simulated
<1>. QED  BY <1>7, <1>8

\* A turn that is taken back.
LEMMA TakeBackIsSimulated ==
    ASSUME TInv, NEW r \in Requests, Step(r), InTurn(r), ~InTurn(r)', ~AskModel(r),
           NEW s \in Sessions, req[r].sid = s,
           NEW before \in Conversations, req[r].before = before,
           Becomes(agent, agent', s, before),
           \/ saved' = saved
           \/ \E copy \in Copies : /\ saved' = [saved EXCEPT ![s] = copy]
                                   /\ copy.conv = before
    PROVE  Simulated
<1>1. /\ Served(agent) /\ Served(agent') /\ Locks /\ RestTyped
      /\ saved \in [Sessions -> Copies \cup {NoCopy}]
      /\ \A x \in Requests : x # r => Untouched(x)
  BY TInvHas, StepTouchesOwn DEF Becomes
<1>2. PICK t \in Turns : t = req[r].turn /\ RunningTurn(s) = t
  BY <1>1, RunningIs
<1>3. /\ req[r].pc \notin {"idle", "session"} /\ OnSession(req[r].kind)
      /\ Known(agent, s)
  BY <1>1, TurnIsPrompt, TInvHas DEF OnSession, IInv, TurnsAreOpen
<1>4. ThreadIn(agent, s) = Append(before, t)
  BY <1>2 DEF TInv, TurnIsOnTop
<1>5. ASSUME NEW u \in Turns, Has(before, u) PROVE Sent(u)
  <2>1. Has(ThreadIn(agent, s), u)
    BY <1>4, <1>5, HasInAppend
  <2>. QED  BY <1>3, <2>1, SentIsSent
<1>6. ASSUME NEW u \in Turns, Sent(u)' PROVE Sent(u)
  <2>1. ASSUME NEW x \in Sessions, saved'[x] # NoCopy, Has(saved'[x].conv, u)
        PROVE  Sent(u)
    <3>1. CASE saved'[x] = saved[x]
      BY <2>1, <3>1, SentIsSent
    <3>2. CASE saved'[x] # saved[x]
      <4>1. saved'[x].conv = before
        BY <1>1, <3>2
      <4>. QED  BY <1>5, <2>1, <4>1
    <3>. QED  BY <3>1, <3>2
  <2>. QED  BY <1>1, <1>5, <1>6, <2>1, SentBefore
<1>7. TInv'
  <2>1. ASSUME NEW x \in Requests, x # r, InTurn(x)
        PROVE  ThreadIn(agent', req[x].sid) = ThreadIn(agent, req[x].sid)
    BY <1>3, <2>1, OthersKept
  <2>2. OnlyAsked'
    BY <1>6, AskedKept
  <2>. QED  BY <1>1, <2>1, <2>2, TInvKept
<1>8. RunningBecomes(s, 0)
  BY <1>1, RunningEnds
<1>9. ThreadOf(s) = Append(before, t) /\ ThreadBecomes(s, before)
  BY <1>1, <1>4, ThreadIs, BecomesThread
<1>10. SavedBecomes(s, SavedThread(s)) \/ SavedBecomes(s, before)
  <2>1. CASE saved' = saved
    BY <1>1, <2>1, SavedChanges
  <2>2. CASE \E copy \in Copies : /\ saved' = [saved EXCEPT ![s] = copy]
                                  /\ copy.conv = before
    <3>1. PICK copy \in Copies : /\ saved' = [saved EXCEPT ![s] = copy]
                                 /\ copy.conv = before
      BY <2>2
    <3>2. copy # NoCopy
      BY MarkersAssumption DEF Copies
    <3>3. SavedBecomes(s, copy.conv)
      BY <1>1, <3>1, <3>2, SavedChanges
    <3>. QED  BY <3>1, <3>3
  <2>. QED  BY <2>1, <2>2
<1>11. Threads!Next
  BY <1>2, <1>8, <1>9, <1>10, AbstractTakeBack
<1>. QED  BY <1>7, <1>11 DEF Simulated

\* A prompt that is sent.
LEMMA AskIsSimulated ==
    ASSUME TInv, NEW r \in Requests, Step(r), AskModel(r),
           NEW s \in Sessions, req[r].sid = s, Known(agent, s),
           NEW t \in Turns, req[r].turn = t,
           NEW c \in Conversations, ThreadIn(agent, s) = c,
           Becomes(agent, agent', s, Append(c, t)), saved' = saved,
           req'[r].sid = s, req'[r].turn = t, req'[r].before = c
    PROVE  Simulated
<1>1. /\ Served(agent) /\ Served(agent') /\ Locks /\ RestTyped
      /\ saved \in [Sessions -> Copies \cup {NoCopy}]
      /\ \A x \in Requests : x # r => Untouched(x)
  BY TInvHas, StepTouchesOwn DEF Becomes
<1>2. /\ req[r].pc \notin {"idle", "session"} /\ OnSession(req[r].kind)
      /\ InTurn(r)' /\ ~InTurn(r)
  BY <1>1, AskBegins DEF AskModel, Runs, OnSession
<1>3. ASSUME NEW u \in Turns, Sent(u)' PROVE Sent(u) \/ u = t
  <2>1. \A x \in Sessions : saved'[x] # NoCopy /\ Has(saved'[x].conv, u) => Sent(u)
    BY SavedSent
  <2>2. Sent(u) \/ Has(Append(c, t), u)
    BY <1>1, <1>3, <2>1, SentBefore
  <2>. QED  BY <2>2, HasInAppend, SentIsSent
<1>4. TInv'
  <2>1. ASSUME NEW x \in Requests, x # r, InTurn(x)
        PROVE  ThreadIn(agent', req[x].sid) = ThreadIn(agent, req[x].sid)
    BY <1>2, <2>1, OthersKept
  <2>2. OnlyAsked'
    BY <1>3, AskedKept
  <2>3. ThreadIn(agent', req'[r].sid) = Append(req'[r].before, req'[r].turn)
    BY DEF Becomes
  <2>. QED  BY <1>1, <2>1, <2>2, <2>3, TInvKept
<1>5. ~Sent(t)
  BY TInvHas, StepPrompts DEF TInv, OnlyAsked
<1>6. ASSUME NEW o \in Sessions, ThreadOf(o) # NoState, NEW i \in 1..Len(ThreadOf(o)),
             ThreadOf(o)[i] = t
      PROVE  FALSE
  <2>1. ThreadOf(o) = ThreadIn(agent, o) /\ Known(agent, o)
    BY <1>1, <1>6, ThreadIs, ThreadType
  <2>2. Has(ThreadIn(agent, o), t)
    BY <1>6, <2>1 DEF Has
  <2>. QED  BY <1>5, <2>1, <2>2, SentIsSent
<1>7. Stays(r)
  BY <1>1, <1>2, StepCases DEF Joins, Leaves, Idle, InTurn
<1>8. RunningBecomes(s, t) /\ RunningTurn(s) = 0
  BY <1>1, <1>2, <1>7, RunningBegins
<1>9. ThreadBecomes(s, Append(c, t)) /\ ThreadOf(s) = c /\ c # NoState
  BY <1>1, BecomesThread, ThreadIs, ThreadType
<1>10. SameSaved
  BY <1>1, SavedChanges
<1>11. Threads!Next
  BY <1>6, <1>8, <1>9, <1>10, AbstractAsk
<1>. QED  BY <1>4, <1>11 DEF Simulated

\* A handler that opens a session of its own, or acts on the one of its request,
\* on which no turn runs.
LEMMA HandledIsSimulated ==
    ASSUME TInv, NEW r \in Requests, Step(r), ~InTurn(r), Answer(r),
           NEW s \in Sessions, NEW c, Becomes(agent, agent', s, c),
           \/ ~Known(agent, s)
           \/ req[r].pc = "workspace" /\ OnSession(req[r].kind) /\ req[r].sid = s,
           \A t \in Turns : Has(c, t) => c = NoState \/ Sent(t),
           \A x \in Sessions, t \in Turns :
               saved'[x] # NoCopy /\ Has(saved'[x].conv, t) => Sent(t)
    PROVE  /\ TInv' /\ SameRunning /\ ThreadBecomes(s, c)
           /\ OnSession(req[r].kind) /\ req[r].pc = "workspace" =>
                RunningTurn(req[r].sid) = 0
<1>1. /\ Served(agent) /\ Served(agent') /\ Locks /\ RestTyped
      /\ saved \in [Sessions -> Copies \cup {NoCopy}]
      /\ \A x \in Requests : x # r => Untouched(x)
      /\ ~InTurn(r)'
  BY TInvHas, StepTouchesOwn, AnswerEndsTurn DEF Becomes
<1>2. TInv'
  <2>1. ASSUME NEW x \in Requests, x # r, InTurn(x)
        PROVE  ThreadIn(agent', req[x].sid) = ThreadIn(agent, req[x].sid)
    BY <2>1, OthersKept
  <2>2. ASSUME NEW t \in Turns, Sent(t)' PROVE Sent(t)
    <3>1. \A x \in Sessions : saved'[x] # NoCopy /\ Has(saved'[x].conv, t) => Sent(t)
      OBVIOUS
    <3>. QED  BY <1>1, <2>2, <3>1, SentBefore
  <2>3. OnlyAsked'
    BY <2>2, AskedKept
  <2>. QED  BY <1>1, <2>1, <2>3, TInvKept
<1>3. SameRunning
  <2>1. ASSUME NEW x \in Requests
        PROVE  /\ InTurn(x)' <=> InTurn(x)
               /\ InTurn(x) => req'[x].sid = req[x].sid /\ req'[x].turn = req[x].turn
    BY <1>1 DEF Untouched, InTurn
  <2>. QED  BY <2>1, RunningStays
<1>4. OnSession(req[r].kind) /\ req[r].pc = "workspace" => RunningTurn(req[r].sid) = 0
  BY <1>1, QuietHere
<1>. QED  BY <1>1, <1>2, <1>3, <1>4, BecomesThread

-----------------------------------------------------------------------------
(* The steps, action by action *)

LEMMA OpenedBecomes ==
    ASSUME NEW a, Served(a), NEW s \in Sessions, NEW c, NEW b, Opened(a, b, s, c)
    PROVE  Becomes(a, b, s, c)
BY OpenedServed DEF Becomes

LEMMA OnLiveBecomes ==
    ASSUME NEW a, NEW here, Unchanged(a, here), NEW s \in Sessions, here.active = s,
           NEW c, NEW b, OnLive(here, b, c)
    PROVE  Becomes(a, b, s, c)
BY OnLiveServed DEF Unchanged, Becomes

LEMMA UnchangedSelf ==
    ASSUME Served(agent), agent' = agent
    PROVE  Unchanged(agent, agent')
BY DEF Unchanged

LEMMA AnsweredIsNotAsked ==
    ASSUME RestTyped, NEW r \in Requests, Answer(r)
    PROVE  ~AskModel(r) /\ ~InTurn(r)'
BY AskBegins, AnswerEndsTurn

LEMMA WaitsSimulated ==
    ASSUME TInv, NEW r \in Requests, Waits(r)
    PROVE  Simulated
<1>1. /\ IInv /\ RestTyped /\ Served(agent)
  BY TInvHas
<1>2. agent' = agent /\ (InTurn(r)' => InTurn(r))
  BY <1>1, WaitsKeepTurn
<1>3. saved' = saved
  BY DEF Waits, Arrive, Submit, SubmitGlobal, Cancel, EnterWorkspace, StartPrompt,
         Answered, ReplyArrives, UserAnswers, CancelSeen, Return, ToolReturns
<1>4. ~AskModel(r)
  BY <1>1, <1>2, AskBegins
<1>5. Step(r)
  BY Zenon DEF Step, Waits
<1>. QED  BY <1>1, <1>2, <1>3, <1>4, <1>5, UnchangedSelf, KeepIsSimulated

LEMMA NewSimulated ==
    ASSUME TInv, NEW r \in Requests, HandleNew(r)
    PROVE  Simulated
<1>1. Step(r) /\ Answer(r) /\ saved' = saved /\ req[r].pc = "workspace"
  BY DEF Step, Handle, HandleNew, Runs
<1>2. /\ Served(agent) /\ Provider /\ RestTyped /\ Calm
      /\ saved \in [Sessions -> Copies \cup {NoCopy}]
  BY TInvHas
<1>3. ~AskModel(r) /\ ~InTurn(r)
  BY <1>1, <1>2, AnsweredIsNotAsked DEF InTurn
<1>4. CASE NoIdLeft
  BY <1>1, <1>2, <1>3, <1>4, UnchangedSelf, KeepIsSimulated DEF NoIdLeft
<1>5. CASE ~NoIdLeft
  <2>1. PICK s \in UnusedIds, d \in Dirs, ok \in Loads :
           agent' = OpenParked(Park(agent), s, NewState(agent, d), ok)
    BY <1>5 DEF HandleNew
  <2>2. s \in Sessions /\ ~Known(agent, s) /\ saved[s] = NoCopy
    BY DEF UnusedIds
  <2>3. /\ NewState(agent, d) \in SessionStates /\ NewState(agent, d).remote = NoRemote
        /\ NewState(agent, d).model = DefaultLocal /\ NewState(agent, d).conv = << >>
    BY <1>2, NewStateSettles DEF NewState
  <2>4. Opened(agent, agent', s, << >>)
    BY <1>2, <2>1, <2>2, <2>3, OpenOpens
  <2>5. Becomes(agent, agent', s, << >>)
    BY <1>2, <2>2, <2>4, OpenedBecomes
  <2>6. TInv' /\ SameRunning /\ ThreadBecomes(s, << >>)
    BY <1>1, <1>3, <2>2, <2>5, NoneHasNone, SavedSent, HandledIsSimulated
  <2>7. ThreadOf(s) = NoState /\ SavedThread(s) = NoCopy /\ SameSaved
    BY <1>1, <1>2, <2>2, SavedChanges DEF ThreadOf, SavedThread
  <2>8. Threads!Next
    BY <2>2, <2>6, <2>7, AbstractNew
  <2>. QED  BY <2>6, <2>8 DEF Simulated
<1>. QED  BY <1>4, <1>5

\* What a session is opened with, when it is not new.
LEMMA CopyOpens ==
    ASSUME Calm, Provider, Served(agent), NEW d \in Dirs, NEW s \in Sessions, NEW ok,
           NEW conv \in Conversations, NEW m \in Models, m = DefaultLocal,
           agent' = OpenParked(Park(agent), s,
                       [NewState(agent, d) EXCEPT !.conv = conv, !.model = m], ok)
    PROVE  Becomes(agent, agent', s, conv)
<1>. DEFINE fresh == NewState(agent, d)
            st == [fresh EXCEPT !.conv = conv, !.model = m]
<1>1. fresh \in SessionStates /\ fresh.remote = NoRemote
  BY NewStateSettles
<1>2. agent' = OpenParked(Park(agent), s, st, ok)
  OBVIOUS
<1>. HIDE DEF fresh
<1>3. /\ st \in SessionStates /\ st.remote = NoRemote
      /\ st.model = DefaultLocal /\ st.conv = conv
  BY <1>1 DEF SessionStates
<1>. HIDE DEF st
<1>4. Opened(agent, agent', s, conv)
  BY <1>2, <1>3, OpenOpens
<1>. QED  BY <1>4, OpenedBecomes

LEMMA LoadSimulated ==
    ASSUME TInv, NEW r \in Requests, HandleLoad(r)
    PROVE  Simulated
<1>. DEFINE copy == saved[req[r].sid]
            parked == Park(agent)
<1>1. /\ Step(r) /\ Answer(r) /\ saved' = saved /\ req[r].pc = "workspace"
      /\ OnSession(req[r].kind)
  BY DEF Step, Handle, HandleLoad, Runs, OnSession
<1>2. /\ Served(agent) /\ Provider /\ RestTyped /\ Calm
      /\ saved \in [Sessions -> Copies \cup {NoCopy}]
  BY TInvHas
<1>3. ~AskModel(r) /\ ~InTurn(r)
  BY <1>1, <1>2, AnsweredIsNotAsked DEF InTurn
<1>4. PICK s \in Sessions : s = req[r].sid
  BY <1>1, TInvHas DEF Locks, Placed, IsPlaced, InLine
<1>5. CASE copy = NoCopy /\ ~Known(parked, s)
  <2>1. agent' = Park(agent)
    BY <1>4, <1>5 DEF HandleLoad
  <2>. QED  BY <1>1, <1>2, <1>3, <2>1, ParkServes, KeepIsSimulated
<1>6. CASE copy = NoCopy /\ Known(parked, s)
  <2>1. PICK d \in Dirs, ok \in Loads :
          agent' = OpenParked(parked, s,
                     [NewState(agent, d) EXCEPT !.conv = parked.sess[s].conv,
                                                !.model = NewState(agent, d).model], ok)
    BY <1>4, <1>6 DEF HandleLoad
  <2>2. Known(agent, s)
    BY <1>2, <1>6, ParkCoherent DEF Served
  <2>3. parked.sess[s].conv = ThreadIn(agent, s) /\ ThreadIn(agent, s) \in Conversations
    BY <1>2, <2>2, ParkedThread, ThreadType
  <2>4. NewState(agent, d).model = DefaultLocal /\ DefaultLocal \in Models
    BY <1>2, NewStateSettles, ModelsAssumption DEF Models
  <2>. HIDE DEF parked
  <2>5. Becomes(agent, agent', s, ThreadIn(agent, s))
    BY <1>2, <2>1, <2>3, <2>4, CopyOpens DEF parked
  <2>6. Unchanged(agent, agent')
    BY <2>5 DEF Becomes, Unchanged
  <2>. QED  BY <1>1, <1>3, <2>6, KeepIsSimulated
<1>7. CASE copy # NoCopy
  <2>1. PICK d \in Dirs, ok \in Loads :
          agent' = OpenParked(parked, s,
                     [NewState(agent, d) EXCEPT !.conv = copy.conv, !.model = copy.model], ok)
    BY <1>4, <1>7 DEF HandleLoad
  <2>2. PICK c \in Conversations : c = copy.conv
    BY <1>2, <1>4, <1>7 DEF Copies
  <2>3. copy.model = DefaultLocal /\ copy.model \in Models
    BY <1>2, <1>4, <1>7 DEF Calm, OneModelSaved, Copies
  <2>4. Becomes(agent, agent', s, c)
    BY <1>2, <2>1, <2>2, <2>3, CopyOpens
  <2>5. \A t \in Turns : Has(c, t) => c = NoState \/ Sent(t)
    BY <1>4, <1>7, <2>2, SentIsSent
  <2>6. TInv' /\ SameRunning /\ ThreadBecomes(s, c) /\ RunningTurn(s) = 0
    BY <1>1, <1>3, <1>4, <2>4, <2>5, SavedSent, HandledIsSimulated
  <2>7. SavedThread(s) = c /\ c # NoCopy
    BY <1>4, <1>7, <2>2, MarkersAssumption DEF SavedThread
  <2>8. SameSaved
    BY <1>1, <1>2, SavedChanges
  <2>9. Threads!Next
    BY <2>6, <2>7, <2>8, AbstractLoad
  <2>. QED  BY <2>6, <2>9 DEF Simulated
<1>. QED  BY <1>5, <1>6, <1>7

LEMMA ForkSimulated ==
    ASSUME TInv, NEW r \in Requests, HandleFork(r)
    PROVE  Simulated
<1>. DEFINE parked == Park(agent)
<1>1. /\ Step(r) /\ Answer(r) /\ saved' = saved /\ req[r].pc = "workspace"
      /\ OnSession(req[r].kind)
  BY DEF Step, Handle, HandleFork, Runs, OnSession
<1>2. /\ Served(agent) /\ Provider /\ RestTyped /\ Calm
      /\ saved \in [Sessions -> Copies \cup {NoCopy}]
  BY TInvHas
<1>3. ~AskModel(r) /\ ~InTurn(r)
  BY <1>1, <1>2, AnsweredIsNotAsked DEF InTurn
<1>4. PICK s \in Sessions : s = req[r].sid
  BY <1>1, TInvHas DEF Locks, Placed, IsPlaced, InLine
<1>5. CASE NoIdLeft
  BY <1>1, <1>2, <1>3, <1>5, UnchangedSelf, KeepIsSimulated DEF NoIdLeft
<1>6. CASE ~NoIdLeft
  <2>1. PICK n \in UnusedIds, d \in Dirs, ok \in Loads :
          agent' = OpenParked(parked, n,
             IF Known(parked, s)
             THEN [NewState(agent, d) EXCEPT !.conv = parked.sess[s].conv,
                                             !.model = parked.sess[s].model]
             ELSE IF saved[s] # NoCopy
             THEN [NewState(agent, d) EXCEPT !.conv = saved[s].conv,
                                             !.model = saved[s].model]
             ELSE NewState(agent, d), ok)
    BY <1>4, <1>6 DEF HandleFork
  <2>2. n \in Sessions /\ ~Known(agent, n) /\ saved[n] = NoCopy
    BY DEF UnusedIds
  <2>. DEFINE source == IF Known(agent, s) THEN ThreadIn(agent, s)
                        ELSE IF saved[s] # NoCopy THEN saved[s].conv ELSE << >>
  <2>3. Known(parked, s) <=> Known(agent, s)
    BY <1>2, ParkCoherent DEF Served
  <2>4. Becomes(agent, agent', n, source)
    <3>1. CASE Known(agent, s)
      <4>1. /\ parked.sess[s].conv = ThreadIn(agent, s)
            /\ ThreadIn(agent, s) \in Conversations
            /\ parked.sess[s].model = DefaultLocal /\ DefaultLocal \in Models
        BY <1>2, <3>1, ParkedThread, ThreadType, ModelsAssumption DEF Models
      <4>2. agent' = OpenParked(parked, n,
               [NewState(agent, d) EXCEPT !.conv = parked.sess[s].conv,
                                          !.model = parked.sess[s].model], ok)
        BY <2>1, <2>3, <3>1
      <4>3. Becomes(agent, agent', n, ThreadIn(agent, s))
        BY <1>2, <2>2, <4>1, <4>2, CopyOpens
      <4>. QED  BY <3>1, <4>3
    <3>2. CASE ~Known(agent, s) /\ saved[s] # NoCopy
      <4>1. /\ saved[s].conv \in Conversations
            /\ saved[s].model = DefaultLocal /\ saved[s].model \in Models
        BY <1>2, <3>2 DEF Calm, OneModelSaved, Copies
      <4>2. agent' = OpenParked(parked, n,
               [NewState(agent, d) EXCEPT !.conv = saved[s].conv,
                                          !.model = saved[s].model], ok)
        BY <2>1, <2>3, <3>2
      <4>3. Becomes(agent, agent', n, saved[s].conv)
        BY <1>2, <2>2, <4>1, <4>2, CopyOpens
      <4>. QED  BY <3>2, <4>3
    <3>3. CASE ~Known(agent, s) /\ saved[s] = NoCopy
      <4>1. agent' = OpenParked(parked, n, NewState(agent, d), ok)
        BY <2>1, <2>3, <3>3
      <4>2. /\ NewState(agent, d) \in SessionStates /\ NewState(agent, d).remote = NoRemote
            /\ NewState(agent, d).model = DefaultLocal /\ NewState(agent, d).conv = << >>
        BY <1>2, NewStateSettles DEF NewState
      <4>3. Opened(agent, agent', n, << >>)
        BY <1>2, <2>2, <4>1, <4>2, OpenOpens
      <4>4. Becomes(agent, agent', n, << >>)
        BY <1>2, <2>2, <4>3, OpenedBecomes
      <4>. QED  BY <3>3, <4>4
    <3>. QED  BY <3>1, <3>2, <3>3
  <2>5. \A t \in Turns : Has(source, t) => Sent(t)
    BY NoneHasNone, SentIsSent
  <2>6. /\ ThreadOf(n) = NoState /\ SavedThread(n) = NoCopy /\ SameSaved
        /\ ThreadOf(s) = ThreadIn(agent, s)
        /\ Known(agent, s) <=> ThreadIn(agent, s) # NoState
    BY <1>1, <1>2, <2>2, SavedChanges, ThreadIs, ThreadType DEF ThreadOf, SavedThread
  <2>7. saved[s] # NoCopy => saved[s].conv # NoCopy
    BY <1>2, MarkersAssumption DEF Copies
  <2>8. source = IF ThreadOf(s) # NoState THEN ThreadOf(s)
                 ELSE IF SavedThread(s) # NoCopy THEN SavedThread(s) ELSE << >>
    BY <2>6, <2>7 DEF SavedThread
  <2>. HIDE DEF source
  <2>9. TInv' /\ SameRunning /\ ThreadBecomes(n, source) /\ RunningTurn(s) = 0
    BY <1>1, <1>3, <1>4, <2>2, <2>4, <2>5, SavedSent, HandledIsSimulated
  <2>10. Threads!Next
    BY <2>2, <2>6, <2>8, <2>9, AbstractFork
  <2>. QED  BY <2>9, <2>10 DEF Simulated
<1>. QED  BY <1>5, <1>6

LEMMA CloseSimulated ==
    ASSUME TInv, NEW r \in Requests, HandleClose(r)
    PROVE  Simulated
<1>1. /\ Step(r) /\ Answer(r) /\ req[r].pc = "workspace" /\ OnSession(req[r].kind)
  BY DEF Step, Handle, HandleClose, Runs, OnSession
<1>2. /\ Served(agent) /\ Settled(agent) /\ Provider /\ RestTyped /\ Calm
      /\ saved \in [Sessions -> Copies \cup {NoCopy}]
  BY TInvHas
<1>3. ~InTurn(r)
  BY <1>1 DEF InTurn
<1>4. PICK s \in Sessions : s = req[r].sid
  BY <1>1, TInvHas DEF Locks, Placed, IsPlaced, InLine
<1>5. agent' = ClosedAgent(agent, s)
  BY <1>4 DEF HandleClose
<1>6. Becomes(agent, agent', s, NoState)
  BY <1>2, <1>5, CloseServes DEF Becomes
<1>7. PICK copy \in {saved[s], NoCopy} : saved' = [saved EXCEPT ![s] = copy]
  BY <1>4 DEF HandleClose
<1>8. \A x \in Sessions, t \in Turns :
          saved'[x] # NoCopy /\ Has(saved'[x].conv, t) => Sent(t)
  <2>1. \A x \in Sessions : saved'[x] # NoCopy => saved'[x] = saved[x]
    BY <1>2, <1>7
  <2>. QED  BY <2>1, SentIsSent
<1>9. TInv' /\ SameRunning /\ ThreadBecomes(s, NoState) /\ RunningTurn(s) = 0
  BY <1>1, <1>3, <1>4, <1>6, <1>8, HandledIsSimulated
<1>10. SavedBecomes(s, SavedThread(s)) \/ SavedBecomes(s, NoCopy)
  <2>1. CASE copy = NoCopy
    BY <1>2, <1>7, <2>1, SavedChanges
  <2>2. CASE copy = saved[s]
    <3>1. saved' = saved
      BY <1>2, <1>7, <2>2
    <3>. QED  BY <1>2, <3>1, SavedChanges
  <2>. QED  BY <2>1, <2>2
<1>11. Threads!Next
  BY <1>9, <1>10, AbstractClose
<1>. QED  BY <1>9, <1>11 DEF Simulated

LEMMA HandleSimulated ==
    ASSUME TInv, NEW r \in Requests, Handle(r)
    PROVE  Simulated
<1>1. CASE HandleConfig(r)
  <2>1. req[r].kind = "config" /\ req[r].pc = "workspace"
    BY <1>1 DEF HandleConfig, Runs
  <2>. QED  BY <2>1, TInvHas DEF OnlySent
<1>2. CASE HandleLogout(r)
  <2>1. /\ Step(r) /\ Answer(r) /\ saved' = saved /\ agent' = LeaveCloud(agent)
    BY <1>2 DEF Step, Handle, HandleLogout
  <2>2. Unchanged(agent, agent')
    BY <2>1, TInvHas, LeaveCloudServes
  <2>. QED  BY <2>1, <2>2, TInvHas, AnsweredIsNotAsked, KeepIsSimulated
<1>. QED
  BY <1>1, <1>2, NewSimulated, LoadSimulated, ForkSimulated, CloseSimulated DEF Handle

LEMMA RejectSimulated ==
    ASSUME TInv, NEW r \in Requests, RejectPrompt(r)
    PROVE  Simulated
<1>1. /\ Step(r) /\ Answer(r) /\ saved' = saved
      /\ req[r].pc = "workspace" /\ OnSession(req[r].kind)
  BY DEF Step, TakeTurn, RejectPrompt, Runs, OnSession
<1>2. /\ Served(agent) /\ Settled(agent) /\ Provider /\ RestTyped
  BY TInvHas
<1>3. PICK s \in Sessions : s = req[r].sid
  BY <1>1, TInvHas DEF Locks, Placed, IsPlaced, InLine
<1>4. agent' = agent \/ \E ok, loads \in Loads : agent' = Prepare(agent, s, ok, loads)
  BY <1>3 DEF RejectPrompt
<1>5. Unchanged(agent, agent')
  BY <1>2, <1>4, UnchangedSelf, PrepareIsReinstall, ReinstallServes
<1>. QED  BY <1>1, <1>2, <1>5, AnsweredIsNotAsked, KeepIsSimulated

\* A session in place, after it was put there.
LEMMA PutInPlace ==
    ASSUME TInv, NEW s \in Sessions, NEW ok \in Loads, NEW here,
           here = Reinstall(agent, s, ok), Known(here, s)
    PROVE  /\ Unchanged(agent, here) /\ Served(here) /\ Settled(here)
           /\ here.active = s /\ Known(agent, s)
           /\ here.live \in Backends /\ here.live # Local
           /\ ThreadIn(agent, s) \in Conversations
           /\ HistoryOf(here, here.live) = ThreadIn(agent, s)
<1>1. /\ Served(agent) /\ Settled(agent) /\ Provider /\ Coherent(agent) /\ NoFallback
  BY TInvHas DEF Calm
<1>2. /\ Unchanged(agent, here) /\ Served(here) /\ here.active = s
  BY <1>1, ReinstallServes DEF Unchanged
<1>3. Settled(here)
  BY <1>1, ReinstallSettles
<1>4. Known(agent, s) /\ ThreadIn(agent, s) \in Conversations
  BY <1>1, <1>2, ThreadType DEF Unchanged
<1>5. here.live \in Backends /\ here.live # Local
  BY <1>2, ServedIsRemote
<1>6. HistoryOf(here, here.live) = ThreadIn(agent, s)
  BY <1>2, <1>5 DEF HistoryOf, ThreadIn, Unchanged
<1>. QED  BY <1>2, <1>3, <1>4, <1>5, <1>6

LEMMA SlashSimulated ==
    ASSUME TInv, NEW r \in Requests, RunSlash(r)
    PROVE  Simulated
<1>1. /\ Step(r) /\ Answer(r)
      /\ req[r].pc = "workspace" /\ OnSession(req[r].kind)
  BY DEF Step, TakeTurn, RunSlash, Runs, OnSession
<1>2. /\ Served(agent) /\ Provider /\ RestTyped
      /\ saved \in [Sessions -> Copies \cup {NoCopy}]
  BY TInvHas
<1>3. ~AskModel(r) /\ ~InTurn(r)
  BY <1>1, <1>2, AnsweredIsNotAsked DEF InTurn
<1>4. PICK s \in Sessions : s = req[r].sid
  BY <1>1, TInvHas DEF Locks, Placed, IsPlaced, InLine
<1>5. PICK ok \in Loads, loads \in Loads :
        LET here == Reinstall(agent, s, ok)
        IN  /\ InPlace(here, s)
            /\ \/ agent' = LoadCommand(here, loads) /\ saved' = saved
               \/ agent' = ClearCommand(here, s) /\ saved' = [saved EXCEPT ![s] = NoCopy]
  <2>1. "models" \notin CommandsSent /\ "reload" \notin CommandsSent
    BY DEF TInv, EndpointsOnly
  <2>. QED  BY <1>4, <2>1 DEF RunSlash
<1>6. PICK here : here = Reinstall(agent, s, ok)
  OBVIOUS
<1>7. /\ Known(here, s)
      /\ \/ agent' = LoadCommand(here, loads) /\ saved' = saved
         \/ agent' = ClearCommand(here, s) /\ saved' = [saved EXCEPT ![s] = NoCopy]
  BY <1>5, <1>6 DEF InPlace
<1>8. /\ Unchanged(agent, here) /\ Served(here) /\ Settled(here)
      /\ here.active = s /\ Known(agent, s)
  BY <1>6, <1>7, PutInPlace
<1>9. CASE agent' = LoadCommand(here, loads) /\ saved' = saved
  <2>1. Unchanged(here, agent')
    BY <1>2, <1>8, <1>9, LoadCommandServes
  <2>2. Unchanged(agent, agent')
    BY <1>8, <2>1 DEF Unchanged
  <2>. QED  BY <1>1, <1>3, <1>9, <2>2, KeepIsSimulated
<1>10. CASE agent' = ClearCommand(here, s) /\ saved' = [saved EXCEPT ![s] = NoCopy]
  <2>1. OnLive(here, agent', << >>)
    BY <1>2, <1>7, <1>8, <1>10, ClearServes
  <2>2. Becomes(agent, agent', s, << >>)
    BY <1>8, <2>1, OnLiveBecomes
  <2>3. \A x \in Sessions, t \in Turns :
            saved'[x] # NoCopy /\ Has(saved'[x].conv, t) => Sent(t)
    <3>1. \A x \in Sessions : saved'[x] # NoCopy => saved'[x] = saved[x]
      BY <1>2, <1>10
    <3>. QED  BY <3>1, SentIsSent
  <2>4. TInv' /\ SameRunning /\ ThreadBecomes(s, << >>) /\ RunningTurn(s) = 0
    BY <1>1, <1>3, <1>4, <2>2, <2>3, NoneHasNone, HandledIsSimulated
  <2>5. SavedBecomes(s, NoCopy)
    BY <1>2, <1>10, SavedChanges
  <2>6. ThreadOf(s) # NoState
    BY <1>2, <1>8, ThreadIs, ThreadType
  <2>7. Threads!Next
    BY <2>4, <2>5, <2>6, AbstractClear
  <2>. QED  BY <2>4, <2>7 DEF Simulated
<1>. QED  BY <1>7, <1>9, <1>10

LEMMA AskSimulated ==
    ASSUME TInv, NEW r \in Requests, AskModel(r)
    PROVE  Simulated
<1>1. /\ Step(r) /\ saved' = saved /\ req[r].kind = "prompt"
      /\ req[r].pc = "workspace" /\ OnSession(req[r].kind)
  BY DEF Step, TakeTurn, AskModel, Runs, OnSession
<1>2. /\ Served(agent) /\ Settled(agent) /\ Provider /\ RestTyped /\ Locks
      /\ req \in [Requests -> RequestType]
  BY TInvHas DEF RestTyped
<1>3. PICK s \in Sessions, t \in Turns : s = req[r].sid /\ t = req[r].turn
  BY <1>1, <1>2 DEF Locks, Placed, IsPlaced, InLine
<1>4. PICK ok \in Loads, loads \in Loads :
        LET here == Prepare(agent, s, ok, loads)
            b == here.live
        IN  /\ InPlace(here, s)
            /\ agent' = Push(here, b, t)
            /\ Wait(r, [req[r] EXCEPT !.pc = "infer", !.backend = b,
                          !.before = IF b = Local THEN << >> ELSE HistoryOf(here, b)])
  BY <1>3, Zenon DEF AskModel
<1>5. PICK here : here = Prepare(agent, s, ok, loads)
  OBVIOUS
<1>6. here = Reinstall(agent, s, ok)
  BY <1>2, <1>5, PrepareIsReinstall
<1>7. /\ Known(here, s)
      /\ agent' = Push(here, here.live, t)
      /\ Wait(r, [req[r] EXCEPT !.pc = "infer", !.backend = here.live,
                    !.before = IF here.live = Local THEN << >>
                               ELSE HistoryOf(here, here.live)])
  BY <1>4, <1>5, Zenon DEF InPlace
<1>8. /\ Unchanged(agent, here) /\ Served(here)
      /\ here.active = s /\ Known(agent, s) /\ here.live # Local
      /\ ThreadIn(agent, s) \in Conversations
      /\ HistoryOf(here, here.live) = ThreadIn(agent, s)
  BY <1>6, <1>7, PutInPlace
<1>9. PICK c \in Conversations : c = ThreadIn(agent, s)
  BY <1>8
<1>10. Becomes(agent, agent', s, Append(c, t))
  <2>1. Append(c, t) \in Conversations
    BY DEF Conversations
  <2>2. agent' = Restore(here, here.live, Append(c, t))
    BY <1>7, <1>8, <1>9 DEF Push
  <2>3. OnLive(here, agent', Append(c, t))
    BY <1>2, <1>8, <2>1, <2>2, RestoreOnLive
  <2>. QED  BY <1>8, <2>3, OnLiveBecomes
<1>11. req'[r].sid = s /\ req'[r].turn = t /\ req'[r].before = c
  <2>. DEFINE st == [req[r] EXCEPT !.pc = "infer", !.backend = here.live,
                       !.before = IF here.live = Local THEN << >>
                                  ELSE HistoryOf(here, here.live)]
              w == [st EXCEPT !.outcome = "none", !.released = GivesUp(st.backend)]
  <2>1. st.sid = s /\ st.turn = t /\ st.before = c /\ DOMAIN st = DOMAIN req[r]
    BY <1>2, <1>3, <1>8, <1>9 DEF RequestType
  <2>2. req'[r] = w
    BY <1>2, <1>7 DEF Wait
  <2>. HIDE DEF st
  <2>3. w.sid = st.sid /\ w.turn = st.turn /\ w.before = st.before
    OBVIOUS
  <2>. QED  BY <2>1, <2>2, <2>3
<1>12. Simulated
  BY <1>1, <1>3, <1>8, <1>9, <1>10, <1>11, AskIsSimulated
<1>. QED  BY <1>12

\* A turn that resumes finds its thread on the backend it was given.
LEMMA ResumeFinds ==
    ASSUME TInv, NEW r \in Requests, InTurn(r), NEW ok \in Loads, NEW s \in Sessions,
           s = req[r].sid, NEW here,
           here = IF req[r].released THEN Reinstall(agent, s, ok) ELSE agent,
           ~req[r].released => agent.active = s
    PROVE  /\ Unchanged(agent, here) /\ Served(here) /\ here.active = s /\ Known(here, s)
           /\ here.live = req[r].backend /\ req[r].backend # Local
           /\ req[r].backend \in Backends
           /\ HistoryOf(here, req[r].backend) = ThreadIn(agent, s)
           /\ here.sess[s].model \in Models
<1>1. /\ Served(agent) /\ Coherent(agent) /\ Known(agent, s)
      /\ HoldsTurn(agent, s, req[r].backend)
  BY TInvHas DEF TInv, TurnKeepsItsBackend, HoldsTurn, IInv, TurnsAreOpen
<1>2. here = Reinstall(agent, s, ok)
  BY <1>1, ActivateLive DEF Reinstall
<1>3. Known(here, s)
  BY <1>1, <1>2, ReinstallReaches
<1>4. /\ Unchanged(agent, here) /\ Served(here) /\ here.active = s
      /\ here.live \in Backends /\ here.live # Local
      /\ HistoryOf(here, here.live) = ThreadIn(agent, s)
  BY <1>2, <1>3, PutInPlace
<1>5. here.live = req[r].backend
  <2>1. CASE agent.active = s
    <3>1. here = agent
      BY <1>1, <1>2, <2>1, ActivateLive DEF Reinstall
    <3>. QED  BY <1>1, <2>1, <3>1 DEF HoldsTurn
  <2>2. CASE agent.active # s
    <3>1. OwnBackend(agent, s) /\ agent.sess[s].remote.backend = req[r].backend
      BY <1>1, <2>2 DEF HoldsTurn, OwnBackend
    <3>2. here = Activate(agent, s, ok)
      BY <1>1, <1>2 DEF Reinstall
    <3>. QED  BY <1>1, <2>2, <3>1, <3>2, ActivateEffect
  <2>. QED  BY <2>1, <2>2
<1>6. here.sess[s].model \in Models
  BY <1>3, <1>4 DEF Served, Coherent, AgentType, Known, SessionStates
<1>. QED  BY <1>3, <1>4, <1>5, <1>6

LEMMA CopyIsCopy ==
    ASSUME NEW r, NEW s, s = req[r].sid, NEW a, NEW c \in Conversations,
           HistoryOf(a, req[r].backend) = c, a.sess[s].model \in Models
    PROVE  SavedCopy(a, r) \in Copies /\ SavedCopy(a, r).conv = c
BY DEF SavedCopy, Copies

\* What a turn does when it resumes.
ResumeCases(r, s, here) ==
    \/ /\ agent' = Forget(here, req[r].backend)
       /\ Answer(r) /\ saved' = saved
    \/ /\ agent' = here
       /\ saved' = saved
    \/ /\ agent' = here /\ Answer(r)
       /\ saved' = [saved EXCEPT ![s] = SavedCopy(here, r)]
    \/ /\ agent' = Restore(here, req[r].backend, req[r].before) /\ Answer(r)
       /\ saved' = [saved EXCEPT ![s] = SavedCopy(agent', r)]

LEMMA ResumeIsOneOf ==
    ASSUME NEW r \in Requests, Resume(r), NEW s, s = req[r].sid
    PROVE  \E ok \in Loads :
             ResumeCases(r, s, IF req[r].released THEN Reinstall(agent, s, ok) ELSE agent)
<1>. DEFINE H(ok) == IF req[r].released THEN Reinstall(agent, s, ok) ELSE agent
<1>1. PICK ok \in Loads :
        \/ /\ agent' = Forget(H(ok), req[r].backend) \/ agent' = H(ok)
           /\ Answer(r) /\ UNCHANGED saved
        \/ /\ agent' = H(ok)
           /\ saved' = saved \/ saved' = [saved EXCEPT ![s] = SavedCopy(H(ok), r)]
           /\ Answer(r)
        \/ /\ agent' = H(ok) \/ agent' = Restore(H(ok), req[r].backend, req[r].before)
           /\ saved' = [saved EXCEPT ![s] = SavedCopy(agent', r)]
           /\ Answer(r)
        \/ agent' = H(ok) /\ UNCHANGED saved
  BY DEF Resume
<1>. HIDE DEF H
<1>2. agent' = H(ok) => SavedCopy(agent', r) = SavedCopy(H(ok), r)
  OBVIOUS
<1>3. ResumeCases(r, s, H(ok))
  BY <1>1, <1>2, Zenon DEF ResumeCases
<1>. QED  BY <1>3 DEF H

LEMMA ResumeSimulated ==
    ASSUME TInv, NEW r \in Requests, Resume(r)
    PROVE  Simulated
<1>1. InTurn(r) /\ Step(r)
  BY DEF Resume, InTurn, Step
<1>2. /\ Served(agent) /\ Provider /\ RestTyped /\ Locks
  BY TInvHas
<1>3. PICK s \in Sessions, t \in Turns, before \in Conversations :
        /\ s = req[r].sid /\ t = req[r].turn /\ before = req[r].before
        /\ ~req[r].released => agent.active = s
        /\ ThreadIn(agent, s) = Append(before, t)
  <2>1. req[r].before \in Conversations
    BY <1>2 DEF RestTyped, RequestType
  <2>2. ~req[r].released => agent.active = req[r].sid
    BY <1>1, TInvHas DEF IInv, TurnsAreLive
  <2>3. ThreadIn(agent, req[r].sid) = Append(req[r].before, req[r].turn)
    BY <1>1 DEF TInv, TurnIsOnTop
  <2>. QED  BY <1>1, <1>2, <2>1, <2>2, <2>3, TurnIsPrompt
<1>4. PICK ok \in Loads :
        ResumeCases(r, s, IF req[r].released THEN Reinstall(agent, s, ok) ELSE agent)
  BY <1>3, ResumeIsOneOf
<1>5. PICK here : here = IF req[r].released THEN Reinstall(agent, s, ok) ELSE agent
  OBVIOUS
<1>6. /\ Unchanged(agent, here) /\ Served(here) /\ here.active = s /\ Known(here, s)
      /\ here.live = req[r].backend /\ req[r].backend # Local
      /\ req[r].backend \in Backends
      /\ HistoryOf(here, req[r].backend) = ThreadIn(agent, s)
      /\ here.sess[s].model \in Models
  BY <1>1, <1>3, <1>5, ResumeFinds
<1>7. ~AskModel(r)
  BY <1>1, <1>2, AskBegins
<1>8. Answer(r) => ~InTurn(r)'
  BY <1>2, AnswerEndsTurn
<1>9. \* The prompt taken back.
      ASSUME agent' = Restore(here, req[r].backend, before)
      PROVE  /\ Becomes(agent, agent', s, before)
             /\ HistoryOf(agent', req[r].backend) = before
             /\ agent'.sess[s].model \in Models
  <2>1. OnLive(here, agent', before)
    BY <1>2, <1>3, <1>6, <1>9, RestoreOnLive
  <2>2. Becomes(agent, agent', s, before)
    BY <1>6, <2>1, OnLiveBecomes
  <2>3. HistoryOf(agent', req[r].backend) = before
    BY <1>6, <2>1 DEF OnLive, HistoryOf
  <2>4. agent'.sess[s].model \in Models
    BY <1>6, <2>1 DEF OnLive, Coherent, AgentType, Known, SessionStates
  <2>. QED  BY <2>2, <2>3, <2>4
<1>10. CASE /\ agent' = Forget(here, req[r].backend)
            /\ Answer(r) /\ saved' = saved
  <2>1. /\ Append(before, t) # << >>
        /\ SubSeq(Append(before, t), 1, Len(Append(before, t)) - 1) = before
    BY <1>3 DEF Conversations
  <2>2. agent' = Restore(here, req[r].backend, before)
    BY <1>3, <1>6, <1>10, <2>1 DEF Forget
  <2>. QED  BY <1>1, <1>3, <1>7, <1>8, <1>9, <1>10, <2>2, TakeBackIsSimulated
<1>11. CASE agent' = here /\ saved' = saved
  BY <1>1, <1>6, <1>7, <1>11, KeepIsSimulated
<1>12. CASE /\ agent' = here /\ Answer(r)
            /\ saved' = [saved EXCEPT ![s] = SavedCopy(here, r)]
  <2>1. ThreadIn(agent, s) \in Conversations
    BY <1>2, <1>6, ThreadType DEF Unchanged
  <2>2. SavedCopy(here, r) \in Copies /\ SavedCopy(here, r).conv = ThreadIn(agent, s)
    BY <1>3, <1>6, <2>1, CopyIsCopy
  <2>3. \E copy \in Copies :
            /\ saved' = [saved EXCEPT ![req[r].sid] = copy]
            /\ copy.conv = ThreadIn(agent, req[r].sid)
    BY <1>3, <1>12, <2>2
  <2>. QED  BY <1>1, <1>6, <1>7, <1>8, <1>12, <2>3, KeepIsSimulated
<1>13. CASE /\ agent' = Restore(here, req[r].backend, req[r].before) /\ Answer(r)
            /\ saved' = [saved EXCEPT ![s] = SavedCopy(agent', r)]
  <2>1. /\ Becomes(agent, agent', s, before)
        /\ HistoryOf(agent', req[r].backend) = before
        /\ agent'.sess[s].model \in Models
    BY <1>3, <1>9, <1>13
  <2>2. SavedCopy(agent', r) \in Copies /\ SavedCopy(agent', r).conv = before
    BY <1>3, <2>1, CopyIsCopy
  <2>3. \E copy \in Copies : /\ saved' = [saved EXCEPT ![s] = copy]
                             /\ copy.conv = before
    BY <1>13, <2>2
  <2>. QED  BY <1>1, <1>3, <1>7, <1>8, <1>13, <2>1, <2>3, TakeBackIsSimulated
<1>. QED  BY <1>4, <1>5, <1>10, <1>11, <1>12, <1>13 DEF ResumeCases

LEMMA StepSimulated ==
    ASSUME TInv, NEW r \in Requests, Step(r)
    PROVE  Simulated
BY WaitsSimulated, HandleSimulated, RejectSimulated, SlashSimulated, AskSimulated,
   ResumeSimulated DEF Step, Waits, TakeTurn

LEMMA RestartSimulated ==
    ASSUME TInv, Restart
    PROVE  Simulated
<1>1. /\ agent.selected = DefaultLocal /\ agent.localInference \in BOOLEAN
      /\ agent.signedIn \in BOOLEAN /\ Provider
  BY TInvHas DEF Settled, NeverFallsBack, OneModel, IInv, TypeOK, AgentType
<1>2. /\ Served(agent') /\ \A x \in Sessions : ThreadIn(agent', x) = NoState
  BY <1>1, StartServes DEF Restart
<1>3. /\ saved' = saved /\ turns' = turns /\ \A r \in Requests : req'[r] = Idle
  BY DEF Restart
<1>4. \A r \in Requests : ~InTurn(r)' /\ ~Waiting(r)' /\ ~IsPrompt(r)'
  BY <1>3 DEF InTurn, Waiting, IsPrompt, Idle
<1>5. Calm' /\ TurnKeepsItsBackend'
  <2>1. Next
    BY DEF Next
  <2>. QED  BY <2>1, CalmNext, NextKeepsBackends DEF TInv
<1>6. EndpointsOnly' /\ OnEndpoints(agent') /\ TurnIsOnTop' /\ PromptsDiffer'
  BY <1>2, <1>4 DEF TInv, EndpointsOnly, Served, TurnIsOnTop, PromptsDiffer
<1>7. PromptsCounted'
  BY <1>3, TInvHas DEF PromptsCounted, Idle
<1>8. OnlyAsked'
  <2>. SUFFICES ASSUME NEW t \in Turns, Sent(t)' PROVE Asked(t)'
    BY DEF OnlyAsked
  <2>1. \A x \in Sessions : ~Known(agent', x)
    BY <1>2, ThreadType
  <2>2. Sent(t)
    BY <1>3, <2>1 DEF Sent
  <2>3. t <= turns
    BY <2>2 DEF TInv, OnlyAsked, Asked
  <2>. QED  BY <1>3, <1>4, <2>3 DEF Asked
<1>9. ASSUME NEW x \in Sessions PROVE ThreadOf(x)' = NoState /\ RunningTurn(x)' = 0
  <2>1. ThreadOf(x)' = NoState
    BY <1>2, ThreadIsNext
  <2>2. RunningOn(x)' = {}
    BY <1>4 DEF RunningOn
  <2>. QED  BY <2>1, <2>2 DEF RunningTurn, OneOf
<1>10. SameSaved
  BY <1>3, TInvHas, SavedChanges
<1>11. Threads!Next
  BY <1>9, <1>10, AbstractRestart
<1>. QED  BY <1>5, <1>6, <1>7, <1>8, <1>11 DEF Simulated, TInv

LEMMA QuietSimulated ==
    ASSUME TInv, [Next]_vars, UNCHANGED <<agent, saved, req, turns>>
    PROVE  Simulated
<1>1. SameThreads /\ SameRunning /\ SameSaved
  BY DEF SameThreads, SameRunning, SameSaved, ThreadOf, Known, HistoryOf, RunningTurn,
         OneOf, RunningOn, InTurn, SavedThread
<1>2. Calm' /\ TurnKeepsItsBackend'
  BY CalmNext, NextKeepsBackends DEF TInv
<1>3. /\ EndpointsOnly' /\ OnEndpoints(agent') /\ TurnIsOnTop' /\ PromptsDiffer'
      /\ PromptsCounted' /\ OnlyAsked'
  BY DEF TInv, EndpointsOnly, OnEndpoints, TurnIsOnTop, PromptsDiffer, PromptsCounted,
         OnlyAsked, Sent, Asked, Waiting, IsPrompt, InTurn, ThreadIn, Known, OwnBackend
<1>. QED  BY <1>1, <1>2, <1>3, AbstractStutter DEF Simulated, TInv

\* Swapping sessions is invisible to the client, for any number of sessions,
\* requests and backends: with an endpoint for every session, and no model picked,
\* a thread changes only by what is done on its session, whatever is parked,
\* installed, forked, closed, saved or started again meanwhile.  A turn is in its
\* thread once, on top of what was there, until it ends or is taken back
\* (park_active_session, install_session, reinstall_for_tools, main.rs 2520-2710).
THEOREM ThreadsAreKept ==
    ASSUME EndpointsOnly
    PROVE  Spec => KeepsThreads
<1>1. Init => TInv /\ Threads!Init
  <2>. SUFFICES ASSUME Init PROVE TInv /\ Threads!Init
    OBVIOUS
  <2>1. NoFallback /\ Provider
    BY DEF EndpointsOnly, NoFallback
  <2>2. /\ Served(agent) /\ \A x \in Sessions : ThreadIn(agent, x) = NoState
    <3>1. TRUE \in BOOLEAN /\ (~Provider) \in BOOLEAN
      OBVIOUS
    <3>. QED  BY <2>1, <3>1, StartServes DEF Init
  <2>3. Calm
    BY <2>1, InitCalm
  <2>4. \A r \in Requests : ~InTurn(r) /\ ~IsPrompt(r) /\ req[r].turn = 0
    BY DEF Init, Idle, InTurn, IsPrompt
  <2>5. \A x \in Sessions : ~Known(agent, x) /\ saved[x] = NoCopy
    BY <2>2, ThreadType DEF Init
  <2>6. TInv
    <3>1. TurnKeepsItsBackend /\ TurnIsOnTop /\ PromptsDiffer
      BY <2>4 DEF TurnKeepsItsBackend, TurnIsOnTop, PromptsDiffer
    <3>2. PromptsCounted
      BY <2>4 DEF PromptsCounted, Init
    <3>3. OnlyAsked
      BY <2>5 DEF OnlyAsked, Sent
    <3>. QED  BY <2>2, <2>3, <3>1, <3>2, <3>3 DEF TInv, Served
  <2>7. \A x \in Sessions : ThreadOf(x) = NoState /\ SavedThread(x) = NoCopy
    BY <2>5 DEF ThreadOf, SavedThread
  <2>8. \A x \in Sessions : RunningTurn(x) = 0
    <3>1. \A x \in Sessions : RunningOn(x) = {}
      BY <2>4 DEF RunningOn
    <3>. QED  BY <3>1 DEF RunningTurn, OneOf
  <2>9. /\ ThreadMap = [x \in Sessions |-> NoState]
        /\ RunningMap = [x \in Sessions |-> 0]
        /\ SavedMap = [x \in Sessions |-> NoCopy]
    BY <2>7, <2>8 DEF ThreadMap, RunningMap, SavedMap
  <2>10. Threads!Init
    BY <2>9 DEF Threads!Init, ThreadMap, RunningMap, SavedMap, RunningTurn, OneOf, SavedThread
  <2>. QED  BY <2>6, <2>10
<1>2. TInv /\ [Next]_vars => TInv' /\ [Threads!Next]_(Threads!vars)
  <2>. SUFFICES ASSUME TInv, [Next]_vars PROVE Simulated
    BY DEF Simulated
  <2>1. CASE \E r \in Requests : Step(r)
    BY <2>1, StepSimulated
  <2>2. CASE Restart
    BY <2>2, RestartSimulated
  <2>3. CASE UNCHANGED <<agent, saved, req, turns>>
    BY <2>3, QuietSimulated
  <2>. QED  BY <2>1, <2>2, <2>3, NextIsStep DEF ChangeDir, vars
<1>. QED  BY <1>1, <1>2, PTL DEF Spec, KeepsThreads, Threads!Spec
=============================================================================
