-------------------------- MODULE SessionWorkspace --------------------------
(***************************************************************************)
(* The sessions of one ACP server process, and the one workspace they      *)
(* share (crates/cli/src/main.rs).                                         *)
(*                                                                         *)
(* An editor keeps many threads open in one process, but the process has   *)
(* one current directory, one set of roots and MCP servers, one live       *)
(* backend and one on-device engine.  A session is parked and another one  *)
(* installed whenever a request on another session runs.  A prompt turn on *)
(* an HTTP endpoint gives the workspace up while it waits for the endpoint *)
(* or for the user, so sessions are swapped under it; it takes the         *)
(* workspace back, and puts its own session in place, before it goes on.   *)
(*                                                                         *)
(* Requests on one session wait for each other (SessionLocks shows how;    *)
(* here it is the queue `line`), and whatever touches the workspace waits  *)
(* for workspace_lock (`workspace`).  Handlers are tasks of one executor:  *)
(* a step runs from one await that can block to the next.  What a handler  *)
(* does under workspace_lock without giving it up is one step.             *)
(*                                                                         *)
(* A conversation is the sequence of the turns in it.  System messages,    *)
(* which are rebuilt on every install, and the messages inside a turn are  *)
(* left out, so that carryover_history is the identity here.  The          *)
(* additional roots, the MCP servers, the session of the background tasks  *)
(* and session_cwd are set together with `active` and go with it.          *)
(***************************************************************************)
EXTENDS Naturals, Sequences, FiniteSets

CONSTANTS
    Sessions,       \* session ids
    Dirs,           \* directories a client may name as a cwd
    Requests,       \* request slots, used again once their request ended
    Backends,       \* heap addresses of HTTP backends
    LocalModels,    \* on-device models
    CloudModels,    \* siGit Code Cloud tiers
    DefaultLocal,   \* the on-device model selected at first
    DefaultTier,    \* DEFAULT_CLOUD_TIER
    Provider,       \* TRUE: an OpenAI-compatible override is configured, and
                    \* every session is served by an endpoint of its own
    AutoLoad,       \* TRUE: started with --acp, a prompt loads the model it needs
    KindsSent,      \* the kinds of request the client sends
    CommandsSent,   \* the slash commands the user sends
    LoadMayFail,    \* TRUE: the weights of a model may not load
    MayRepeatClose, \* TRUE: the client may close a session it is closing
    MaxTurns,       \* prompts in a behaviour
    MaxOthers,      \* other requests in a behaviour
    MaxToolRounds,  \* tool rounds in a turn (149 in the code)
    MaxDirChanges,  \* times a directory is removed or made again
    MaxRestarts,    \* times the process is started again
    Local,          \* the on-device backend, as the live backend
    NoSession, NoState, NoRemote, NoHistory, NoCopy

ASSUME ModelsAssumption ==
    /\ DefaultLocal \in LocalModels
    /\ DefaultTier \in CloudModels
    /\ LocalModels \cap CloudModels = {}
ASSUME BoundsAssumption ==
    /\ {Provider, AutoLoad, LoadMayFail, MayRepeatClose} \subseteq BOOLEAN
    /\ {MaxTurns, MaxOthers, MaxToolRounds, MaxDirChanges,
        MaxRestarts} \subseteq Nat

VARIABLES
    agent,      \* SiGitAgent: the live session and the parked ones, see AgentType
    saved,      \* session_store: id -> [conv, model], or NoCopy
    present,    \* the directories that exist
    line,       \* session -> requests on it, oldest first; the head has its lock
    workspace,  \* requests on workspace_lock; the head has it
    closing,    \* SiGitAgent::closing_sessions
    req,        \* request slot -> what it does, see RequestType
    turns,      \* prompts so far
    others,     \* other requests so far
    changes,    \* directory changes so far
    restarts    \* restarts so far

vars == <<agent, saved, present, line, workspace, closing, req, turns, others, changes, restarts>>

-----------------------------------------------------------------------------
(* State *)

Turns == 1..MaxTurns
Conversations == Seq(Turns)
Models == LocalModels \cup CloudModels
Remotes == [backend : Backends, model : Models]

\* SessionState.  `conv` is stale while the session is live or mid-turn.
SessionStates ==
    [cwd : Dirs, model : Models, conv : Conversations, remote : Remotes \cup {NoRemote}]

\* There is always memory for another backend: more than the live one, one for
\* each request and one for each parked session.
ASSUME BackendsAssumption ==
    /\ Local \notin Backends
    /\ IsFiniteSet(Sessions) /\ IsFiniteSet(Requests) /\ IsFiniteSet(Backends)
    /\ Cardinality(Backends) > Cardinality(Sessions) + Cardinality(Requests) + 1
ASSUME MarkersAssumption ==
    /\ NoSession \notin Sessions \cup Dirs
    /\ NoState \notin SessionStates \cup Conversations
    /\ NoRemote \notin Remotes
    /\ NoHistory \notin Conversations
    /\ NoCopy \notin [conv : Conversations, model : Models] \cup Conversations

AgentType ==
    [ active : Sessions \cup {NoSession},   \* active_session
      procDir : Dirs \cup {NoSession},      \* the process's current directory
      live : Backends \cup {Local},         \* the live backend
      model : Models,                       \* current_model
      localInference : BOOLEAN,             \* settings
      signedIn : BOOLEAN,                   \* credentials
      selected : LocalModels,               \* the saved on-device selection
      weights : {"none", "failed", "loaded"},     \* model_load_error, and whether
                                            \* the engine has a model in memory
      engine : Conversations,               \* the engine's history
      pending : Conversations \cup {NoHistory},   \* LocalBackend::pending_history
      hist : [Backends -> Conversations],   \* OpenAiBackend::history
      sess : [Sessions -> SessionStates \cup {NoState}] ]     \* sessions

Kinds == {"prompt", "load", "close", "fork", "config", "new", "logout"}
ASSUME KindsAssumption == KindsSent \subseteq Kinds
PCs == {"idle", "session", "workspace", "infer", "ask", "resume", "run"}
Outcomes == {"none", "tools", "text", "error", "refused", "cancelled",
             "approved", "denied"}

RequestType ==
    [ kind : Kinds,
      sid : Sessions \cup {NoSession},
      pc : PCs,
      turn : Turns \cup {0},                \* the prompt's turn
      backend : Backends \cup {Local},      \* the backend the turn was given
      before : Conversations,               \* history_before_turn
      outcome : Outcomes,                   \* what it will go on with
      cancelled : BOOLEAN,                  \* PromptCancellation
      released : BOOLEAN,                   \* the WorkspaceHold is empty
      round : Nat ]                         \* tool rounds so far

Idle == [kind |-> "new", sid |-> NoSession, pc |-> "idle", turn |-> 0,
         backend |-> Local, before |-> << >>, outcome |-> "none",
         cancelled |-> FALSE, released |-> FALSE, round |-> 0]

TypeOK ==
    /\ agent \in AgentType
    /\ saved \in [Sessions -> [conv : Conversations, model : Models] \cup {NoCopy}]
    /\ present \in SUBSET Dirs
    /\ line \in [Sessions -> Seq(Requests)]
    /\ workspace \in Seq(Requests)
    /\ closing \in SUBSET Sessions
    /\ req \in [Requests -> RequestType]
    /\ turns \in 0..MaxTurns
    /\ others \in 0..MaxOthers
    /\ changes \in 0..MaxDirChanges
    /\ restarts \in 0..MaxRestarts

\* The server starts outside every project, with nothing live and no weights in
\* memory.  A provider override is installed as the first backend.
StartState(selected, localInference, signedIn) ==
    [active |-> NoSession, procDir |-> NoSession,
     live |-> IF Provider THEN CHOOSE b \in Backends : TRUE ELSE Local,
     model |-> selected, selected |-> selected,
     localInference |-> localInference, signedIn |-> signedIn,
     weights |-> "none", engine |-> << >>, pending |-> NoHistory,
     hist |-> [b \in Backends |-> << >>],
     sess |-> [s \in Sessions |-> NoState]]

Init ==
    /\ agent = StartState(DefaultLocal, TRUE, ~Provider)
    /\ saved = [s \in Sessions |-> NoCopy]
    /\ present = Dirs
    /\ line = [s \in Sessions |-> << >>]
    /\ workspace = << >>
    /\ closing = {}
    /\ req = [r \in Requests |-> Idle]
    /\ turns = 0
    /\ others = 0
    /\ changes = 0
    /\ restarts = 0

-----------------------------------------------------------------------------
(* The live backend *)

\* history_snapshot: what was restored before the engine had a model wins.
HistoryOf(a, b) ==
    IF b # Local THEN a.hist[b]
    ELSE IF a.pending # NoHistory THEN a.pending ELSE a.engine

\* The slip of a push the engine ignores while it has no model (backend.rs 608-610).
RestoreToTheEngineOnly(a, b, conv) ==
    IF b # Local THEN [a EXCEPT !.hist[b] = conv]
    ELSE IF a.weights = "loaded" THEN [a EXCEPT !.engine = conv, !.pending = NoHistory]
    ELSE a

\* restore_history.  The engine takes it at once only when a model is loaded.
Restore(a, b, conv) ==
    IF b # Local THEN [a EXCEPT !.hist[b] = conv]
    ELSE IF a.weights = "loaded" THEN [a EXCEPT !.engine = conv, !.pending = NoHistory]
    ELSE [a EXCEPT !.pending = conv]

\* A request's own message, pushed as it is sent.
Push(a, b, t) == Restore(a, b, Append(HistoryOf(a, b), t))

\* An HTTP backend that nothing points to: not the live one, not a parked
\* session's, not a running turn's.
HeldBackends(a) ==
    {a.live} \cup {req[r].backend : r \in Requests}
    \cup {a.sess[s].remote.backend :
            s \in {x \in Sessions : a.sess[x] # NoState /\ a.sess[x].remote # NoRemote}}
NewBackend(a) == CHOOSE b \in Backends : b \notin HeldBackends(a)

-----------------------------------------------------------------------------
(* Parking and installing *)

Known(a, s) == a.sess[s] # NoState

\* Slips in parking: the backend stays behind, or the on-device backend is parked
\* as an HTTP one.
ParkWithoutBackend(a) ==
    IF a.active = NoSession \/ ~Known(a, a.active) THEN a
    ELSE [a EXCEPT !.sess[a.active].conv = HistoryOf(a, a.live),
                   !.sess[a.active].remote = NoRemote]
ParkAnyBackend(a) ==
    IF a.active = NoSession \/ ~Known(a, a.active) THEN a
    ELSE [a EXCEPT !.sess[a.active].conv = HistoryOf(a, a.live),
                   !.sess[a.active].remote = [backend |-> a.live, model |-> a.model]]

\* park_active_session
Park(a) ==
    IF a.active = NoSession \/ ~Known(a, a.active) THEN a
    ELSE [a EXCEPT
            !.sess[a.active].conv = HistoryOf(a, a.live),
            !.sess[a.active].remote = IF a.live = Local THEN NoRemote
                                      ELSE [backend |-> a.live, model |-> a.model]]

\* seed_conversation: with an HTTP endpoint live, the engine gets the context
\* of the session, and no turns.
Seed(a, conv) ==
    Restore(IF a.live = Local THEN a ELSE [a EXCEPT !.engine = << >>], a.live, conv)

\* The slip of installing a session on the backend that is live.
InstallOnLiveBackend(a, s) ==
    LET state == a.sess[s]
        here == [a EXCEPT !.active = s,
                          !.procDir = IF state.cwd \in present THEN state.cwd ELSE @,
                          !.sess[s].remote = NoRemote]
    IN  IF state.remote # NoRemote /\ state.remote.model = state.model
        THEN [here EXCEPT !.engine = << >>, !.live = state.remote.backend,
                          !.model = state.remote.model]
        ELSE Seed(here, state.conv)

\* install_session.  A session with a backend of its own goes back onto it;
\* any other gets its parked conversation, on an endpoint of its own when the
\* live one is an HTTP endpoint.
Install(a, s) ==
    LET state == a.sess[s]
        here == [a EXCEPT !.active = s,
                          !.procDir = IF state.cwd \in present THEN state.cwd ELSE @,
                          !.sess[s].remote = NoRemote]
    IN  IF state.remote # NoRemote /\ state.remote.model = state.model
        THEN [here EXCEPT !.engine = << >>, !.live = state.remote.backend,
                          !.model = state.remote.model]
        ELSE Seed(IF a.live = Local THEN here ELSE [here EXCEPT !.live = NewBackend(a)],
                  state.conv)

\* record_active_model
RecordModel(a) ==
    IF a.active # NoSession /\ Known(a, a.active)
    THEN [a EXCEPT !.sess[a.active].model = a.model] ELSE a

\* switch_to_cloud_tier, with the account signed in, and install_remote_backend
SwitchToCloud(a, m) ==
    LET b == NewBackend(a)
    IN  RecordModel([a EXCEPT !.hist[b] = HistoryOf(a, a.live), !.live = b,
                              !.pending = NoHistory, !.model = m, !.localInference = FALSE])

\* switch_model_by_id, the weights having loaded: the engine keeps its turns.
LoadWeights(a, m) == RecordModel([a EXCEPT !.weights = "loaded", !.selected = m, !.model = m])

\* The slip of coming back from a cloud tier without the turns since the switch.
ResetToLocalEmpty(a) == RecordModel([a EXCEPT !.live = Local, !.pending = NoHistory])

\* reset_to_local_backend: a LocalBackend of its own, so nothing pending.
ResetToLocal(a) ==
    LET conv == IF a.live = Local THEN << >> ELSE HistoryOf(a, a.live)
        onDevice == [a EXCEPT !.live = Local, !.pending = NoHistory]
    IN  RecordModel(IF conv = << >> THEN onDevice ELSE Restore(onDevice, Local, conv))

SwitchToLocal(a, m) ==
    [ResetToLocal(LoadWeights(a, m)) EXCEPT !.localInference = TRUE]

\* restore_session_model.  `ok` says whether the weights load when they must.
RestoreModel(a, s, ok) ==
    LET m == a.sess[s].model
    IN  IF Provider \/ m = a.model THEN a
        ELSE IF m \in CloudModels
             THEN IF a.signedIn THEN SwitchToCloud(a, m) ELSE a
        ELSE IF ok THEN SwitchToLocal(a, m) ELSE a

InstallAndRestore(a, s, ok) == RestoreModel(Install(a, s), s, ok)

\* open_parked_session
OpenParked(a, s, state, ok) ==
    InstallAndRestore([a EXCEPT !.sess[s] = state], s, ok)

\* activate_session, of a session the process holds
Activate(a, s, ok) ==
    IF a.active = s THEN a ELSE InstallAndRestore(Park(a), s, ok)

\* session_state
NewState(a, d) ==
    [cwd |-> d, conv |-> << >>, remote |-> NoRemote,
     model |-> IF ~a.localInference /\ ~Provider THEN DefaultTier ELSE a.model]

\* start_startup_model_load_if_needed and await_model_ready: tried once.
StartLoad(a, ok) ==
    IF a.weights # "none" THEN a
    ELSE [a EXCEPT !.weights = IF ok THEN "loaded" ELSE "failed"]

\* How a load of weights may go
Loads == IF LoadMayFail THEN BOOLEAN ELSE {TRUE}

-----------------------------------------------------------------------------
(* Locks *)

OnSession(kind) == kind \notin {"new", "logout"}
HasSession(r) == req[r].pc = "session" /\ Head(line[req[r].sid]) = r
HasWorkspace(r) == workspace # << >> /\ Head(workspace) = r

\* The turn PromptRegistration stands for: session/cancel finds it.
Registered(r) == req[r].kind = "prompt" /\ req[r].pc \notin {"idle", "session"}

\* It has sent the prompt, and not ended.
InTurn(r) == req[r].pc \in {"infer", "ask", "resume", "run"}

\* The request is answered, and drops its guards.
Answer(r) ==
    /\ req' = [req EXCEPT ![r] = Idle]
    /\ workspace' = IF HasWorkspace(r) THEN Tail(workspace) ELSE workspace
    /\ line' = IF OnSession(req[r].kind)
               THEN [line EXCEPT ![req[r].sid] = Tail(@)] ELSE line

-----------------------------------------------------------------------------
(* Requests arrive *)

\* The slip of a close that signals nobody before it waits for the session.
SignalledLate(s) == req

\* begin_close signals the running turn when a close or delete is received.
Signalled(s) ==
    [r \in Requests |-> IF Registered(r) /\ req[r].sid = s
                        THEN [req[r] EXCEPT !.cancelled = TRUE] ELSE req[r]]

Submit(r, kind, s) ==
    /\ req[r].pc = "idle"
    /\ OnSession(kind)
    /\ IF kind = "prompt" THEN turns < MaxTurns ELSE others < MaxOthers
    /\ (kind = "close" /\ ~MayRepeatClose) => s \notin closing
    /\ turns' = IF kind = "prompt" THEN turns + 1 ELSE turns
    /\ others' = IF kind = "prompt" THEN others ELSE others + 1
    /\ closing' = IF kind = "close" THEN closing \cup {s} ELSE closing
    /\ req' = [(IF kind = "close" THEN Signalled(s) ELSE req) EXCEPT
                 ![r] = [Idle EXCEPT !.kind = kind, !.sid = s, !.pc = "session",
                                     !.turn = IF kind = "prompt" THEN turns + 1 ELSE 0]]
    /\ line' = [line EXCEPT ![s] = Append(@, r)]
    /\ UNCHANGED <<agent, saved, present, workspace, changes, restarts>>

\* session/new and logout take workspace_lock only.
SubmitGlobal(r, kind) ==
    /\ req[r].pc = "idle"
    /\ ~OnSession(kind)
    /\ others < MaxOthers
    /\ others' = others + 1
    /\ req' = [req EXCEPT ![r] = [Idle EXCEPT !.kind = kind, !.pc = "workspace"]]
    /\ workspace' = Append(workspace, r)
    /\ UNCHANGED <<agent, saved, present, line, closing, turns, changes, restarts>>

\* session/cancel, or $/cancel_request: a prompt that is still queued is told
\* when it has registered, since the turn is polled before the cancellation.
Cancel(r) ==
    /\ Registered(r)
    /\ req' = [req EXCEPT ![r].cancelled = TRUE]
    /\ UNCHANGED <<agent, saved, present, line, workspace, closing, turns, others, changes, restarts>>

\* With the session's lock, everything but a prompt asks for the workspace.
EnterWorkspace(r) ==
    /\ HasSession(r)
    /\ req[r].kind # "prompt"
    /\ req' = [req EXCEPT ![r].pc = "workspace"]
    /\ workspace' = Append(workspace, r)
    /\ UNCHANGED <<agent, saved, present, line, closing, turns, others, changes, restarts>>

-----------------------------------------------------------------------------
(* Handlers that run under the workspace lock from start to end *)

Runs(r, kind) ==
    /\ req[r].pc = "workspace"
    /\ req[r].kind = kind
    /\ HasWorkspace(r)

\* The ids a fresh uuid may stand for: nobody has used them.
UnusedIds == {s \in Sessions : /\ ~Known(agent, s)
                               /\ saved[s] = NoCopy
                               /\ line[s] = << >>}

\* Sessions bounds the ids of a behaviour: with none left to give, the model
\* lets a request for a new one pass without effect.
NoIdLeft == UnusedIds = {} /\ UNCHANGED agent

HandleNew(r) ==
    /\ Runs(r, "new")
    /\ \/ NoIdLeft
       \/ \E s \in UnusedIds, d \in Dirs, ok \in Loads :
            agent' = OpenParked(Park(agent), s, NewState(agent, d), ok)
    /\ Answer(r)
    /\ UNCHANGED <<saved, present, closing, turns, others, changes, restarts>>

\* restore_session, for session/load and session/resume.  The saved copy is
\* the thread; failing that, the one this process holds.
HandleLoad(r) ==
    /\ Runs(r, "load")
    /\ LET s == req[r].sid
           parked == Park(agent)
           copy == saved[s]
           conv == IF copy # NoCopy THEN copy.conv ELSE parked.sess[s].conv
       IN  \/ /\ copy # NoCopy \/ Known(parked, s)
              /\ \E d \in Dirs, ok \in Loads :
                   LET fresh == NewState(agent, d)
                       m == IF copy # NoCopy THEN copy.model ELSE fresh.model
                   IN  agent' = OpenParked(parked, s,
                                  [fresh EXCEPT !.conv = conv, !.model = m], ok)
           \/ /\ copy = NoCopy /\ ~Known(parked, s)
              /\ agent' = parked
    /\ Answer(r)
    /\ UNCHANGED <<saved, present, closing, turns, others, changes, restarts>>

\* The source is parked first, so that its conversation is current.
HandleFork(r) ==
    /\ Runs(r, "fork")
    /\ LET parked == Park(agent)
           s == req[r].sid
       IN  \/ NoIdLeft
           \/ \E n \in UnusedIds, d \in Dirs, ok \in Loads :
             LET fresh == NewState(agent, d)
                 state == IF Known(parked, s)
                          THEN [fresh EXCEPT !.conv = parked.sess[s].conv,
                                             !.model = parked.sess[s].model]
                          ELSE IF saved[s] # NoCopy
                          THEN [fresh EXCEPT !.conv = saved[s].conv,
                                             !.model = saved[s].model]
                          ELSE fresh
             IN  agent' = OpenParked(parked, n, state, ok)
    /\ Answer(r)
    /\ UNCHANGED <<saved, present, closing, turns, others, changes, restarts>>

\* handle_close_session: nothing owns the live conversation any more, so it is
\* cleared.
ClosedAgent(a, s) ==
    LET gone == [a EXCEPT !.sess[s] = NoState]
    IN  IF a.active # s THEN gone
        ELSE Restore([gone EXCEPT !.active = NoSession, !.engine = << >>], a.live, << >>)

\* session/close, and session/delete, which removes the saved copy as well.
HandleClose(r) ==
    /\ Runs(r, "close")
    /\ agent' = ClosedAgent(agent, req[r].sid)
    /\ closing' = closing \ {req[r].sid}
    /\ \E copy \in {saved[req[r].sid], NoCopy} :
         saved' = [saved EXCEPT ![req[r].sid] = copy]
    /\ Answer(r)
    /\ UNCHANGED <<present, turns, others, changes, restarts>>

\* The Model picker: the pick has to be of the kind the Local Inference switch
\* lists, and the weights may not load.
PickModel(a, m, ok) ==
    IF m = a.model THEN RecordModel(a)
    ELSE IF (m \in LocalModels) # a.localInference THEN a
    ELSE IF m \in CloudModels
         THEN IF a.signedIn THEN SwitchToCloud(a, m) ELSE a
    ELSE IF ok THEN SwitchToLocal(a, m) ELSE a

\* session/set_config_option, but for the permission mode.
HandleConfig(r) ==
    /\ Runs(r, "config")
    /\ LET s == req[r].sid
       IN  \/ /\ ~Known(agent, s)
              /\ UNCHANGED agent
           \/ /\ Known(agent, s)
              /\ \E ok, picked \in Loads :
                   LET here == Activate(agent, s, ok)
                   IN  \/ \E m \in Models : agent' = PickModel(here, m, picked)
                       \/ \E on \in BOOLEAN : agent' = [here EXCEPT !.localInference = on]
    /\ Answer(r)
    /\ UNCHANGED <<saved, present, closing, turns, others, changes, restarts>>

\* sign_out and leave_cloud: no session's lock is taken.
LeaveCloud(a) ==
    LET moved == {s \in Sessions : Known(a, s) /\ a.sess[s].model \in CloudModels}
        out == [a EXCEPT !.signedIn = FALSE, !.localInference = TRUE,
                         !.sess = [s \in Sessions |->
                            IF s \in moved THEN [a.sess[s] EXCEPT !.model = a.selected]
                            ELSE a.sess[s]]]
    IN  IF a.model \in CloudModels THEN ResetToLocal([out EXCEPT !.model = a.selected])
        ELSE out

HandleLogout(r) ==
    /\ Runs(r, "logout")
    /\ agent' = LeaveCloud(agent)
    /\ Answer(r)
    /\ UNCHANGED <<saved, present, closing, turns, others, changes, restarts>>

-----------------------------------------------------------------------------
(* A prompt turn *)

\* The slip of a queued prompt that does not look at closing_sessions.
StartPromptAnyway(r) ==
    /\ HasSession(r)
    /\ req[r].kind = "prompt"
    /\ req' = [req EXCEPT ![r].pc = "workspace"]
    /\ workspace' = Append(workspace, r)
    /\ UNCHANGED line
    /\ UNCHANGED <<agent, saved, present, closing, turns, others, changes, restarts>>

\* With the session's lock, a prompt is turned away when its session is being
\* closed; otherwise it registers and asks for the workspace.
StartPrompt(r) ==
    /\ HasSession(r)
    /\ req[r].kind = "prompt"
    /\ \/ /\ req[r].sid \in closing
          /\ Answer(r)
       \/ /\ req[r].sid \notin closing
          /\ req' = [req EXCEPT ![r].pc = "workspace"]
          /\ workspace' = Append(workspace, r)
          /\ UNCHANGED line
    /\ UNCHANGED <<agent, saved, present, closing, turns, others, changes, restarts>>

\* reinstall_for_tools: the session is live and its directory exists.
InPlace(a, s) == Known(a, s) /\ a.sess[s].cwd \in present

\* The slip of going on with whatever is installed.
ReinstallNothing(a, s, ok) == a

Reinstall(a, s, ok) == IF Known(a, s) THEN Activate(a, s, ok) ELSE a

\* What a prompt finds, with its session live: under --acp it loads the weights.
Prepare(a, s, ok, loads) ==
    LET here == Reinstall(a, s, ok)
    IN  IF AutoLoad /\ InPlace(here, s) /\ here.live = Local
        THEN StartLoad(here, loads) ELSE here

Ready(a) == a.live # Local \/ a.weights = "loaded"

\* A prompt that is cancelled, also while its session is put in place, whose
\* session is unknown or has lost its directory, or that finds no model in memory.
RejectPrompt(r) ==
    /\ Runs(r, "prompt")
    /\ \/ /\ req[r].cancelled
          /\ UNCHANGED agent
       \/ /\ ~req[r].cancelled
          /\ \E ok, loads \in Loads :
               /\ agent' = Prepare(agent, req[r].sid, ok, loads)
               /\ \/ agent' # agent
                  \/ ~InPlace(agent', req[r].sid)
                  \/ ~Ready(agent')
    /\ Answer(r)
    /\ UNCHANGED <<saved, present, closing, turns, others, changes, restarts>>

\* Signed out, a thread on a cloud tier goes on with the selected on-device model.
FallBackToLocal(a) ==
    [ResetToLocal([a EXCEPT !.model = a.selected]) EXCEPT !.localInference = TRUE]

\* /load: the selected on-device model comes into memory, once.
LoadCommand(a, ok) ==
    StartLoad(IF a.model \in CloudModels THEN FallBackToLocal(a)
              ELSE [a EXCEPT !.localInference = TRUE], ok)

\* /models N
ModelsCommand(a, m, ok) ==
    IF m \in CloudModels THEN IF a.signedIn THEN SwitchToCloud(a, m) ELSE a
    ELSE IF ok THEN SwitchToLocal(a, m) ELSE a

\* /reload: the backend again, from the credentials, and a load that failed.
ReloadCommand(a, ok) ==
    IF a.model \in CloudModels
    THEN IF a.signedIn THEN SwitchToCloud(a, a.model) ELSE FallBackToLocal(a)
    ELSE LET here == ResetToLocal(a)
         IN  IF a.weights = "failed" THEN StartLoad([here EXCEPT !.weights = "none"], ok)
             ELSE here

\* /clear: the conversation, live, parked and saved.
ClearCommand(a, s) == Seed([a EXCEPT !.sess[s].conv = << >>], << >>)

\* The slash commands that move a conversation or a backend; none of them
\* gives up the workspace.  (/logout is HandleLogout, and /local the switch of
\* HandleConfig.)
RunSlash(r) ==
    /\ Runs(r, "prompt")
    /\ ~req[r].cancelled
    /\ \E ok, loads \in Loads :
         LET s == req[r].sid
             here == Reinstall(agent, s, ok)
         IN  /\ InPlace(here, s)
             /\ \/ /\ "load" \in CommandsSent
                   /\ agent' = LoadCommand(here, loads)
                   /\ UNCHANGED saved
                \/ /\ "models" \in CommandsSent
                   /\ \E m \in Models : agent' = ModelsCommand(here, m, loads)
                   /\ UNCHANGED saved
                \/ /\ "reload" \in CommandsSent
                   /\ agent' = ReloadCommand(here, loads)
                   /\ UNCHANGED saved
                \/ /\ "clear" \in CommandsSent
                   /\ agent' = ClearCommand(here, s)
                   /\ saved' = [saved EXCEPT ![s] = NoCopy]
    /\ Answer(r)
    /\ UNCHANGED <<present, closing, turns, others, changes, restarts>>

\* The slip of a turn that keeps the workspace while it waits.
GivesUpNothing(b) == FALSE

\* WorkspaceHold::release: a turn on the device keeps the workspace throughout.
GivesUp(b) == b # Local

\* The turn begins to wait, for its endpoint or for the user.
Wait(r, state) ==
    LET releases == GivesUp(state.backend)
    IN  /\ req' = [req EXCEPT ![r] = [state EXCEPT !.outcome = "none", !.released = releases]]
        /\ workspace' = IF releases THEN Tail(workspace) ELSE workspace

\* The turn takes the live backend for its own, and sends the prompt.
AskModel(r) ==
    /\ Runs(r, "prompt")
    /\ ~req[r].cancelled
    /\ \E ok, loads \in Loads :
         LET here == Prepare(agent, req[r].sid, ok, loads)
             b == here.live
         IN  /\ InPlace(here, req[r].sid)
             /\ Ready(here)
             /\ agent' = Push(here, b, req[r].turn)
             /\ Wait(r, [req[r] EXCEPT !.pc = "infer", !.backend = b,
                           !.before = IF b = Local THEN << >> ELSE HistoryOf(here, b)])
    /\ UNCHANGED <<saved, present, line, closing, turns, others, changes, restarts>>

\* A wait is over; the turn asks for the workspace again if it gave it up.
Return(r, outcome) ==
    /\ req' = [req EXCEPT ![r].pc = "resume", ![r].outcome = outcome]
    /\ workspace' = IF req[r].released THEN Append(workspace, r) ELSE workspace
    /\ UNCHANGED <<agent, saved, present, line, closing, turns, others, changes, restarts>>

\* The endpoint, or the engine, answers.  At the cap no calls are accepted.
ReplyArrives(r, outcome) ==
    /\ req[r].pc = "infer"
    /\ outcome \in {"tools", "text", "error", "refused"}
    /\ outcome = "tools" => req[r].round < MaxToolRounds
    /\ outcome = "refused" => req[r].backend # Local /\ req[r].round < MaxToolRounds
    /\ Return(r, outcome)

\* The user answers a permission request; the client may answer it "cancelled".
UserAnswers(r, outcome) ==
    /\ req[r].pc = "ask"
    /\ outcome \in {"approved", "denied", "cancelled"}
    /\ Return(r, outcome)

\* Either wait ends when the turn is cancelled.
CancelSeen(r) ==
    /\ req[r].pc \in {"infer", "ask"}
    /\ req[r].cancelled
    /\ Return(r, "cancelled")

\* The turn goes on to the next tool call of its round: one it may run, one it
\* has to ask about, or none, and the results are sent.
GoOn(r, round) ==
    \/ /\ req' = [req EXCEPT ![r].pc = "run", ![r].outcome = "none",
                             ![r].round = round, ![r].released = FALSE]
       /\ UNCHANGED workspace
    \/ \E pc \in {"ask", "infer"} : Wait(r, [req[r] EXCEPT !.pc = pc, !.round = round])

\* persist_session, with the history of the turn's backend
SavedCopy(a, r) == [conv |-> HistoryOf(a, req[r].backend), model |-> a.sess[req[r].sid].model]

\* The slip of trusting an answer without a second look at the cancellation.
InterruptedByInstallOnly(r, a) == req[r].released /\ ~InPlace(a, req[r].sid)

\* A turn that could not put its session back is cancelled.
Interrupted(r, a) == req[r].cancelled \/ (req[r].released /\ ~InPlace(a, req[r].sid))

\* forget_trailing_user_message
Forget(a, b) ==
    LET h == HistoryOf(a, b)
    IN  IF h = << >> THEN a ELSE Restore(a, b, SubSeq(h, 1, Len(h) - 1))

\* resume_workspace, and what follows it, in each of its outcomes.
Resume(r) ==
    /\ req[r].pc = "resume"
    /\ HasWorkspace(r)
    /\ \E ok \in Loads :
         LET s == req[r].sid
             b == req[r].backend
             here == IF req[r].released THEN Reinstall(agent, s, ok) ELSE agent
             stop == Interrupted(r, here)
         IN  \/ /\ req[r].outcome = "cancelled"
                /\ agent' = IF req[r].round = 0 THEN Forget(here, b) ELSE here
                /\ Answer(r) /\ UNCHANGED saved
             \/ /\ req[r].outcome = "error"
                /\ agent' = here
                /\ saved' = IF req[r].round = 0
                            THEN [saved EXCEPT ![s] = SavedCopy(here, r)] ELSE saved
                /\ Answer(r)
             \/ /\ req[r].outcome \in {"text", "refused"}
                /\ agent' = IF req[r].outcome = "refused"
                            THEN Restore(here, b, req[r].before) ELSE here
                /\ saved' = [saved EXCEPT ![s] = SavedCopy(agent', r)]
                /\ Answer(r)
             \/ /\ req[r].outcome \in {"tools", "approved", "denied"}
                /\ stop
                /\ agent' = here
                /\ Answer(r) /\ UNCHANGED saved
             \/ /\ req[r].outcome = "tools"
                /\ ~stop
                /\ agent' = here
                /\ GoOn(r, req[r].round + 1) /\ UNCHANGED <<saved, line>>
             \/ /\ req[r].outcome = "approved"
                /\ ~stop
                /\ agent' = here
                /\ req' = [req EXCEPT ![r].pc = "run", ![r].outcome = "none",
                                      ![r].released = FALSE]
                /\ UNCHANGED <<saved, line, workspace>>
             \/ /\ req[r].outcome = "denied"
                /\ ~stop
                /\ agent' = here
                /\ GoOn(r, req[r].round) /\ UNCHANGED <<saved, line>>
    /\ UNCHANGED <<present, closing, turns, others, changes, restarts>>

\* A tool call returns, with the workspace still held.
ToolReturns(r) ==
    /\ req[r].pc = "run"
    /\ \/ req[r].cancelled /\ Answer(r)
       \/ ~req[r].cancelled /\ GoOn(r, req[r].round) /\ UNCHANGED line
    /\ UNCHANGED <<agent, saved, present, closing, turns, others, changes, restarts>>

-----------------------------------------------------------------------------
(* The environment, and the specification *)

\* Somebody removes a project, or puts it back.
ChangeDir(d) ==
    /\ changes < MaxDirChanges
    /\ changes' = changes + 1
    /\ present' = (present \ {d}) \cup ({d} \ present)
    /\ UNCHANGED <<agent, saved, line, workspace, closing, req, turns, others, restarts>>

\* The process ends, at any point, and is started again: only the store, the
\* settings and the credentials are left.
Restart ==
    /\ restarts < MaxRestarts
    /\ restarts' = restarts + 1
    /\ agent' = StartState(agent.selected, agent.localInference, agent.signedIn)
    /\ line' = [s \in Sessions |-> << >>]
    /\ workspace' = << >>
    /\ closing' = {}
    /\ req' = [r \in Requests |-> Idle]
    /\ UNCHANGED <<saved, present, turns, others, changes>>

\* The client has nothing more to ask for; a deadlock is any other halt.
Rest == (\A r \in Requests : req[r].pc = "idle") /\ UNCHANGED vars

Arrive(r) ==
    \/ \E kind \in KindsSent, s \in Sessions : Submit(r, kind, s)
    \/ \E kind \in KindsSent : SubmitGlobal(r, kind)
    \/ Cancel(r)

Handle(r) == \/ HandleNew(r) \/ HandleLoad(r) \/ HandleFork(r) \/ HandleClose(r)
             \/ HandleConfig(r) \/ HandleLogout(r)

TakeTurn(r) == RejectPrompt(r) \/ RunSlash(r) \/ AskModel(r)

Answered(r) == \/ \E o \in Outcomes : ReplyArrives(r, o)
               \/ \E o \in Outcomes : UserAnswers(r, o)

Next ==
    \/ \E r \in Requests :
         \/ Arrive(r)
         \/ EnterWorkspace(r) \/ StartPrompt(r)
         \/ Handle(r)
         \/ TakeTurn(r)
         \/ Answered(r)
         \/ CancelSeen(r) \/ Resume(r) \/ ToolReturns(r)
    \/ \E d \in Dirs : ChangeDir(d)
    \/ Restart
    \/ Rest

Spec == Init /\ [][Next]_vars

\* The executor polls every task that can go on, and a tool call returns.
\* Neither the endpoint nor the user owes an answer.
Fairness ==
    \A r \in Requests :
        /\ WF_vars(EnterWorkspace(r) \/ StartPrompt(r))
        /\ WF_vars(Handle(r))
        /\ WF_vars(TakeTurn(r))
        /\ WF_vars(CancelSeen(r))
        /\ WF_vars(Resume(r))
        /\ WF_vars(ToolReturns(r))

FairSpec == Spec /\ Fairness

-----------------------------------------------------------------------------
(* Properties *)

\* Where the conversation of a session is: in the live backend, in the HTTP
\* backend it is parked with, or in its parked copy.
ThreadOf(s) ==
    IF ~Known(agent, s) THEN NoState
    ELSE IF agent.active = s THEN HistoryOf(agent, agent.live)
    ELSE LET state == agent.sess[s]
         IN  IF state.remote # NoRemote /\ state.remote.model = state.model
             THEN agent.hist[state.remote.backend] ELSE state.conv

\* The turn of a session that has sent its prompt and has not ended.
RunningOn(s) == {req[r].turn : r \in {x \in Requests : InTurn(x) /\ req[x].sid = s}}

Threads == INSTANCE SessionThreads WITH
    Closed <- NoState,
    NoTurn <- 0,
    thread <- [s \in Sessions |-> ThreadOf(s)],
    running <- [s \in Sessions |-> IF RunningOn(s) = {} THEN 0
                                   ELSE CHOOSE t \in RunningOn(s) : TRUE],
    saved <- [s \in Sessions |-> IF saved[s] = NoCopy THEN NoCopy ELSE saved[s].conv]

\* Swapping sessions is invisible to the client: whatever is parked, installed,
\* moved to another model or saved meanwhile, a thread changes only by what is
\* done on its session, and nothing is lost from it, added to it or put in it
\* twice (park_active_session, install_session, main.rs 2520-2710).
KeepsThreads == Threads!Spec

\* A tool runs with its own session live, and in its session's directory, even
\* when other sessions were installed while its turn waited (reinstall_for_tools,
\* main.rs 2628-2650).
ToolsRunInTheirSession ==
    \A r \in Requests : req[r].pc = "run" =>
        /\ agent.active = req[r].sid
        /\ agent.procDir = agent.sess[req[r].sid].cwd

\* The backend a turn was given stays its session's until the turn ends: it is
\* where the session's next prompt goes, and no other session's does (the
\* comment at main.rs 3530, "so a mid-turn model switch doesn't split the
\* conversation across backends").
TurnKeepsItsBackend ==
    \A r \in Requests : InTurn(r) =>
        LET s == req[r].sid
            b == req[r].backend
        IN  /\ Known(agent, s)
            /\ IF agent.active = s THEN agent.live = b
               ELSE /\ agent.sess[s].remote # NoRemote
                    /\ agent.sess[s].remote.backend = b
                    /\ agent.sess[s].remote.model = agent.sess[s].model

\* A provider override serves every session, whatever the model picker says: the
\* live backend stays an endpoint (main.rs 2724-2725, "Explicit OpenAI-compatible
\* provider overrides are process-wide and intentionally take precedence over the
\* editor's model picker").
OverrideServesEverySession == Provider => agent.live # Local

\* Two sessions never hold one HTTP backend, parked or live.
BackendsAreOwned ==
    \A s, o \in Sessions :
        (Known(agent, s) /\ agent.sess[s].remote # NoRemote /\ agent.active # s) =>
            /\ agent.sess[s].remote.backend # agent.live
            /\ (o # s /\ Known(agent, o) /\ agent.sess[o].remote # NoRemote
                /\ agent.active # o)
                   => agent.sess[s].remote.backend # agent.sess[o].remote.backend

\* Once a turn is cancelled it starts no tool: an approval that crosses the
\* cancellation, or a turn that waits for the workspace, does not get through
\* (main.rs 3932-3938).
CancelledTurnStartsNoTool ==
    [][\A r \in Requests :
         (req[r].cancelled /\ req'[r].pc = "run") => req[r].pc = "run"]_vars

\* A prompt queued ahead of a close does not get to the model once the close
\* has been received (begin_close, main.rs 3155-3159).
QueuedPromptIsTurnedAway ==
    [][\A r \in Requests :
         (req[r].pc \in {"session", "workspace"} /\ req'[r].pc = "infer") =>
            ~ \E c \in Requests : /\ req[c].kind = "close" /\ req[c].sid = req[r].sid
                                  /\ req[c].pc # "idle"]_vars

\* A close is answered although the client leaves the turn's permission request
\* open and the endpoint never replies: closing does not wait for what it
\* cancels (main.rs 3880-3895).
CloseIsAnswered ==
    \A r \in Requests : (req[r].kind = "close" /\ req[r].pc # "idle") ~> (req[r].pc = "idle")

\* A request that needs only the workspace does not wait for another session's
\* endpoint or user.
NewSessionIsAnswered ==
    \A r \in Requests : (req[r].kind = "new" /\ req[r].pc # "idle") ~> (req[r].pc = "idle")
=============================================================================
