---------------------------- MODULE ModelLoading ----------------------------
(***************************************************************************)
(* On-device models: /load, /models, the model picker and /reload, and the *)
(* threads that load the weights (crates/cli/src/main.rs, setup.rs).       *)
(*                                                                         *)
(* Requests come one at a time: the workspace lock sees to that.  A loader *)
(* thread is nobody's: it goes on when the turn that started it is         *)
(* cancelled, and the one of /reload has no waiter at all.  The engine     *)
(* belongs to the inference library: loading weights forgets the           *)
(* conversation, and a load that fails leaves the engine as it was.        *)
(***************************************************************************)
EXTENDS Naturals, Sequences, FiniteSets

CONSTANTS
    Models,         \* the on-device models
    Downloaded,     \* those in the cache at the start, completely
    CacheOrder,     \* a sequence of Models: the order of discover_local_models
    PlatformModel,  \* GgufModelConfig::qwen25_3b
    Cloud,          \* a cloud tier, as a selection
    NoModel,
    MaxLoads,       \* loader threads
    MaxChats,       \* prompts answered on-device
    MaxSwitches     \* selections of the cloud and toggles of local inference

ASSUME LoadingAssumption ==
    /\ Downloaded \subseteq Models /\ PlatformModel \in Models
    /\ Cloud \notin Models /\ NoModel \notin Models \cup {Cloud}
    /\ CacheOrder \in Seq(Models)

VARIABLES
    load,       \* startup_model_load_started, model_ready, model_load_error
    shown,      \* current_model
    selection,  \* selected-model.txt
    cache,      \* ModelCacheHealth of each model
    localMode,  \* the setting local_inference
    weights,    \* what the engine has in memory
    chat,       \* turns in the engine's history
    loaders,    \* the loader threads that run: [kind, model, id]
    command,    \* the request under way, see CommandType
    said,       \* history variable: turns of the conversation
    strayed,    \* history variable: see Stray
    budget      \* [loads, chats, switches] so far

loadingVars == <<load, shown, selection, cache, localMode, weights, chat, loaders, command,
                 said, strayed, budget>>

CommandType ==
    [ name : {"none", "load", "models", "pick"},
      model : Models \cup {Cloud, NoModel},
      pc : {"idle", "start", "ready", "switch", "loaded", "failed"},
      thread : 0..MaxLoads,
      carried : 0..MaxChats ]

NoCommand == [name |-> "none", model |-> NoModel, pc |-> "idle", thread |-> 0, carried |-> 0]

\* The model to start with: the one selected last if it is complete, else the
\* first complete one, else none.
Complete(m) == cache[m] = "complete"

StartupSelection ==
    LET usable == {i \in DOMAIN CacheOrder : Complete(CacheOrder[i])}
    IN  IF selection \in Models /\ Complete(selection) THEN selection
        ELSE IF usable = {} THEN NoModel
        ELSE CacheOrder[CHOOSE i \in usable : \A j \in usable : i <= j]

DefaultModel == IF StartupSelection = NoModel THEN PlatformModel ELSE StartupSelection

\* Asking for the default writes it down, unless there is none.
SelectionRead == IF StartupSelection = NoModel THEN selection ELSE StartupSelection

LoadingInit ==
    /\ load = [started |-> FALSE, ready |-> TRUE, failed |-> FALSE]
    /\ cache = [m \in Models |-> IF m \in Downloaded THEN "complete" ELSE "absent"]
    /\ selection \in Downloaded \cup {NoModel}
    /\ shown = DefaultModel
    /\ localMode = TRUE
    /\ weights = NoModel
    /\ chat = 0
    /\ loaders = {}
    /\ command = NoCommand
    /\ said = 0
    /\ strayed = FALSE
    /\ budget = [loads |-> 0, chats |-> 0, switches |-> 0]

-----------------------------------------------------------------------------
AskForModel ==
    /\ command = NoCommand /\ budget.loads < MaxLoads
    /\ \E name \in {"load", "models", "pick"}, m \in Models \cup {Cloud, NoModel} :
         /\ (name = "load") <=> (m = NoModel)
         /\ m = Cloud => budget.switches < MaxSwitches
         /\ command' = [NoCommand EXCEPT !.name = name, !.model = m, !.pc = "start"]
         /\ budget' = [budget EXCEPT !.switches = IF m = Cloud THEN @ + 1 ELSE @]
    /\ UNCHANGED <<load, shown, selection, cache, localMode, weights, chat, loaders, said, strayed>>

Spawn(kind, m) ==
    /\ budget.loads < MaxLoads
    /\ budget' = [budget EXCEPT !.loads = @ + 1]
    /\ loaders' = loaders \cup {[kind |-> kind, model |-> m, id |-> budget.loads + 1]}

\* What is shown and what is loaded part when a load starts next to another,
\* when a switch is dropped in the middle, and when /load finds that some
\* load was started before and takes the weights for those of its default.
Stray(reason) == strayed' = (strayed \/ reason)

\* Mutant: the flags are reset before the look at the first one.
StartLoadResetsFirst(m, started) ==
    IF started
    THEN UNCHANGED <<loaders, budget>> /\ load' = [started |-> TRUE, ready |-> FALSE, failed |-> FALSE]
    ELSE /\ Spawn("startup", m)
         /\ load' = [started |-> TRUE, ready |-> FALSE, failed |-> FALSE]

\* start_startup_model_load_if_needed, for model m
StartLoad(m, started) ==
    IF started
    THEN UNCHANGED <<loaders, budget>> /\ load' = [load EXCEPT !.started = TRUE]
    ELSE /\ Spawn("startup", m)
         /\ load' = [started |-> TRUE, ready |-> FALSE, failed |-> FALSE]

\* /load: the cloud is left for the default model, the load starts unless one
\* was started before, and the command waits.
LoadCommand ==
    /\ command.name = "load" /\ command.pc = "start"
    /\ LET m == IF shown = Cloud THEN DefaultModel ELSE shown
       IN  /\ shown' = m
           /\ StartLoad(m, load.started)
           /\ Stray(IF load.started THEN weights \notin {m, NoModel} ELSE loaders # {})
    /\ selection' = IF shown = Cloud THEN SelectionRead ELSE selection
    /\ localMode' = TRUE
    /\ command' = [command EXCEPT !.pc = "ready"]
    /\ UNCHANGED <<cache, weights, chat, said>>

\* await_model_ready: it is polled once a second.
ModelReady ==
    /\ command.name = "load" /\ command.pc = "ready" /\ load.ready
    /\ command' = NoCommand
    /\ UNCHANGED <<load, shown, selection, cache, localMode, weights, chat, loaders, said,
                   strayed, budget>>

\* Mutant: the conversation is not kept aside.
StartSwitchForgets(m) ==
    IF cache[m] = "incomplete"
    THEN command' = NoCommand /\ UNCHANGED <<loaders, budget, strayed>>
    ELSE /\ Spawn("switch", m)
         /\ Stray(loaders # {})
         /\ command' = [command EXCEPT !.pc = "switch", !.thread = budget.loads + 1]

\* switch_model_by_id up to its wait: the conversation is kept aside and a
\* thread loads the model.  A model whose download broke off is refused.
StartSwitch(m) ==
    IF cache[m] = "incomplete"
    THEN command' = NoCommand /\ UNCHANGED <<loaders, budget, strayed>>
    ELSE /\ Spawn("switch", m)
         /\ Stray(loaders # {})
         /\ command' = [command EXCEPT !.pc = "switch", !.thread = budget.loads + 1,
                                       !.carried = chat]

ModelsCommand ==
    /\ command.name = "models" /\ command.pc = "start" /\ command.model \in Models
    /\ StartSwitch(command.model)
    /\ UNCHANGED <<load, shown, selection, cache, localMode, weights, chat, said>>

\* The picker waits for a load that is under way.  It is a no-op for the model
\* that is shown, and refuses the group that local inference has switched off.
Allowed(m) == m # shown /\ ((m = Cloud) <=> ~localMode)

PickModelOnDevice ==
    /\ command.name = "pick" /\ command.pc = "start" /\ command.model \in Models
    /\ load.started => load.ready
    /\ IF Allowed(command.model)
       THEN StartSwitch(command.model)
       ELSE command' = NoCommand /\ UNCHANGED <<loaders, budget, strayed>>
    /\ UNCHANGED <<load, shown, selection, cache, localMode, weights, chat, said>>

\* A cloud tier, for a user who is signed in.
SwitchToCloudTier ==
    /\ command.pc = "start" /\ command.model = Cloud
    /\ command.name = "pick" => (load.started => load.ready)
    /\ IF command.name = "models" \/ Allowed(Cloud)
       THEN shown' = Cloud /\ localMode' = FALSE
       ELSE UNCHANGED <<shown, localMode>>
    /\ command' = NoCommand
    /\ UNCHANGED <<load, selection, cache, weights, chat, loaders, said, strayed, budget>>

\* The weights are in: the model becomes the shown and the selected one, and
\* the conversation is replayed behind what the load left in the engine.
SwitchDone ==
    /\ command.pc = "loaded"
    /\ load' = [started |-> TRUE, ready |-> TRUE, failed |-> FALSE]
    /\ selection' = command.model
    /\ shown' = command.model
    /\ chat' = chat + command.carried
    /\ localMode' = TRUE
    /\ command' = NoCommand
    /\ UNCHANGED <<cache, weights, loaders, said, strayed, budget>>

SwitchFailed ==
    /\ command.pc = "failed"
    /\ command' = NoCommand
    /\ UNCHANGED <<load, shown, selection, cache, localMode, weights, chat, loaders, said,
                   strayed, budget>>

\* session/cancel drops a slash command where it waits.  A pick is no turn and
\* nothing cancels it.
CancelCommand ==
    /\ command.name \in {"load", "models"} /\ command.pc \in {"ready", "switch", "loaded"}
    /\ Stray(command.pc # "ready")
    /\ command' = NoCommand
    /\ UNCHANGED <<load, shown, selection, cache, localMode, weights, chat, loaders, said, budget>>

\* /reload on-device: a startup load that failed is tried again, and nobody
\* waits for it.
Reload ==
    /\ command = NoCommand /\ shown # Cloud /\ load.failed
    /\ StartLoad(shown, FALSE)
    /\ Stray(loaders # {})
    /\ UNCHANGED <<shown, selection, cache, localMode, weights, chat, command, said>>

\* /local
ToggleLocal ==
    /\ command = NoCommand /\ budget.switches < MaxSwitches
    /\ localMode' = ~localMode
    /\ budget' = [budget EXCEPT !.switches = @ + 1]
    /\ UNCHANGED <<load, shown, selection, cache, weights, chat, loaders, command, said, strayed>>

\* A prompt to the on-device model.
PromptOnDevice ==
    /\ command = NoCommand /\ shown # Cloud /\ weights # NoModel /\ budget.chats < MaxChats
    /\ chat' = chat + 1
    /\ said' = said + 1
    /\ budget' = [budget EXCEPT !.chats = @ + 1]
    /\ UNCHANGED <<load, shown, selection, cache, localMode, weights, loaders, command, strayed>>

-----------------------------------------------------------------------------
(* The loader threads *)

\* Mutant: the waiting command does not look at the result.
PublishAnyResult(t, ok) ==
    IF t.kind = "startup"
    THEN load' = [load EXCEPT !.failed = ~ok, !.ready = TRUE] /\ UNCHANGED command
    ELSE /\ command' = IF command.thread = t.id THEN [command EXCEPT !.pc = "loaded"] ELSE command
         /\ UNCHANGED load

\* A startup load publishes its result in the flags, a switch sends it to the
\* command that waits, if it still does.
Publish(t, ok) ==
    IF t.kind = "startup"
    THEN load' = [load EXCEPT !.failed = ~ok, !.ready = TRUE] /\ UNCHANGED command
    ELSE /\ command' = IF command.thread = t.id
                       THEN [command EXCEPT !.pc = IF ok THEN "loaded" ELSE "failed"]
                       ELSE command
         /\ UNCHANGED load

LoadSucceeds ==
    \E t \in loaders :
        /\ loaders' = loaders \ {t}
        /\ cache' = [cache EXCEPT ![t.model] = "complete"]
        /\ weights' = t.model
        /\ chat' = 0
        /\ Publish(t, TRUE)
        /\ UNCHANGED <<shown, selection, localMode, said, strayed, budget>>

\* The download breaks off, or the weights do not fit.
LoadFails ==
    \E t \in loaders, kept \in BOOLEAN :
        /\ loaders' = loaders \ {t}
        /\ cache' = IF cache[t.model] = "absent" /\ kept
                    THEN [cache EXCEPT ![t.model] = "incomplete"] ELSE cache
        /\ Publish(t, FALSE)
        /\ UNCHANGED <<shown, selection, localMode, weights, chat, said, strayed, budget>>

LoaderThread == LoadSucceeds \/ LoadFails

LoadingCommand == \/ LoadCommand \/ ModelReady \/ ModelsCommand \/ PickModelOnDevice
                  \/ SwitchToCloudTier \/ SwitchDone \/ SwitchFailed

LoadingClient == AskForModel \/ CancelCommand \/ Reload \/ ToggleLocal \/ PromptOnDevice

LoadingNext == LoaderThread \/ LoadingCommand \/ LoadingClient

\* A load ends, and the executor polls the command.
LoadingFairness == WF_loadingVars(LoaderThread) /\ WF_loadingVars(LoadingCommand)

LoadingSpec == LoadingInit /\ [][LoadingNext]_loadingVars /\ LoadingFairness

-----------------------------------------------------------------------------
(* Properties *)

\* Between commands the model the client shows is the one in memory, whatever
\* loads failed or were cancelled, unless the two were let go their own ways
\* (see Stray).
ShownIsLoaded ==
    command = NoCommand /\ ~strayed /\ weights # NoModel /\ shown # Cloud => weights = shown

\* Loading weights forgets the conversation, and no command loses a turn of it.
ConversationKept == command = NoCommand /\ ~strayed => chat = said

\* Every command that waits for weights ends, though the load it waits for was
\* started by another one, cancelled since, or failed.
CommandsEnd == command # NoCommand ~> command = NoCommand
=============================================================================
