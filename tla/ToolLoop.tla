------------------------------ MODULE ToolLoop ------------------------------
(***************************************************************************)
(* The tool loops beside the server's: the chat screen's                   *)
(* (run_inference_task in crates/cli/src/chat.rs), the one of `sigit run`  *)
(* (run_prompt in headless.rs) and a subagent's (run_subagent in           *)
(* tools.rs).  Each sends a prompt, runs the calls of the reply and sends  *)
(* their results, for LoopCap rounds at the most.                          *)
(*                                                                         *)
(* The chat screen is an event loop beside its task.  Ctrl+C only drops    *)
(* the channel the task reports to: the task finds it closed at its next   *)
(* check, and until then goes on next to whatever the user does.           *)
(*                                                                         *)
(* Whether a call runs, is refused or is put to the user is open here;     *)
(* Permissions says which.  A subagent never asks, nor does `sigit run`.   *)
(***************************************************************************)
EXTENDS Conversation

CONSTANTS
    LoopKinds,      \* of "chat", "headless", "subagent"
    MaxPrompts,     \* prompts of the chat screen
    LoopCap,        \* MAX_TOOL_ROUNDS, --max-tool-rounds, SUBAGENT_MAX_TOOL_ROUNDS
    CallsPerReply,  \* calls a reply may make
    MaxCommands     \* /clear, /compact, /resume, /models and /load

ASSUME LoopAssumption ==
    /\ LoopKinds \subseteq {"chat", "headless", "subagent"}
    /\ {MaxPrompts, LoopCap, CallsPerReply} \subseteq Nat \ {0}
    /\ MaxCommands \in Nat

Prompts == 1..MaxPrompts

\* The backends a process may use: LocalBackend on the engine, and the
\* OpenAI-compatible ones it makes.
Engine == 0
Endpoints == 1..(MaxCommands + 1)

VARIABLES
    loop,       \* which of LoopKinds runs
    threads,    \* each backend's history
    backend,    \* App::backend, or the one the run has
    jobs,       \* one task per prompt, see Idle
    screen,     \* the task whose updates the chat screen listens to, or 0
    ui,         \* the chat screen and the engine, see NoUi
    saved       \* the stored session

loopVars == <<loop, threads, backend, jobs, screen, ui, saved>>

\* Where a task is.
\*   request  an inference request is out: "prompt", "results" or "wrapup"
\*   round    the reply is in
\*   compact  a summary of `before` is being written
\*   calls    about to take call `at` of `asked`
\*   ask      the user is asked about it
\*   run      it runs
Idle == [pc |-> "idle", what |-> "prompt", open |-> TRUE, on |-> Engine, round |-> 0,
         asked |-> 0, at |-> 1, silent |-> FALSE, before |-> << >>]

Thread(t) == threads[jobs[t].on]
SetThread(t, h) == threads' = [threads EXCEPT ![jobs[t].on] = h]

\* What a backend reports of its history, makes of a history it is given, and
\* shrinks its own to.
Reported(b) == IF b = Engine THEN EngineSnapshot(threads[b]) ELSE threads[b]
Restored(b, h) == IF b = Engine THEN FlattenForEngine(h) ELSE h
Compacted(b, h, summarized) ==
    IF b = Engine THEN CompactEngine(h, summarized) ELSE CompactHistory(h, summarized)

At(t, pc) == jobs[t].pc = pc
Goes(t, pc) == jobs' = [jobs EXCEPT ![t].pc = pc]
Over(t) == jobs' = [jobs EXCEPT ![t] = [Idle EXCEPT !.pc = "over"]]

\* The endpoints made and the commands given so far; switching_model; whether
\* the engine has a model.  History variables: the user did something while a
\* cancelled task was at work; a compaction dropped the reply whose calls run.
NoUi == [made |-> 1, commands |-> 0, loading |-> FALSE, loaded |-> FALSE,
         overlapped |-> FALSE, dropped |-> FALSE]

Fresh == <<System("system")>>

\* A transcript saved with a call nobody answered, and the one a resumed run
\* starts from.
Interrupted == Fresh \o <<Prompt(0), Assistant("silent", 0, <<<<0, 1, 1>>>>)>>
Resumed == AdoptCarryover(Fresh, CarryoverHistory(Interrupted))

LoopInit ==
    /\ loop \in LoopKinds
    /\ \E start \in (IF loop = "headless" THEN {Fresh, Resumed} ELSE {Fresh}) :
         threads = [b \in Endpoints \cup {Engine} |-> start]
    /\ backend = 1
    /\ jobs = [t \in Prompts |-> Idle]
    /\ screen = 0
    /\ ui = NoUi
    /\ saved = << >>

Working == {t \in Prompts : jobs[t].pc \notin {"idle", "over"}}

-----------------------------------------------------------------------------
(* The user: prompts, Ctrl+C, answers *)

\* The screen takes a prompt while it listens to no task, for a backend that
\* can answer.
Submit(t) ==
    /\ At(t, "idle") /\ screen = 0 /\ ~ui.loading
    /\ backend = Engine => ui.loaded
    /\ \A s \in 1..(t - 1) : ~At(s, "idle")
    /\ loop # "chat" => t = 1
    /\ jobs' = [jobs EXCEPT ![t] = [Idle EXCEPT !.pc = "request", !.on = backend]]
    /\ threads' = [threads EXCEPT ![backend] = Append(@, Prompt(t))]
    /\ screen' = t
    /\ ui' = [ui EXCEPT !.overlapped = @ \/ Working # {}]
    /\ UNCHANGED <<loop, backend, saved>>

\* stop_thinking: the receiver goes, and with it a question that is open.
PressCancel ==
    /\ loop = "chat" /\ screen # 0
    /\ jobs' = [jobs EXCEPT ![screen].open = FALSE]
    /\ screen' = 0
    /\ UNCHANGED <<loop, threads, backend, ui, saved>>

-----------------------------------------------------------------------------
(* The task *)

ScreenAfter(t) == screen' = IF screen = t THEN 0 ELSE screen

\* What headless::run and the chat screen's task save when they end; a
\* subagent's conversation is dropped.
Saves(t) == saved' = IF loop = "subagent" THEN saved ELSE Reported(jobs[t].on)

\* The reply comes.  Calls are suppressed in a reply that may make none; the
\* wrap-up offers no tools but does not forbid calls.  An empty reply matters
\* to `sigit run` only.
MayCall(t) == ~(jobs[t].what = "results" /\ jobs[t].round >= LoopCap)

ReplyArrives(t) ==
    /\ At(t, "request")
    /\ \E n \in 0..CallsPerReply, silent \in BOOLEAN :
         LET asked == IF MayCall(t) THEN n ELSE 0
             ids == [i \in 1..asked |-> <<t, jobs[t].round + 1, i>>]
         IN  /\ silent = (n > 0) \/ (silent /\ loop = "headless")
             /\ SetThread(t, Append(Thread(t),
                    Assistant(IF silent THEN "silent" ELSE "text", t, ids)))
             /\ jobs' = [jobs EXCEPT ![t].pc = IF jobs[t].what = "wrapup" THEN "end" ELSE "round",
                                       ![t].asked = asked, ![t].at = 1, ![t].silent = silent]
    /\ UNCHANGED <<loop, backend, screen, ui, saved>>

\* The request fails.  The run ends; `sigit run` saves what it has, and shrugs
\* if it was the wrap-up.
RequestFails(t) ==
    /\ At(t, "request")
    /\ Over(t)
    /\ ScreenAfter(t)
    /\ IF loop = "headless" THEN Saves(t) ELSE UNCHANGED saved
    /\ UNCHANGED <<loop, threads, backend, ui>>

AnotherRound(t) == jobs[t].asked > 0 /\ jobs[t].round < LoopCap

\* A subagent's conversation is never compacted.
TakeRound(t) ==
    /\ At(t, "round") /\ AnotherRound(t)
    /\ LET full == loop # "subagent" /\ OverBudget(Reported(jobs[t].on))
       IN  jobs' = [jobs EXCEPT ![t].round = @ + 1,
                                  ![t].pc = IF full THEN "compact" ELSE "calls",
                                  ![t].before = IF full THEN Thread(t) ELSE << >>]
    /\ UNCHANGED <<loop, threads, backend, screen, ui, saved>>

\* The summary is of the history read before the request for it, and replaces
\* whatever is there now.  If the conversation cannot be made to fit, the loop
\* goes on all the same.
SummaryArrives(t) ==
    /\ At(t, "compact")
    /\ \E summarized \in BOOLEAN :
         LET rebuilt == Compacted(jobs[t].on, jobs[t].before, summarized)
             after == IF rebuilt = NoRebuild THEN Thread(t) ELSE rebuilt
         IN  /\ SetThread(t, after)
             /\ ui' = [ui EXCEPT !.dropped = @ \/ (jobs[t].on # Engine /\ Last(after) # Last(Thread(t)))]
    /\ jobs' = [jobs EXCEPT ![t].pc = "calls", ![t].before = << >>]
    /\ UNCHANGED <<loop, backend, screen, saved>>

\* The ids of the round's calls: those of the newest message that makes any.
Asked(t) == [i \in 1..jobs[t].asked |-> <<t, jobs[t].round, i>>]

\* Mutant: only the calls that ran are answered.
AbandonReached(t) ==
    /\ SetThread(t, RecordCancelledToolResults(Thread(t), t, SubSeq(Asked(t), 1, jobs[t].at - 1)))
    /\ Over(t)

\* abandon_round: the calls the cancelled round never reached are answered too.
\* The engine cannot be told.
AbandonRound(t) ==
    /\ IF jobs[t].on = Engine THEN UNCHANGED threads
       ELSE SetThread(t, RecordCancelledToolResults(Thread(t), t, Asked(t)))
    /\ Over(t)

\* tx.is_closed, before each call and after the last.
FindsClosed(t) ==
    /\ At(t, "calls") /\ ~jobs[t].open
    /\ AbandonRound(t)
    /\ UNCHANGED <<loop, backend, screen, ui, saved>>

\* The call is refused and has its result, or it runs, or the user is asked.
TakeCall(t) ==
    /\ At(t, "calls") /\ jobs[t].open /\ jobs[t].at <= jobs[t].asked
    /\ \/ jobs' = [jobs EXCEPT ![t].at = @ + 1]
       \/ Goes(t, "run")
       \/ loop = "chat" /\ Goes(t, "ask")
    /\ UNCHANGED <<loop, threads, backend, screen, ui, saved>>

UserDecides(t) ==
    /\ At(t, "ask") /\ jobs[t].open
    /\ \/ jobs' = [jobs EXCEPT ![t].at = @ + 1, ![t].pc = "calls"]
       \/ Goes(t, "run")
    /\ UNCHANGED <<loop, threads, backend, screen, ui, saved>>

\* The reply channel is gone: the whole turn is over.
QuestionDropped(t) ==
    /\ At(t, "ask") /\ ~jobs[t].open
    /\ AbandonRound(t)
    /\ UNCHANGED <<loop, backend, screen, ui, saved>>

ToolEnds(t) ==
    /\ At(t, "run")
    /\ jobs' = [jobs EXCEPT ![t].at = @ + 1, ![t].pc = "calls"]
    /\ UNCHANGED <<loop, threads, backend, screen, ui, saved>>

SendResults(t) ==
    /\ At(t, "calls") /\ jobs[t].open /\ jobs[t].at > jobs[t].asked
    /\ SetThread(t, AppendResults(Thread(t), t, Asked(t)))
    /\ jobs' = [jobs EXCEPT ![t].pc = "request", ![t].what = "results"]
    /\ UNCHANGED <<loop, backend, screen, ui, saved>>

\* `sigit run` has nothing to show: it asks once more.
AskForWrapUp(t) ==
    /\ At(t, "round") /\ ~AnotherRound(t)
    /\ loop = "headless" /\ jobs[t].silent
    /\ SetThread(t, Append(Thread(t), Prompt(t)))
    /\ jobs' = [jobs EXCEPT ![t].pc = "request", ![t].what = "wrapup"]
    /\ UNCHANGED <<loop, backend, screen, ui, saved>>

\* Nothing is left to do.  A task that was cancelled during its last request
\* gets here too, and saves.
EndTask(t) ==
    /\ \/ At(t, "end")
       \/ At(t, "round") /\ ~AnotherRound(t) /\ ~(loop = "headless" /\ jobs[t].silent)
    /\ Over(t)
    /\ ScreenAfter(t)
    /\ Saves(t)
    /\ UNCHANGED <<loop, threads, backend, ui>>

-----------------------------------------------------------------------------
(* Commands of the chat screen, between the tasks it listens to *)

Command ==
    /\ loop = "chat" /\ screen = 0 /\ ~ui.loading
    /\ ui.commands < MaxCommands

\* ui after a command, with the changes it makes.
Commanded(changed) ==
    [changed EXCEPT !.commands = @ + 1, !.overlapped = @ \/ Working # {}]

\* /clear empties the engine's history, the screen and the stored session.
ClearChat ==
    /\ Command
    /\ threads' = [threads EXCEPT ![Engine] = Fresh]
    /\ saved' = << >>
    /\ ui' = Commanded(ui)
    /\ UNCHANGED <<loop, backend, jobs, screen>>

\* /compact, in which the screen waits for the summary.
CompactChat ==
    /\ Command
    /\ \E summarized \in BOOLEAN :
         LET rebuilt == Compacted(backend, threads[backend], summarized)
         IN  /\ rebuilt # NoRebuild
             /\ threads' = [threads EXCEPT ![backend] = rebuilt]
             /\ saved' = rebuilt
    /\ ui' = Commanded(ui)
    /\ UNCHANGED <<loop, backend, jobs, screen>>

\* /resume.  An engine without a model is given the history when it has one.
ResumeChat ==
    /\ Command /\ saved # << >>
    /\ threads' = [threads EXCEPT ![backend] = Restored(backend, saved)]
    /\ ui' = Commanded(ui)
    /\ UNCHANGED <<loop, backend, jobs, screen, saved>>

\* /models N, a cloud tier: a new endpoint, with a conversation of its own.
PickTier ==
    /\ Command
    /\ ui' = Commanded([ui EXCEPT !.made = @ + 1])
    /\ backend' = ui.made + 1
    /\ UNCHANGED <<loop, threads, jobs, screen, saved>>

\* /load, or /models N for a model on the device.  The backend is a new one: a
\* history that waited for a model goes with the old.
LoadOnDevice ==
    /\ Command
    /\ backend' = Engine
    /\ threads' = IF ui.loaded THEN threads ELSE [threads EXCEPT ![Engine] = Fresh]
    /\ ui' = Commanded([ui EXCEPT !.loading = TRUE])
    /\ UNCHANGED <<loop, jobs, screen, saved>>

\* The loader reports the model.  If it failed, or the user gave up waiting,
\* the history stays.
LoadReported ==
    /\ ui.loading
    /\ \/ /\ threads' = [threads EXCEPT ![Engine] = Fresh]
          /\ ui' = [ui EXCEPT !.loading = FALSE, !.loaded = TRUE]
       \/ /\ UNCHANGED threads
          /\ \E loaded \in BOOLEAN : ui' = [ui EXCEPT !.loading = FALSE, !.loaded = loaded]
    /\ UNCHANGED <<loop, backend, jobs, screen, saved>>

-----------------------------------------------------------------------------
LoopStep(t) ==
    \/ Submit(t) \/ ReplyArrives(t) \/ RequestFails(t) \/ TakeRound(t) \/ SummaryArrives(t)
    \/ FindsClosed(t) \/ TakeCall(t) \/ UserDecides(t) \/ QuestionDropped(t) \/ ToolEnds(t)
    \/ SendResults(t) \/ AskForWrapUp(t) \/ EndTask(t)

LoopNext ==
    \/ \E t \in Prompts : LoopStep(t)
    \/ PressCancel \/ ClearChat \/ CompactChat \/ ResumeChat \/ PickTier \/ LoadOnDevice
    \/ LoadReported

LoopSpec == LoopInit /\ [][LoopNext]_loopVars

-----------------------------------------------------------------------------
(* Properties *)

Sends(t) == ~At(t, "request") /\ jobs'[t].pc = "request" /\ jobs'[t].on # Engine

\* No request to an endpoint leaves a call of the conversation unanswered,
\* whatever was cancelled, compacted, resumed or cut off at the cap before,
\* unless the user went on while a cancelled task was still at work, or the
\* reply itself did not fit.
LoopRequestsAnswerEveryCall ==
    [][\A t \in Prompts : Sends(t) /\ ~ui'.overlapped /\ ~ui'.dropped
                           => Paired(threads'[jobs'[t].on])]_loopVars
=============================================================================
