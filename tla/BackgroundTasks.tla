-------------------------- MODULE BackgroundTasks --------------------------
(***************************************************************************)
(* Shell commands in the foreground and in the background, and the abort   *)
(* signals of the sessions (crates/cli/src/tools.rs).                      *)
(*                                                                         *)
(* A session's turn makes one call at a time.  A background task prints    *)
(* into a pipe, a reader thread moves what it prints to a buffer of        *)
(* limited size, and command_output, monitor_command and kill_command take *)
(* it from there.  A cancellation reaches a call through the session's     *)
(* abort signal, which is a new one in every turn.                         *)
(***************************************************************************)
EXTENDS Naturals, Sequences, FiniteSets

CONSTANTS
    Sessions,       \* session ids
    Tasks,          \* task ids: 1..n
    BufferLimit,    \* COMMAND_OUTPUT_LIMIT, in lines
    MaxPrints,      \* lines a task prints
    MaxSignals      \* abort signals made

ASSUME TasksAssumption ==
    /\ "none" \notin Sessions /\ Tasks \subseteq Nat \ {0} /\ BufferLimit \in Nat \ {0}
    /\ {MaxPrints, MaxSignals} \subseteq Nat

VARIABLES
    tasks,      \* tasks(): BackgroundTask, and the processes behind it
    signals,    \* aborts(): the signal of each session, 0 when there is none
    raised,     \* the signals that are aborted
    made,       \* signals made so far
    turns,      \* per session: "closed", "idle", "turn", "cancelled" or "closing"
    calls,      \* per session: the tool call its turn runs
    told,       \* history variable: the lines of each task the model was given
    noted       \* history variable: tasks of which the model knows that lines are lost

taskVars == <<tasks, signals, raised, made, turns, calls, told, noted>>

\* No task yet.  `shell` is the child, `rest` what it started and may leave
\* behind, `pipe` the lines no reader took, `gone` that the table forgot it.
\* `ended` is a history variable: the shell ended by itself or by kill_command.
NoTask == [owner |-> "none", shell |-> FALSE, rest |-> FALSE, ended |-> FALSE, printed |-> 0,
           pipe |-> << >>, buf |-> << >>, dropped |-> FALSE, gone |-> FALSE]

\* `gathered` and `dropped` are what a monitor has so far.
NoCall == [tool |-> "none", task |-> 0, signal |-> 0, gathered |-> << >>, dropped |-> FALSE]

TasksInit ==
    /\ tasks = [t \in Tasks |-> NoTask]
    /\ signals = [s \in Sessions |-> 0]
    /\ raised = {}
    /\ made = 0
    /\ turns = [s \in Sessions |-> "idle"]
    /\ calls = [s \in Sessions |-> NoCall]
    /\ told = [t \in Tasks |-> << >>]
    /\ noted = {}

-----------------------------------------------------------------------------
(* Abort signals *)

\* Mutant: a signal that is there is kept for the next turn.
ResetAbortKeeps(s) ==
    /\ made < MaxSignals
    /\ made' = made + 1
    /\ signals' = [signals EXCEPT ![s] = IF @ = 0 THEN made + 1 ELSE @]

\* reset_abort
ResetAbort(s) ==
    /\ made < MaxSignals
    /\ made' = made + 1
    /\ signals' = [signals EXCEPT ![s] = made + 1]

\* Mutant: a new signal takes the place of the one a command listens to.
AbortNewSignal(s) ==
    /\ made < MaxSignals
    /\ made' = made + 1
    /\ signals' = [signals EXCEPT ![s] = made + 1]
    /\ raised' = raised \cup {signals'[s]}

\* abort_session_tools: the signal is made if there is none.
AbortSessionTools(s) ==
    /\ signals[s] = 0 => made < MaxSignals
    /\ made' = IF signals[s] = 0 THEN made + 1 ELSE made
    /\ signals' = [signals EXCEPT ![s] = IF @ = 0 THEN made + 1 ELSE @]
    /\ raised' = raised \cup {signals'[s]}

TurnStarts(s) ==
    /\ turns[s] = "idle"
    /\ ResetAbort(s)
    /\ turns' = [turns EXCEPT ![s] = "turn"]
    /\ UNCHANGED <<tasks, raised, calls, told, noted>>

\* A cancelled turn ends when its call does.
TurnEnds(s) ==
    /\ turns[s] \in {"turn", "cancelled"} /\ calls[s] = NoCall
    /\ turns' = [turns EXCEPT ![s] = "idle"]
    /\ UNCHANGED <<tasks, signals, raised, made, calls, told, noted>>

\* session/cancel: in a turn, after it, or for a session that is gone.
CancelTurn(s) ==
    /\ AbortSessionTools(s)
    /\ turns' = [turns EXCEPT ![s] = IF @ = "turn" THEN "cancelled" ELSE @]
    /\ UNCHANGED <<tasks, calls, told, noted>>

BeginClose(s) ==
    /\ turns[s] \in {"idle", "turn", "cancelled"}
    /\ AbortSessionTools(s)
    /\ turns' = [turns EXCEPT ![s] = "closing"]
    /\ UNCHANGED <<tasks, calls, told, noted>>

-----------------------------------------------------------------------------
(* A task's processes and its reader *)

\* The shell starts something that may outlive it, or prints, or exits.
Prints(t) ==
    /\ tasks[t].shell \/ tasks[t].rest
    /\ tasks[t].printed < MaxPrints
    /\ tasks' = [tasks EXCEPT ![t] = [@ EXCEPT !.printed = tasks[t].printed + 1,
                                               !.pipe = Append(tasks[t].pipe, tasks[t].printed + 1)]]
    /\ UNCHANGED <<signals, raised, made, turns, calls, told, noted>>

Exits(t) ==
    /\ tasks[t].shell
    /\ tasks' = [tasks EXCEPT ![t] = [@ EXCEPT !.shell = FALSE, !.ended = TRUE]]
    /\ UNCHANGED <<signals, raised, made, turns, calls, told, noted>>

\* The last `BufferLimit` lines.
LastLines(lines) == SubSeq(lines, (IF Len(lines) > BufferLimit THEN Len(lines) - BufferLimit ELSE 0) + 1,
                       Len(lines))

\* Mutant: what does not fit is dropped without a word.
ReaderDropsSilently(t) ==
    /\ tasks[t].pipe # << >>
    /\ tasks' = [tasks EXCEPT ![t] = [@ EXCEPT !.buf = LastLines(tasks[t].buf \o tasks[t].pipe), !.pipe = << >>]]
    /\ UNCHANGED <<signals, raised, made, turns, calls, told, noted>>

\* spawn_output_reader
ReaderReads(t) ==
    LET all == tasks[t].buf \o tasks[t].pipe
    IN  /\ tasks[t].pipe # << >>
        /\ tasks' = [tasks EXCEPT ![t] = [@ EXCEPT !.buf = LastLines(all), !.pipe = << >>,
                                                   !.dropped = tasks[t].dropped \/ Len(all) > BufferLimit]]
        /\ UNCHANGED <<signals, raised, made, turns, calls, told, noted>>

-----------------------------------------------------------------------------
(* The calls *)

\* The turn starts a call unless it is cancelled.
Calling(s) == turns[s] = "turn" /\ calls[s] = NoCall

Owned(s, t) == tasks[t].owner = s /\ ~tasks[t].gone

\* start_background_task, with a shell that leaves something behind or not.
StartTask(s) ==
    /\ Calling(s)
    /\ \E t \in Tasks, rest \in BOOLEAN :
         /\ tasks[t] = NoTask /\ \A u \in Tasks : u < t => tasks[u] # NoTask
         /\ tasks' = [tasks EXCEPT ![t] = [NoTask EXCEPT !.owner = s, !.shell = TRUE, !.rest = rest]]
    /\ UNCHANGED <<signals, raised, made, turns, calls, told, noted>>

\* abort_signal of the session, when the call asks for it
BeginCall(s, tool, t) ==
    calls' = [calls EXCEPT ![s] = [NoCall EXCEPT !.tool = tool, !.task = t, !.signal = signals[s]]]

\* run_command in the foreground
RunForeground(s) ==
    /\ Calling(s)
    /\ BeginCall(s, "run", 0)
    /\ UNCHANGED <<tasks, signals, raised, made, turns, told, noted>>

\* The command exits, or it is killed after a while.
ForegroundEnds(s) ==
    /\ calls[s].tool = "run"
    /\ calls' = [calls EXCEPT ![s] = NoCall]
    /\ UNCHANGED <<tasks, signals, raised, made, turns, told, noted>>

\* The command is killed for the signal.
ForegroundAborted(s) ==
    /\ calls[s].tool = "run" /\ calls[s].signal \in raised
    /\ calls' = [calls EXCEPT ![s] = NoCall]
    /\ UNCHANGED <<tasks, signals, raised, made, turns, told, noted>>

\* What the model is told of a task: lines, and whether some are missing.
Tell(t, lines, dropped) ==
    /\ told' = [told EXCEPT ![t] = @ \o lines]
    /\ noted' = IF dropped THEN noted \cup {t} ELSE noted

Drained(task) == [task EXCEPT !.buf = << >>, !.dropped = FALSE]

Watch(s) ==
    /\ Calling(s)
    /\ \E t \in Tasks, tool \in {"output", "monitor"} : Owned(s, t) /\ BeginCall(s, tool, t)
    /\ UNCHANGED <<tasks, signals, raised, made, turns, told, noted>>

\* A look of command_output.  While the task runs, only the last one takes the
\* output.
OutputLook(s) ==
    LET t == calls[s].task
        ended == ~tasks[t].shell
    IN  /\ calls[s].tool = "output"
        /\ \E last \in BOOLEAN :
             IF last \/ ended
             THEN /\ tasks' = [tasks EXCEPT ![t] = Drained(@)]
                  /\ Tell(t, tasks[t].buf, tasks[t].dropped)
                  /\ calls' = [calls EXCEPT ![s] = NoCall]
             ELSE UNCHANGED <<tasks, told, noted, calls>>
        /\ UNCHANGED <<signals, raised, made, turns>>

\* A look of monitor_command: it takes the output, and stops when the task has
\* exited, a line matches, the time is up, or the turn is cancelled.
MonitorLook(s) ==
    LET t == calls[s].task
        ended == ~tasks[t].shell
        all == calls[s].gathered \o tasks[t].buf
        dropped == calls[s].dropped \/ tasks[t].dropped \/ Len(all) > BufferLimit
    IN  /\ calls[s].tool = "monitor"
        /\ tasks' = [tasks EXCEPT ![t] = Drained(@)]
        /\ \E enough \in BOOLEAN :
             IF ended \/ enough \/ calls[s].signal \in raised
             THEN Tell(t, LastLines(all), dropped) /\ calls' = [calls EXCEPT ![s] = NoCall]
             ELSE /\ calls' = [calls EXCEPT ![s] = [@ EXCEPT !.gathered = LastLines(all), !.dropped = dropped]]
                  /\ UNCHANGED <<told, noted>>
        /\ UNCHANGED <<signals, raised, made, turns>>

\* kill_command: the shell is killed, not what it started.
KillCommand(s) ==
    /\ Calling(s)
    /\ \E t \in Tasks :
         /\ Owned(s, t)
         /\ tasks' = [tasks EXCEPT ![t] = [Drained(@) EXCEPT !.shell = FALSE, !.ended = TRUE]]
         /\ Tell(t, tasks[t].buf, tasks[t].dropped)
    /\ UNCHANGED <<signals, raised, made, turns, calls>>

\* Mutant: only the shells are killed.
KillSessionShells(s) ==
    [t \in Tasks |-> IF Owned(s, t) THEN [tasks[t] EXCEPT !.gone = TRUE, !.shell = FALSE] ELSE tasks[t]]

\* kill_session_tasks: the process group of what still runs is killed, and
\* every task of the session is forgotten.
KillSessionTasks(s) ==
    [t \in Tasks |->
        IF ~Owned(s, t) THEN tasks[t]
        ELSE [tasks[t] EXCEPT !.gone = TRUE, !.shell = FALSE, !.rest = @ /\ ~tasks[t].shell]]

\* session/close has the session's lock: the turn is over.  The signal is
\* forgotten.
SessionCloses(s) ==
    /\ turns[s] = "closing" /\ calls[s] = NoCall
    /\ tasks' = KillSessionTasks(s)
    /\ signals' = [signals EXCEPT ![s] = 0]
    /\ turns' = [turns EXCEPT ![s] = "closed"]
    /\ UNCHANGED <<raised, made, calls, told, noted>>

\* session/load brings the id back.
Reopens(s) ==
    /\ turns[s] = "closed"
    /\ turns' = [turns EXCEPT ![s] = "idle"]
    /\ UNCHANGED <<tasks, signals, raised, made, calls, told, noted>>

CallGoesOn(s) == ForegroundAborted(s) \/ OutputLook(s) \/ MonitorLook(s)

CallStarts(s) == StartTask(s) \/ RunForeground(s) \/ Watch(s) \/ KillCommand(s)

SessionActs(s) == \/ TurnStarts(s) \/ TurnEnds(s) \/ CancelTurn(s) \/ BeginClose(s) \/ SessionCloses(s)
                  \/ Reopens(s) \/ CallStarts(s) \/ CallGoesOn(s) \/ ForegroundEnds(s)

TaskActs(t) == Prints(t) \/ Exits(t) \/ ReaderReads(t)

TasksNext == (\E s \in Sessions : SessionActs(s)) \/ (\E t \in Tasks : TaskActs(t))

\* The last look comes: a wait has an end.  Nothing is assumed of a command.
LastLook(s) == CallGoesOn(s) /\ calls'[s] = NoCall

TasksFairness == \A s \in Sessions : WF_taskVars(LastLook(s))

TasksSpec == TasksInit /\ [][TasksNext]_taskVars /\ TasksFairness

-----------------------------------------------------------------------------
(* Properties *)

\* What a task prints reaches the model in order and once, through the pipe,
\* the buffer and the calls that look at it; lines that are missing are either
\* owned up to or about to be.
InHand(t) ==
    LET watching == {s \in Sessions : calls[s].task = t}
    IN  IF watching = {} THEN << >> ELSE calls[CHOOSE s \in watching : TRUE].gathered

LossKnown(t) == \/ t \in noted \/ tasks[t].dropped
                \/ \E s \in Sessions : calls[s].task = t /\ calls[s].dropped

OutputIsKept ==
    \A t \in Tasks :
        LET lines == told[t] \o InHand(t) \o tasks[t].buf \o tasks[t].pipe
        IN  /\ \A i, j \in DOMAIN lines : i < j => lines[i] < lines[j]
            /\ Len(lines) = tasks[t].printed \/ LossKnown(t)

\* The signal a command listens to is raised exactly when its own turn was
\* cancelled or its session is being closed: a late cancellation of an earlier
\* turn stops nothing, and none of this turn is missed.
SignalsMatchTurns ==
    \A s \in Sessions : calls[s].tool \in {"run", "monitor"} =>
        ((calls[s].signal \in raised) <=> (turns[s] \in {"cancelled", "closing"}))

\* A closed session leaves no task behind, and nothing a task started, but for
\* what had outlived its shell before.
NothingOutlivesItsSession ==
    \A t \in Tasks :
        /\ tasks[t].owner \in {s \in Sessions : turns[s] = "closed"} => tasks[t].gone
        /\ tasks[t].gone => ~tasks[t].shell /\ (tasks[t].rest => tasks[t].ended)

\* A call of a cancelled turn ends, whatever the command it waits for does.
CancelledCallsEnd ==
    \A s \in Sessions : turns[s] \in {"cancelled", "closing"} ~> calls[s] = NoCall
=============================================================================
