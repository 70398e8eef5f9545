--------------------------- MODULE ClientTerminal ---------------------------
(***************************************************************************)
(* A run_command call that runs in the client's terminal                   *)
(* (crates/cli/src/client_terminal.rs, tools.rs).                          *)
(*                                                                         *)
(* Every request to the client may be answered, refused, or not answered   *)
(* in time, and one that is not answered in time may still take effect.    *)
(* The client's side is external: releasing a terminal ends its command.   *)
(***************************************************************************)
EXTENDS Naturals

VARIABLES
    run,        \* the call: [pc, outcome]
    creation,   \* the terminal/create request: "none", "sent", "created" or "refused"
    terminal,   \* the client's terminal: [open, running]
    aborted,    \* the session's abort signal
    ran,        \* history variable: how often the command was started
    silent      \* history variable: requests not answered in time or refused

terminalVars == <<run, creation, terminal, aborted, ran, silent>>

TerminalInit ==
    /\ run = [pc |-> "idle", outcome |-> "none"]
    /\ creation = "none"
    /\ terminal = [open |-> FALSE, running |-> FALSE]
    /\ aborted = FALSE
    /\ ran = 0
    /\ silent = {}

-----------------------------------------------------------------------------
(* The client *)

ClientCreates ==
    /\ creation = "sent"
    /\ \/ /\ creation' = "created"
          /\ terminal' = [open |-> TRUE, running |-> TRUE]
          /\ ran' = ran + 1
       \/ creation' = "refused" /\ UNCHANGED <<terminal, ran>>
    /\ UNCHANGED <<run, aborted, silent>>

CommandExits ==
    /\ terminal.running
    /\ terminal' = [terminal EXCEPT !.running = FALSE]
    /\ UNCHANGED <<run, creation, aborted, ran, silent>>

\* A request the client was sent, `carried` what it does.  It is done and
\* answered, done without an answer in time, or not done at all.
AskClient(method, carried(_)) ==
    \/ terminal' = carried(terminal) /\ silent' = silent
    \/ terminal' = carried(terminal) /\ silent' = silent \cup {method}
    \/ terminal' = terminal /\ silent' = silent \cup {method}

-----------------------------------------------------------------------------
(* Route::run *)

RunGoes(pc, outcome) == run' = [pc |-> pc, outcome |-> outcome]

\* A foreground command in one of the session's directories.
StartInTerminal ==
    /\ run.pc = "idle"
    /\ RunGoes("create", "none")
    /\ creation' = "sent"
    /\ UNCHANGED <<terminal, aborted, ran, silent>>

\* The terminal is shown in the tool call, which is a notification.
TerminalCreated ==
    /\ run.pc = "create" /\ creation = "created"
    /\ RunGoes("wait", "none")
    /\ UNCHANGED <<creation, terminal, aborted, ran, silent>>

\* NotStarted: the client refused, or did not answer in time.
NotStarted ==
    /\ run.pc = "create" /\ creation # "created"
    /\ RunGoes("local", "none")
    /\ silent' = IF creation = "sent" THEN silent \cup {"create"} ELSE silent
    /\ UNCHANGED <<creation, terminal, aborted, ran>>

\* The command runs on this side instead, see exec_run_command.
RunsLocally ==
    /\ run.pc = "local"
    /\ RunGoes("done", "local")
    /\ ran' = ran + 1
    /\ UNCHANGED <<creation, terminal, aborted, silent>>

UserCancels ==
    /\ ~aborted
    /\ aborted' = TRUE
    /\ UNCHANGED <<run, creation, terminal, ran, silent>>

\* terminal/wait_for_exit is answered.
WaitAnswered ==
    /\ run.pc = "wait" /\ ~terminal.running
    /\ RunGoes("read", "exited")
    /\ UNCHANGED <<creation, terminal, aborted, ran, silent>>

\* The client fails it: the command may have run and is not run again.
WaitFails ==
    /\ run.pc = "wait"
    /\ RunGoes("release", "failed")
    /\ UNCHANGED <<creation, terminal, aborted, ran, silent>>

\* Mutant: the wait goes on until the client answers.
WaitWithoutEnd ==
    /\ run.pc = "wait" /\ aborted
    /\ RunGoes("kill", "cancelled")
    /\ UNCHANGED <<creation, terminal, aborted, ran, silent>>

\* The time is up, or the user cancels.
WaitEnds ==
    /\ run.pc = "wait"
    /\ \/ aborted /\ RunGoes("kill", "cancelled")
       \/ RunGoes("kill", "timeout")
    /\ UNCHANGED <<creation, terminal, aborted, ran, silent>>

Killed(t) == [t EXCEPT !.running = FALSE]

\* terminal/kill: a failure is logged.
Kill ==
    /\ run.pc = "kill"
    /\ AskClient("kill", Killed)
    /\ RunGoes("read", run.outcome)
    /\ UNCHANGED <<creation, aborted, ran>>

\* Mutant: without the output the call is over at once.
ReadOutputReturns ==
    /\ run.pc = "read"
    /\ \/ RunGoes("release", run.outcome) /\ UNCHANGED silent
       \/ /\ IF run.outcome = "exited" THEN RunGoes("done", "failed") ELSE RunGoes("release", run.outcome)
          /\ silent' = silent \cup {"output"}
    /\ UNCHANGED <<creation, terminal, aborted, ran>>

\* terminal/output: only an exited command needs it.
ReadOutput ==
    /\ run.pc = "read"
    /\ \/ RunGoes("release", run.outcome) /\ UNCHANGED silent
       \/ /\ RunGoes("release", IF run.outcome = "exited" THEN "failed" ELSE run.outcome)
          /\ silent' = silent \cup {"output"}
    /\ UNCHANGED <<creation, terminal, aborted, ran>>

Released(t) == [open |-> FALSE, running |-> FALSE]

\* terminal/release, on every way out.
Release ==
    /\ run.pc = "release"
    /\ AskClient("release", Released)
    /\ RunGoes("done", run.outcome)
    /\ UNCHANGED <<creation, aborted, ran>>

TerminalCall == \/ TerminalCreated \/ NotStarted \/ RunsLocally \/ WaitEnds \/ Kill \/ ReadOutput
                \/ Release

TerminalNext == \/ StartInTerminal \/ ClientCreates \/ CommandExits \/ UserCancels \/ WaitAnswered
                \/ WaitFails \/ TerminalCall

\* Every wait has a time limit.  Nothing is assumed of the client.
TerminalFairness == WF_terminalVars(TerminalCall)

TerminalSpec == TerminalInit /\ [][TerminalNext]_terminalVars /\ TerminalFairness

-----------------------------------------------------------------------------
(* Properties *)

\* A call whose command could not be taken from the client a second time runs
\* it once, and leaves no terminal open and no command running, as long as the
\* client does what it is asked: only a creation that came too late and a
\* release that was not done are excused.
TerminalsAreReleased ==
    run.pc = "done" /\ "create" \notin silent =>
        /\ ran = 1
        /\ "release" \notin silent => ~terminal.open /\ ~terminal.running

\* A call ends though the client answers nothing.
TerminalCallsEnd == run.pc \notin {"idle", "done"} ~> run.pc = "done"
=============================================================================
