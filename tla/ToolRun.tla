-------------------------------- MODULE ToolRun --------------------------------
(***************************************************************************)
(* One tool call at a time, between its hooks (execute_tool_with_change in *)
(* crates/cli/src/tools.rs, run_hook in hooks.rs), and what a command that *)
(* commits does to the repository: CommitWatch sees that HEAD has moved    *)
(* and adds siGit's co-author trailer to the new commit.                   *)
(*                                                                         *)
(* A hook is a shell with its helpers.  They share a process group and the *)
(* pipes the agent reads; a helper may leave the group.  The repository is *)
(* shared with everybody else, and each look at it is a git process of its *)
(* own.  How the command itself runs is BackgroundTasks' and               *)
(* ClientTerminal's.                                                       *)
(***************************************************************************)
EXTENDS Integers, Sequences

CONSTANTS
    PreHooks, PostHooks,    \* the numbers of hooks configured
    MaxToolCalls,
    MaxGitSteps             \* commits, pushes and checkouts

ASSUME ToolRunAssumption == {PreHooks, PostHooks, MaxToolCalls, MaxGitSteps} \subseteq Nat

VARIABLES
    step,       \* where the call is, see Steps
    hooksLeft,  \* hooks of this phase that have not started
    hook,       \* the hook that runs, see NoHook
    watch,      \* CommitWatch, see NoWatch
    repo,       \* the repository, see RepoType
    raced,      \* history variable: somebody else used the repository while the
                \* watch was looking at it
    toolCalls, gitSteps     \* so far

runVars == <<step, hooksLeft, hook, watch, repo, raced, toolCalls, gitSteps>>

\*   pre, post   the hooks run
\*   tool        the tool runs
\*   head, message, remotes, amend     CommitWatch::finish, up to that git process
Looks == {"head", "message", "remotes", "amend"}
Steps == {"idle", "pre", "tool", "post"} \cup Looks

NoHook == [phase |-> "none",        \* "wait": for the shell; "collect": its output
           helpers |-> {}]          \* "group": in the process group, "own": not

NoWatch == [on |-> FALSE, head |-> 0, message |-> 0, cwd |-> TRUE]

\* A commit: its parent, the commit whose message it carries, whether that
\* message has the trailer, and whether comment lines of git are below it.
NewCommit(parent, text, trailer, comments) ==
    [parent |-> parent, text |-> text, trailer |-> trailer, comments |-> comments]

\* repo.pushed: the commits some remote branch contains.
Ancestors(commits, c) ==
    LET upTo[d \in {0} \cup DOMAIN commits] ==
            IF d = 0 THEN {} ELSE {d} \cup upTo[commits[d].parent]
    IN  upTo[c]

HeadCommit == repo.commits[repo.head]

RunInit ==
    /\ step = "idle" /\ hooksLeft = 0 /\ hook = NoHook /\ watch = NoWatch
    /\ repo \in {[commits |-> <<NewCommit(0, 1, FALSE, FALSE)>>, head |-> 1, pushed |-> {}],
                 [commits |-> <<NewCommit(0, 1, FALSE, FALSE)>>, head |-> 1, pushed |-> {1}]}
    /\ raced = FALSE /\ toolCalls = 0 /\ gitSteps = 0

-----------------------------------------------------------------------------
(* execute_tool_with_change *)

\* Without a working directory no hook runs.
CallBegins ==
    /\ step = "idle" /\ toolCalls < MaxToolCalls
    /\ toolCalls' = toolCalls + 1
    /\ \E exists \in BOOLEAN :
         /\ watch' = [NoWatch EXCEPT !.cwd = exists]
         /\ hooksLeft' = IF exists THEN PreHooks ELSE 0
    /\ step' = "pre" /\ raced' = FALSE
    /\ UNCHANGED <<hook, repo, gitSteps>>

\* The tool is started; a foreground command whose text names a commit is
\* watched.
ToolBegins ==
    /\ step = "pre" /\ hooksLeft = 0 /\ hook = NoHook
    /\ step' = "tool"
    /\ \E on \in BOOLEAN : watch' = [watch EXCEPT !.on = on, !.head = repo.head]
    /\ UNCHANGED <<hooksLeft, hook, repo, raced, toolCalls, gitSteps>>

PostHooksBegin == step' = "post" /\ hooksLeft' = IF watch.cwd THEN PostHooks ELSE 0

\* It returns, panics or is killed.  The watch finishes if a command exited by
\* itself.
ToolReturns ==
    /\ step = "tool"
    /\ \/ watch.on /\ step' = "head" /\ UNCHANGED hooksLeft
       \/ PostHooksBegin
    /\ UNCHANGED <<hook, watch, repo, raced, toolCalls, gitSteps>>

CallEnds ==
    /\ step = "post" /\ hooksLeft = 0 /\ hook = NoHook
    /\ step' = "idle"
    /\ UNCHANGED <<hooksLeft, hook, watch, repo, raced, toolCalls, gitSteps>>

-----------------------------------------------------------------------------
(* run_hook *)

\* The shell is started, or cannot be.
HookStarts ==
    /\ step \in {"pre", "post"} /\ hooksLeft > 0 /\ hook = NoHook
    /\ hooksLeft' = hooksLeft - 1
    /\ hook' \in {NoHook, [NoHook EXCEPT !.phase = "wait"]}
    /\ UNCHANGED <<step, watch, repo, raced, toolCalls, gitSteps>>

HelperStarts ==
    /\ hook.phase = "wait"
    /\ \E kind \in {"group", "own"} : hook' = [hook EXCEPT !.helpers = @ \cup {kind}]
    /\ UNCHANGED <<step, hooksLeft, watch, repo, raced, toolCalls, gitSteps>>

HelperEnds ==
    /\ \E kind \in hook.helpers : hook' = [hook EXCEPT !.helpers = @ \ {kind}]
    /\ UNCHANGED <<step, hooksLeft, watch, repo, raced, toolCalls, gitSteps>>

HookExits ==
    /\ hook.phase = "wait"
    /\ hook' = [hook EXCEPT !.phase = "collect"]
    /\ UNCHANGED <<step, hooksLeft, watch, repo, raced, toolCalls, gitSteps>>

\* kill_hook: the group is killed with its shell.
HookTimesOut ==
    /\ hook.phase = "wait"
    /\ hook' = [hook EXCEPT !.phase = "collect", !.helpers = @ \ {"group"}]
    /\ UNCHANGED <<step, hooksLeft, watch, repo, raced, toolCalls, gitSteps>>

\* Mutant: the readers are joined, whoever holds the pipes.
JoinReaders ==
    /\ hook.phase = "collect" /\ hook.helpers = {}
    /\ hook' = NoHook
    /\ UNCHANGED <<step, hooksLeft, watch, repo, raced, toolCalls, gitSteps>>

\* The pipes are closed, or the grace period is over.
CollectOutput ==
    /\ hook.phase = "collect"
    /\ hook' = NoHook
    /\ UNCHANGED <<step, hooksLeft, watch, repo, raced, toolCalls, gitSteps>>

-----------------------------------------------------------------------------
(* CommitWatch::finish and ensure_commit_co_author *)

LookAtHead ==
    /\ step = "head"
    /\ IF repo.head = watch.head THEN PostHooksBegin ELSE step' = "message" /\ UNCHANGED hooksLeft
    /\ UNCHANGED <<hook, watch, repo, raced, toolCalls, gitSteps>>

\* A message with the trailer at its end is left alone.
ReadMessage ==
    /\ step = "message"
    /\ watch' = [watch EXCEPT !.message = repo.head]
    /\ IF HeadCommit.trailer /\ ~HeadCommit.comments
       THEN PostHooksBegin ELSE step' = "remotes" /\ UNCHANGED hooksLeft
    /\ UNCHANGED <<hook, repo, raced, toolCalls, gitSteps>>

\* Mutant: the remotes are not asked.
AskNobody ==
    /\ step = "remotes"
    /\ step' = "amend"
    /\ UNCHANGED <<hooksLeft, hook, watch, repo, raced, toolCalls, gitSteps>>

\* So is a commit that is on a remote.
AskRemotes ==
    /\ step = "remotes"
    /\ IF repo.head \in repo.pushed THEN PostHooksBegin ELSE step' = "amend" /\ UNCHANGED hooksLeft
    /\ UNCHANGED <<hook, watch, repo, raced, toolCalls, gitSteps>>

\* The commit at HEAD gets the message that was read, without the comments and
\* with the trailer; git may refuse.
Amend ==
    /\ step = "amend"
    /\ PostHooksBegin
    /\ repo' \in {repo,
          [repo EXCEPT !.commits = Append(@, NewCommit(HeadCommit.parent,
                                       repo.commits[watch.message].text, TRUE, FALSE)),
                       !.head = Len(repo.commits) + 1]}
    /\ UNCHANGED <<hook, watch, raced, toolCalls, gitSteps>>

-----------------------------------------------------------------------------
(* The command's, or anybody's, use of git *)

CommitsOnHead ==
    \E trailer, comments \in BOOLEAN :
        repo' = [repo EXCEPT
                    !.commits = Append(@, NewCommit(repo.head, Len(repo.commits) + 1, trailer, comments)),
                    !.head = Len(repo.commits) + 1]

PushesHead == repo' = [repo EXCEPT !.pushed = @ \cup Ancestors(repo.commits, repo.head)]

ChecksOut == \E c \in DOMAIN repo.commits : repo' = [repo EXCEPT !.head = c]

\* While a hook runs nobody looks.
GitIsUsed ==
    /\ step \in {"tool"} \cup Looks /\ gitSteps < MaxGitSteps
    /\ gitSteps' = gitSteps + 1
    /\ CommitsOnHead \/ PushesHead \/ ChecksOut
    /\ raced' = (raced \/ step \in Looks)
    /\ UNCHANGED <<step, hooksLeft, hook, watch, toolCalls>>

Call == CallBegins \/ ToolBegins \/ CallEnds
Hook == HookStarts \/ HelperStarts \/ HelperEnds \/ HookExits \/ HookTimesOut \/ CollectOutput
WatchFinishes == LookAtHead \/ ReadMessage \/ AskRemotes \/ Amend

RunNext == Call \/ ToolReturns \/ Hook \/ WatchFinishes \/ GitIsUsed

\* The agent's steps are taken, its time limits run out, a tool returns and git
\* ends; one of these steps is next at any time.  A hook's processes may run for
\* ever.
RunGoesOn == \/ ToolBegins \/ ToolReturns \/ HookStarts \/ HookTimesOut \/ CollectOutput
             \/ WatchFinishes \/ CallEnds

RunFairness == WF_runVars(RunGoesOn)

RunSpec == RunInit /\ [][RunNext]_runVars /\ RunFairness

-----------------------------------------------------------------------------
(* Properties *)

\* A tool call comes back, whatever processes its hooks leave behind with
\* their ends of the pipes.
ToolCallsEnd == step # "idle" ~> step = "idle"

\* No commit that a remote has is rewritten, whoever pushed it while the command
\* ran, and a commit keeps its own text: all that can come in between is
\* somebody who uses the repository during these few looks at it.
Amended == step = "amend" /\ repo' # repo
OnlyLocalCommitsChange ==
    [][Amended /\ ~raced' =>
         /\ repo.head \notin repo.pushed
         /\ repo'.commits[repo'.head].text = HeadCommit.text
         /\ repo'.commits[repo'.head].parent = HeadCommit.parent]_runVars

\* A commit the command left at HEAD, and on no remote, has the trailer as its
\* last lines once the watch is through, unless git refused the amend.
Through == step \in Looks /\ step' = "post"
NewCommitsAreAttributed ==
    [][Through /\ ~raced' /\ repo'.head # watch.head /\ repo'.head \notin repo'.pushed
         => \/ step = "amend" /\ repo' = repo
            \/ repo'.commits[repo'.head].trailer /\ ~repo'.commits[repo'.head].comments]_runVars

AttributionIsSound == OnlyLocalCommitsChange /\ NewCommitsAreAttributed
=============================================================================
