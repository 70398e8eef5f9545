------------------------------ MODULE MCServices ------------------------------
(***************************************************************************)
(* The parts of sigit that share no state, in one model: `part` says which *)
(* of them runs, and the others stay in their initial state.               *)
(***************************************************************************)
EXTENDS BackgroundTasks, ClientFiles, ClientTerminal, McpClient, McpServers, ModelLoading,
        ReplyStream, SessionStore, SignIn, ToolLoop, ToolRun

VARIABLE part

MCCacheOrder == <<"a", "b">>

\* One reply for each way a text can be read.
MCReplies ==
    { <<"o1", "o2", "ok", "c1", "c2", "t">>,
      <<"o1", "t", "o1", "o2", "bad", "c1", "c2">>,
      <<"o1", "o2", "ok">>,
      <<"o1", "o2", "t", "c1", "c2">>,
      <<"r", "o1", "o2", "ok", "c1", "c2", "R">>,
      <<"k", "t", "K", "r", "R">>,
      <<"s1", "s2", "t", "S", "s1">>,
      <<"s1", "s2", "t">>,
      <<"h1", "h2", "t", "H", "t">>,
      <<"t", "w", "w", "w", "t">> }

MCWords == {"_", "__", ".", "a", "b", "w", "t", "sigit", "smbcloud", "ascapi", "web_search",
            "a1", "a2", "a3", "a4", "b1", "b2", "b3", "own", "x1", "x2", "x3", "x4", "x5"}

\* The project's file repeats and disables servers of the global one; and the
\* global one is broken, or switches off what the project's redefines.
MCConfigFiles ==
    LET Opt(official, others) ==
            (Official :> official) @@ (Smbcloud :> others) @@ (Ascapi :> others)
        FileOf(parses, opt, entries) == [parses |-> parses, opt |-> opt, entries |-> entries]
        Use(name, who) == [name |-> name, who |-> who, enabled |-> TRUE, valid |-> TRUE]
        Unused(name, who) == [Use(name, who) EXCEPT !.enabled = FALSE]
    IN  { <<FileOf(TRUE, Opt("on", "on"), <<Use(<<"a">>, "a1"), Use(<<"b">>, "b1")>>),
            FileOf(TRUE, Opt("off", "off"), <<Use(<<"a">>, "a2"), Unused(<<"b">>, "b2")>>)>>,
          <<FileOf(FALSE, Opt("off", "off"), <<Use(<<"b">>, "b3")>>),
            FileOf(TRUE, Opt("unset", "unset"),
                   <<Use(Official, "own"), Use(<<"a", ".">>, "a3"), Use(<<"a", "_">>, "a4")>>)>> }

\* Names that are taken, that repeat, that are empty or that hold the separator.
MCClientLists ==
    { << [name |-> <<"a">>, who |-> "x1"], [name |-> <<"a">>, who |-> "x2"],
         [name |-> << >>, who |-> "x3"] >>,
      << [name |-> Official, who |-> "x4"], [name |-> <<"a", "__", "w">>, who |-> "x5"] >> }

MCToolLists == { <<<<"web_search">>, <<"w", "__", "t">>>> }

Inits == TasksInit /\ FilesInit /\ TerminalInit /\ McpInit /\ LoadingInit /\ StreamInit
         /\ StoreInit /\ SignInInit /\ LoopInit /\ RunInit /\ ServersInit

\* The other parts' initial states do not matter to the one that runs.
Others == /\ part # "files" => can = {}
          /\ part # "mcp" => server = "stdio" /\ ~link.up
          /\ part # "loading" => selection = NoModel
          /\ part # "store" => \A i \in Saved : files[i] = NoFile
          /\ part # "loop" => loop = "subagent"
          /\ part # "stream" => request.sink
          /\ part # "run" => repo.pushed = {}
          /\ IF part = "servers" THEN Smbcloud \notin onPath   \* one binary is enough
             ELSE onPath = {} /\ ~configs[1].parses

ServicesInit ==
    /\ part \in {"tasks", "files", "terminal", "mcp", "loading", "stream", "store", "signin",
                "loop", "run", "servers"}
    /\ Inits /\ Others

TasksRun == part = "tasks" /\ TasksNext
    /\ UNCHANGED <<part, fileVars, terminalVars, mcpVars, mcpServersVars, loadingVars,
                   streamVars, storeVars, signInVars, loopVars, runVars>>
FilesRun == part = "files" /\ FilesNext
    /\ UNCHANGED <<part, taskVars, terminalVars, mcpVars, mcpServersVars, loadingVars,
                   streamVars, storeVars, signInVars, loopVars, runVars>>
TerminalRuns == part = "terminal" /\ TerminalNext
    /\ UNCHANGED <<part, taskVars, fileVars, mcpVars, mcpServersVars, loadingVars,
                   streamVars, storeVars, signInVars, loopVars, runVars>>
McpRuns == part = "mcp" /\ McpNext
    /\ UNCHANGED <<part, taskVars, fileVars, terminalVars, mcpServersVars, loadingVars,
                   streamVars, storeVars, signInVars, loopVars, runVars>>
ServersRun == part = "servers" /\ McpServersNext
    /\ UNCHANGED <<part, taskVars, fileVars, terminalVars, mcpVars, loadingVars, streamVars,
                   storeVars, signInVars, loopVars, runVars>>
LoadingRuns == part = "loading" /\ LoadingNext
    /\ UNCHANGED <<part, taskVars, fileVars, terminalVars, mcpVars, mcpServersVars,
                   streamVars, storeVars, signInVars, loopVars, runVars>>
StreamRuns == part = "stream" /\ StreamNext
    /\ UNCHANGED <<part, taskVars, fileVars, terminalVars, mcpVars, mcpServersVars,
                   loadingVars, storeVars, signInVars, loopVars, runVars>>
StoreRuns == part = "store" /\ StoreNext
    /\ UNCHANGED <<part, taskVars, fileVars, terminalVars, mcpVars, mcpServersVars,
                   loadingVars, streamVars, signInVars, loopVars, runVars>>
SignInRuns == part = "signin" /\ SignInNext
    /\ UNCHANGED <<part, taskVars, fileVars, terminalVars, mcpVars, mcpServersVars,
                   loadingVars, streamVars, storeVars, loopVars, runVars>>
LoopRuns == part = "loop" /\ LoopNext
    /\ UNCHANGED <<part, taskVars, fileVars, terminalVars, mcpVars, mcpServersVars,
                   loadingVars, streamVars, storeVars, signInVars, runVars>>
ToolRuns == part = "run" /\ RunNext
    /\ UNCHANGED <<part, taskVars, fileVars, terminalVars, mcpVars, mcpServersVars,
                   loadingVars, streamVars, storeVars, signInVars, loopVars>>

ServicesNext == \/ TasksRun \/ FilesRun \/ TerminalRuns \/ McpRuns \/ LoadingRuns
                \/ StreamRuns \/ StoreRuns \/ SignInRuns \/ LoopRuns \/ ToolRuns
                \/ ServersRun

servicesVars == <<part, taskVars, fileVars, terminalVars, mcpVars, mcpServersVars, loadingVars,
                  streamVars, storeVars, signInVars, loopVars, runVars>>

ServicesSpec ==
    /\ ServicesInit /\ [][ServicesNext]_servicesVars
    /\ TasksFairness /\ TerminalFairness /\ LoadingFairness /\ RunFairness
===============================================================================
