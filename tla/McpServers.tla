----------------------------- MODULE McpServers -----------------------------
(***************************************************************************)
(* Which MCP servers there are, the names their tools have, and where a    *)
(* call goes (crates/cli/src/mcp.rs): the servers of the two mcp.toml      *)
(* files and the built-in ones, connected once, and those that a client    *)
(* brings with a session.  McpClient models the connection to one server.  *)
(*                                                                         *)
(* A name is a sequence of pieces.  "__" is the separator of tool names;   *)
(* "." stands for a character that tool names cannot have.  `who` is the   *)
(* server a definition really leads to.                                    *)
(***************************************************************************)
EXTENDS Selections, SequencesExt

CONSTANTS
    Words,          \* pieces of names, and the servers they lead to
    ConfigFiles,    \* pairs of mcp.toml: the global one, and the project's
    ClientLists,    \* mcpServers of a request: sequences of [name, who]
    ToolLists,      \* what a server may list: sequences of names
    McpSessions,
    MaxRelists      \* reconnects

Official == <<"sigit">>
Smbcloud == <<"smbcloud">>
Ascapi == <<"ascapi">>
BuiltIn == <<Official, Smbcloud, Ascapi>>
WhoOf == [n \in {Official, Smbcloud, Ascapi} |-> n[1]]

\* A name, and the server it leads to.
DefType == [name : Seq(Words), who : Words]

\* An entry of a file: valid if it has exactly one transport.
Entry == [name : Seq(Words), who : Words, enabled : BOOLEAN, valid : BOOLEAN]

\* What a file may be: one that does not parse is skipped whole.  `opt` holds
\* its switches for the built-in servers.
File == [parses : BOOLEAN, opt : [DOMAIN WhoOf -> {"unset", "on", "off"}], entries : Seq(Entry)]

ASSUME McpServersAssumption ==
    /\ {"_", "__", "sigit", "smbcloud", "ascapi", "web_search"} \subseteq Words
    /\ ConfigFiles \subseteq File \X File
    /\ ClientLists \subseteq Seq(DefType)
    /\ ToolLists \subseteq Seq(Seq(Words))
    /\ "none" \notin McpSessions
    /\ MaxRelists \in Nat

VARIABLES
    configs,    \* the two files
    onPath,     \* the built-in servers whose binary is installed
    startup,    \* MCP: the servers of this process, see Server; << >> until `ready`
    ready,      \* init has run
    brought,    \* each session's SessionServers
    liveMcp,    \* SESSION_SERVERS: the installed session, or "none"
    wrapped,    \* whether this turn offers web_search in place of the raw tool
    offered,    \* the MCP tools the turn offers the model: [full, who, remote]
    routed,     \* where the last call went
    relists     \* reconnects so far

mcpServersVars ==
    <<configs, onPath, startup, ready, brought, liveMcp, wrapped, offered, routed, relists>>

NoRoute == [full |-> << >>, who |-> "none", remote |-> << >>]

-----------------------------------------------------------------------------
(* Names *)

Sanitized(name) == [i \in DOMAIN name |-> IF name[i] = "." THEN "_" ELSE name[i]]

FullName(server, tool) == server \o <<"__">> \o Sanitized(tool)

Delegate == FullName(Official, <<"web_search">>)

-----------------------------------------------------------------------------
(* load_configs *)

Def(name, who) == [name |-> name, who |-> who]

Named(defs, name) == {i \in DOMAIN defs : defs[i].name = name}

\* upsert
Upsert(defs, def) ==
    IF Named(defs, def.name) = {} THEN Append(defs, def)
    ELSE [i \in DOMAIN defs |-> IF i \in Named(defs, def.name) THEN def ELSE defs[i]]

\* A disabled entry is passed over: it does not take one of the same name in
\* the other file away.
Usable(entry) == entry.enabled /\ entry.name # << >> /\ entry.valid

Entries(files) ==
    LET EntriesOf(file) == IF file.parses THEN file.entries ELSE << >>
        all == EntriesOf(files[1]) \o EntriesOf(files[2])
    IN  Picked(all, {i \in DOMAIN all : Usable(all[i])})

\* The servers after each of the entries.
Reading(entries) ==
    LET read[n \in 0..Len(entries)] ==
            IF n = 0 THEN << >>
            ELSE Upsert(read[n - 1], Def(Sanitized(entries[n].name), entries[n].who))
    IN  read

\* The last file that says so decides about a built-in server.
Included(files, name) ==
    LET says == {i \in DOMAIN files : files[i].parses /\ files[i].opt[name] # "unset"}
    IN  says # {} => files[Max(says)].opt[name] = "on"

LoadConfigs(files, installed) ==
    LET entries == Entries(files)
        read == Reading(entries)[Len(entries)]
        builtIn == [i \in DOMAIN BuiltIn |-> Def(BuiltIn[i], WhoOf[BuiltIn[i]])]
        Adds(name) == /\ Included(files, name) /\ Named(read, name) = {}
                      /\ name # Official => name \in installed
    IN  read \o Picked(builtIn, {i \in DOMAIN BuiltIn : Adds(BuiltIn[i])})

-----------------------------------------------------------------------------
(* Connections *)

\* A server, with the tools it listed; one that could not be reached lists none.
Server(def, tools) == [name |-> def.name, who |-> def.who, tools |-> tools]

Connected(defs) ==
    {[i \in DOMAIN defs |-> Server(defs[i], listing[i])] :
        listing \in [DOMAIN defs -> ToolLists \cup {<< >>}]}

\* Mutant: names are not compared.
NothingTaken(list, taken) == list

\* connect_session_servers: an entry without a name, or with one that a startup
\* server or an earlier entry has, is not connected.
Untaken(list, taken) ==
    Picked(list, {k \in DOMAIN list :
                     /\ list[k].name \notin taken \cup {<< >>}
                     /\ \A j \in 1..(k - 1) : list[j].name # list[k].name})

NamesOf(servers) == {servers[i].name : i \in DOMAIN servers}

-----------------------------------------------------------------------------
(* tool_specs and call_tool *)

LiveServers == startup \o (IF liveMcp = "none" THEN << >> ELSE brought[liveMcp])

ToolSpecs ==
    FlattenSeq([i \in DOMAIN LiveServers |->
        LET s == LiveServers[i]
        IN  [k \in DOMAIN s.tools |-> [full |-> FullName(s.name, s.tools[k]), who |-> s.who,
                                       remote |-> s.tools[k]]]])

Offers(specs, full) == \E i \in DOMAIN specs : specs[i].full = full

\* The first server that lists the name; NoRoute is an error the model reads.
Route(full) ==
    LET found == {i \in DOMAIN ToolSpecs : ToolSpecs[i].full = full}
    IN  IF found = {} THEN NoRoute ELSE ToolSpecs[Min(found)]

-----------------------------------------------------------------------------
ServersInit ==
    /\ configs \in ConfigFiles
    /\ onPath \in SUBSET {Smbcloud, Ascapi}
    /\ startup = << >> /\ ready = FALSE
    /\ brought = [s \in McpSessions |-> << >>]
    /\ liveMcp = "none"
    /\ wrapped = FALSE
    /\ offered = << >>
    /\ routed = NoRoute
    /\ relists = 0

\* init, once per process.  The interactive client takes prompts meanwhile; the
\* server of the protocol waits for it.
InitMcp ==
    /\ ~ready
    /\ ready' = TRUE
    /\ startup' \in Connected(LoadConfigs(configs, onPath))
    /\ routed' = NoRoute
    /\ UNCHANGED <<configs, onPath, brought, liveMcp, wrapped, offered, relists>>

\* A request opens, loads or forks the session; here once.  Another may be
\* installed.
ConnectSession(s) ==
    /\ ready
    /\ \E list \in ClientLists :
         LET clean == [i \in DOMAIN list |-> Def(Sanitized(list[i].name), list[i].who)]
         IN  brought' \in {[brought EXCEPT ![s] = servers] :
                              servers \in Connected(Untaken(clean, NamesOf(startup)))}
    /\ liveMcp # s /\ brought[s] = << >>
    /\ routed' = NoRoute
    /\ UNCHANGED <<configs, onPath, startup, ready, liveMcp, wrapped, offered, relists>>

\* install_session, between two turns; and close, which leaves none.
InstallServers(s) ==
    /\ liveMcp # s /\ ready
    /\ liveMcp' = s
    /\ wrapped' = FALSE /\ offered' = << >> /\ routed' = NoRoute
    /\ UNCHANGED <<configs, onPath, startup, ready, brought, relists>>

\* A turn begins: is the official server's web_search there?
CheckWebSearch ==
    /\ wrapped' = Offers(ToolSpecs, Delegate)
    /\ offered' = << >> /\ routed' = NoRoute
    /\ UNCHANGED <<configs, onPath, startup, ready, brought, liveMcp, relists>>

\* Then the list is read once more, for the tools of the turn.
OfferTools ==
    /\ offered = << >>
    /\ offered' = Picked(ToolSpecs, {i \in DOMAIN ToolSpecs :
                                       ~(wrapped /\ ToolSpecs[i].full = Delegate)})
    /\ UNCHANGED <<configs, onPath, startup, ready, brought, liveMcp, wrapped, routed, relists>>

\* A server is connected again, and lists what it has now.
Relist ==
    /\ relists < MaxRelists
    /\ relists' = relists + 1
    /\ \E tools \in ToolLists \cup {<< >>} :
         \/ \E i \in DOMAIN startup :
              /\ startup' = [startup EXCEPT ![i].tools = tools]
              /\ UNCHANGED brought
         \/ \E s \in McpSessions : \E i \in DOMAIN brought[s] :
              /\ brought' = [brought EXCEPT ![s][i].tools = tools]
              /\ UNCHANGED startup
    /\ routed' = NoRoute
    /\ UNCHANGED <<configs, onPath, ready, liveMcp, wrapped, offered>>

\* The model calls a tool it was offered; web_search is the delegate's.
RouteCall ==
    /\ \E full \in {offered[i].full : i \in DOMAIN offered}
                   \cup (IF wrapped THEN {Delegate} ELSE {}) : routed' = Route(full)
    /\ UNCHANGED <<configs, onPath, startup, ready, brought, liveMcp, wrapped, offered, relists>>

McpServersNext ==
    \/ InitMcp \/ CheckWebSearch \/ OfferTools \/ Relist \/ RouteCall
    \/ \E s \in McpSessions : ConnectSession(s)
    \/ \E s \in McpSessions \cup {"none"} : InstallServers(s)

McpServersSpec == ServersInit /\ [][McpServersNext]_mcpServersVars

-----------------------------------------------------------------------------
(* Properties *)

\* The definition a name stands for: that of the last usable entry with it, in
\* the project's file or else in the global one, and only without any the
\* built-in server, if it is wanted.
LastNamed(name) ==
    LET entries == Entries(configs)
        at == {i \in DOMAIN entries : Sanitized(entries[i].name) = name}
    IN  IF at # {} THEN entries[Max(at)].who ELSE WhoOf[name]

\* The servers of the process have one name each and lead where the
\* configuration says, whatever the two files repeat, disable or get wrong.
StartupIsConfigured ==
    \A i \in DOMAIN startup :
        /\ Cardinality(Named(startup, startup[i].name)) = 1
        /\ startup[i].who = LastNamed(startup[i].name)

\* A name that can be taken apart in one way only: no server's or tool's name
\* has the separator in it.
Plain(full) == Cardinality({i \in DOMAIN full : full[i] = "__"}) = 1

\* No two servers offer a turn the same name.
OfferedApart ==
    \A i, j \in DOMAIN offered :
        offered[i].full = offered[j].full /\ Plain(offered[i].full)
            => offered[i].who = offered[j].who

\* A call goes to the server that offered the tool to this session, or nowhere,
\* though other sessions bring servers and servers change their tools between
\* the offer and the call.
CallsReachTheirServer ==
    routed # NoRoute /\ Plain(routed.full) =>
        \/ \E i \in DOMAIN offered : offered[i].full = routed.full /\ offered[i].who = routed.who
        \/ wrapped /\ routed.full = Delegate

RoutesAreSound == StartupIsConfigured /\ OfferedApart /\ CallsReachTheirServer
=============================================================================
