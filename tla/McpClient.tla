----------------------------- MODULE McpClient -----------------------------
(***************************************************************************)
(* Calls to an MCP server and the connection they go through               *)
(* (crates/cli/src/mcp.rs).                                                *)
(*                                                                         *)
(* The official server follows the signed-in account: its connection       *)
(* carries the bearer that was stored when it was opened.  Other processes *)
(* and other requests sign in and out at any time.  The workspace lock     *)
(* lets one call go on at a time; the refreshes after /login, /logout and  *)
(* authenticate run next to it and to each other.  The server is external. *)
(***************************************************************************)
EXTENDS Naturals, FiniteSets

CONSTANTS
    Accounts,       \* tokens
    NoBearer,       \* signed out, or a connection without bearer
    Refreshers,     \* requests that call refresh_session_auth
    MaxChanges,     \* changes of the credentials
    MaxMcpCalls     \* calls

ASSUME McpAssumption ==
    /\ NoBearer \notin Accounts \cup Refreshers /\ "call" \notin Refreshers
    /\ {MaxChanges, MaxMcpCalls} \subseteq Nat

Bearers == Accounts \cup {NoBearer}

VARIABLES
    server,     \* "account" (follows the session), "http" or "stdio"
    bearer,     \* the stored token
    link,       \* the connection in ServerConn: [up, bearer]
    listed,     \* whether the server's tools are offered
    dials,      \* reconnects under way, of the call and of the refreshers
    mcpCall,    \* the call: [pc, bearer, ran, late]
    seen,       \* history variable: the tokens stored since the call began
    overtaken,  \* history variable: since then, a reconnect installed a bearer older than that
    changes,    \* changes of the credentials so far
    mcpCalls    \* calls so far

mcpVars == <<server, bearer, link, listed, dials, mcpCall, seen, overtaken, changes, mcpCalls>>

NoDial == [up |-> FALSE, bearer |-> NoBearer]
NoLink == [up |-> FALSE, bearer |-> NoBearer]
NoMcpCall == [pc |-> "idle", bearer |-> NoBearer, ran |-> 0, late |-> FALSE]

\* connect at startup: the server may be out of reach.
McpInit ==
    /\ server \in {"account", "http", "stdio"}
    /\ bearer = NoBearer
    /\ link \in {NoLink, [up |-> TRUE, bearer |-> NoBearer]}
    /\ listed = link.up
    /\ dials = [a \in Refreshers \cup {"call"} |-> NoDial]
    /\ mcpCall = NoMcpCall
    /\ seen = {}
    /\ overtaken = FALSE
    /\ changes = 0 /\ mcpCalls = 0

\* The credentials change: a sign-in, a sign-out, or a file that is half
\* written and reads as signed out.
CredentialsChange ==
    /\ changes < MaxChanges
    /\ changes' = changes + 1
    /\ bearer' \in Bearers \ {bearer}
    /\ seen' = seen \cup {bearer'}
    /\ UNCHANGED <<server, link, listed, dials, mcpCall, overtaken, mcpCalls>>

\* session_changed
SessionChanged == server = "account" /\ (~link.up \/ link.bearer # bearer)

-----------------------------------------------------------------------------
(* reconnect *)

\* session_token: a connection is opened with what is stored now.
Dial(a) ==
    dials' = [dials EXCEPT ![a] = [up |-> TRUE, bearer |-> IF server = "account" THEN bearer ELSE NoBearer]]

\* The connection failed: the old one carries a bearer that no longer matches
\* the account.
HangUp(a) ==
    /\ dials' = [dials EXCEPT ![a] = NoDial]
    /\ IF server = "account" THEN link' = NoLink /\ listed' = FALSE ELSE UNCHANGED <<link, listed>>
    /\ UNCHANGED overtaken

\* The new connection takes the place of whatever is there by now.
Install(a) ==
    /\ dials' = [dials EXCEPT ![a] = NoDial]
    /\ link' = dials[a]
    /\ listed' = TRUE
    /\ overtaken' = (overtaken \/ (server = "account" /\ dials[a].bearer \notin seen))

\* refresh_session_auth
Refresh(a) ==
    /\ ~dials[a].up /\ SessionChanged
    /\ Dial(a)
    /\ UNCHANGED <<server, bearer, link, listed, mcpCall, seen, overtaken, changes, mcpCalls>>

RefreshEnds(a) ==
    /\ dials[a].up
    /\ Install(a) \/ HangUp(a)
    /\ UNCHANGED <<server, bearer, mcpCall, seen, changes, mcpCalls>>

-----------------------------------------------------------------------------
(* call_server *)

CallPc(pc) == mcpCall' = [mcpCall EXCEPT !.pc = pc]

\* call_tool: the name is that of a tool some server lists.
CallTool ==
    /\ mcpCall.pc \in {"idle", "done"} /\ mcpCalls < MaxMcpCalls /\ listed
    /\ mcpCall' = [NoMcpCall EXCEPT !.pc = "check"]
    /\ seen' = {bearer} /\ overtaken' = FALSE
    /\ mcpCalls' = mcpCalls + 1
    /\ UNCHANGED <<server, bearer, link, listed, dials, changes>>

\* Mutant: the account is not looked at.
CheckNothing ==
    /\ mcpCall.pc = "check"
    /\ CallPc("read")
    /\ UNCHANGED <<server, bearer, link, listed, dials, seen, overtaken, changes, mcpCalls>>

\* The account changed since the connection was opened.
CheckSession ==
    /\ mcpCall.pc = "check"
    /\ IF SessionChanged
       THEN Dial("call") /\ CallPc("reconnect")
       ELSE CallPc("read") /\ UNCHANGED dials
    /\ UNCHANGED <<server, bearer, link, listed, seen, overtaken, changes, mcpCalls>>

Reconnected ==
    /\ mcpCall.pc = "reconnect"
    /\ \/ Install("call") /\ CallPc("read")
       \/ HangUp("call") /\ CallPc("done")
    /\ UNCHANGED <<server, bearer, seen, changes, mcpCalls>>

ReadLink ==
    /\ mcpCall.pc = "read"
    /\ mcpCall' = IF link.up THEN [mcpCall EXCEPT !.pc = "send", !.bearer = link.bearer]
                  ELSE [mcpCall EXCEPT !.pc = "done"]
    /\ UNCHANGED <<server, bearer, link, listed, dials, seen, overtaken, changes, mcpCalls>>

\* What the server did of a call that failed is not known.
Ran == {mcpCall.ran, mcpCall.ran + 1}

\* The first attempt: answered, or out of time.
CallAnswered ==
    /\ mcpCall.pc = "send"
    /\ \/ mcpCall' = [mcpCall EXCEPT !.pc = "done", !.ran = @ + 1]
       \/ \E n \in Ran : mcpCall' = [mcpCall EXCEPT !.pc = "done", !.ran = n, !.late = TRUE]
    /\ UNCHANGED <<server, bearer, link, listed, dials, seen, overtaken, changes, mcpCalls>>

\* It failed for another reason: a call over HTTP is tried once more, on a
\* new connection.
CallFails ==
    /\ mcpCall.pc = "send"
    /\ \E n \in Ran :
         IF server = "stdio"
         THEN mcpCall' = [mcpCall EXCEPT !.pc = "done", !.ran = n] /\ UNCHANGED dials
         ELSE mcpCall' = [mcpCall EXCEPT !.pc = "again", !.ran = n] /\ Dial("call")
    /\ UNCHANGED <<server, bearer, link, listed, seen, overtaken, changes, mcpCalls>>

ReconnectedAgain ==
    /\ mcpCall.pc = "again"
    /\ \/ Install("call") /\ mcpCall' = [mcpCall EXCEPT !.pc = "resend", !.bearer = dials["call"].bearer]
       \/ HangUp("call") /\ CallPc("done")
    /\ UNCHANGED <<server, bearer, seen, changes, mcpCalls>>

ResendEnds ==
    /\ mcpCall.pc = "resend"
    /\ \E n \in Ran : mcpCall' = [mcpCall EXCEPT !.pc = "done", !.ran = n]
    /\ UNCHANGED <<server, bearer, link, listed, dials, seen, overtaken, changes, mcpCalls>>

McpCallGoesOn == \/ CheckSession \/ Reconnected \/ ReadLink \/ CallAnswered \/ CallFails
                 \/ ReconnectedAgain \/ ResendEnds

McpNext == \/ CredentialsChange \/ CallTool \/ McpCallGoesOn
           \/ \E a \in Refreshers : Refresh(a) \/ RefreshEnds(a)

McpSpec == McpInit /\ [][McpNext]_mcpVars

-----------------------------------------------------------------------------
(* Properties *)

\* A call is made with a bearer that was the stored one at some moment since
\* it began, though accounts change while connections are opened: only a slow
\* reconnect that installs an older bearer during the call is excused.  And a
\* call that may have had its effect is made again only where the code means
\* it to be: once, over HTTP, and not when the time ran out.
BearerIsTheAccounts ==
    server = "account" /\ mcpCall.pc \in {"send", "resend"} /\ ~overtaken => mcpCall.bearer \in seen

RepeatedOnce == mcpCall.ran <= IF server = "stdio" \/ mcpCall.late THEN 1 ELSE 2

McpCallsAreSound == BearerIsTheAccounts /\ RepeatedOnce
=============================================================================
