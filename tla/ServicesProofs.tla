--------------------------- MODULE ServicesProofs ---------------------------
(***************************************************************************)
(* Proofs about the parts of siGit that share no state: the client's       *)
(* editor and terminal, the browser sign-in, the MCP client and its        *)
(* servers, the watch for commits, the session store and the loading of    *)
(* on-device models.  Each has a section.                                  *)
(***************************************************************************)
EXTENDS ClientFiles, ClientTerminal, SignIn, McpClient, McpServers, ToolRun, SessionStore,
        ModelLoading, SelectionProofs

-----------------------------------------------------------------------------
(***************************************************************************)
(* What the agent asks of programs that need not answer: the client's      *)
(* editor (TypedTextSurvives), its terminal (TerminalsAreReleased) and the *)
(* browser (PagesTellTheTruth), for any number of changes, edits and       *)
(* sign-ins.                                                               *)
(***************************************************************************)

-----------------------------------------------------------------------------
(* The editor.  The property is about the buffer; that it stays true when  *)
(* an edit writes the buffer needs it of the text the edit read, too.      *)

Holds(text) == \A n \in 1..typed : User(n) \in text

FilesInv ==
    /\ typed \in Nat /\ crossed \in BOOLEAN
    /\ ~crossed => Holds(buffer) /\ (edit.pc = "write" => Holds(edit.contents))

LEMMA FilesInitInv == FilesInit => FilesInv
<1> SUFFICES ASSUME FilesInit
             PROVE  FilesInv
  OBVIOUS
<1>1. typed \in Nat /\ crossed \in BOOLEAN
  BY DEF FilesInit
<1>2. Holds(buffer) /\ edit.pc # "write"
  BY DEF FilesInit, Holds, NoEdit
<1> QED
  BY <1>1, <1>2 DEF FilesInv

LEMMA FilesStep == FilesInv /\ [FilesNext]_fileVars => FilesInv'
<1> SUFFICES ASSUME FilesInv, [FilesNext]_fileVars
             PROVE  FilesInv'
  OBVIOUS
<1> USE DEF FilesInv
<1>1. CASE UserTypes
  <2>1. (typed' \in Nat /\ crossed' \in BOOLEAN)
    BY <1>1 DEF UserTypes, Cross
  <2>2. ASSUME ~crossed'
        PROVE  edit.pc = "idle" /\ Holds(buffer)'
    <3>1. ~crossed /\ edit.pc = "idle"
      BY <1>1, <2>2 DEF UserTypes, Cross
    <3>2. buffer' = buffer \cup {User(typed + 1)} /\ typed' = typed + 1
      BY <1>1 DEF UserTypes
    <3>3. \A n \in 1..(typed + 1) : n \in 1..typed \/ n = typed + 1
      OBVIOUS
    <3> QED
      BY <3>1, <3>2, <3>3 DEF Holds
  <2> QED
    BY <1>1, <2>1, <2>2 DEF UserTypes
<1>2. CASE UserSaves
  BY <1>2 DEF UserSaves, Holds
<1>3. CASE EditorWritesLate
  BY <1>3 DEF EditorWritesLate, Cross
<1>4. CASE ReadFile
  <2>1. CASE edit'.contents = buffer /\ UNCHANGED crossed
    BY <1>4, <2>1 DEF ReadFile, Holds
  <2>2. CASE edit'.contents = disk /\ Cross(buffer # disk)
    BY <1>4, <2>2 DEF ReadFile, Cross, Holds
  <2> QED
    BY <1>4, <2>1, <2>2 DEF ReadFile
<1>5. CASE EditDoesNotApply
  <2>1. edit'.pc # "write" /\ UNCHANGED <<buffer, typed, crossed>>
    BY <1>5 DEF EditDoesNotApply, NoEdit
  <2> QED
    BY <2>1 DEF Holds
<1>6. CASE WriteByEditor
  BY <1>6 DEF WriteByEditor, NoEdit, Holds, Updated
<1>7. CASE WriteOnDisk
  BY <1>7 DEF WriteOnDisk, NoEdit, Holds, Updated
<1>8. CASE UNCHANGED fileVars
  BY <1>8 DEF fileVars, Holds
<1> QED
  BY <1>1, <1>2, <1>3, <1>4, <1>5, <1>6, <1>7, <1>8 DEF FilesNext

\* Whatever the editor answers or leaves unanswered, an edit that nothing
\* crosses keeps every change the user typed.
THEOREM TypedTextIsKept == FilesSpec => []TypedTextSurvives
<1>1. FilesInv => TypedTextSurvives
  BY DEF FilesInv, Holds, TypedTextSurvives
<1> QED
  BY <1>1, FilesInitInv, FilesStep, PTL DEF FilesSpec

-----------------------------------------------------------------------------
(* The terminal.  What was started is known from where the call is, unless *)
(* the creation was given up: then it may still happen.                    *)

RunPCs == {"idle", "create", "wait", "kill", "read", "release", "local", "done"}

Outcomes == {"none", "local", "exited", "failed", "cancelled", "timeout"}

Closed == ~terminal.open /\ ~terminal.running

TerminalTypes ==
    /\ run \in [pc : RunPCs, outcome : Outcomes]
    /\ creation \in {"none", "sent", "created", "refused"}
    /\ terminal \in [open : BOOLEAN, running : BOOLEAN]
    /\ ran \in Nat

StartedOnce ==
    /\ run.pc = "idle" => creation = "none"
    /\ run.pc = "create" => creation \in {"sent", "created", "refused"}
    /\ run.pc \in {"idle", "create"} => IF creation = "created" THEN ran = 1 ELSE ran = 0 /\ Closed
    /\ run.pc \in {"wait", "kill", "read", "release"} => creation = "created" /\ ran = 1
    /\ run.pc \in {"local", "done"} /\ creation = "sent" => "create" \in silent
    /\ run.pc = "local" /\ "create" \notin silent => creation = "refused" /\ ran = 0 /\ Closed

TerminalInv == TerminalTypes /\ StartedOnce /\ TerminalsAreReleased

LEMMA TerminalInitInv == TerminalInit => TerminalInv
BY DEF TerminalInit, TerminalInv, TerminalTypes, RunPCs, Outcomes, StartedOnce, Closed,
       TerminalsAreReleased

\* The client's answer to a kill or a release.
LEMMA AskedOrSilent ==
    ASSUME TerminalTypes, run.pc \in {"kill", "release"}, Kill \/ Release
    PROVE  /\ terminal' \in [open : BOOLEAN, running : BOOLEAN] /\ silent \subseteq silent'
           /\ silent' \subseteq silent \cup {"kill", "release"}
           /\ Release /\ "release" \notin silent' => Closed'
<1> DEFINE Terminals == [open : BOOLEAN, running : BOOLEAN]
<1>1. Killed(terminal) \in Terminals /\ Released(terminal) \in Terminals
      /\ ~Released(terminal).open /\ ~Released(terminal).running
  BY DEF TerminalTypes, Killed, Released
<1>2. CASE Kill
  <2>1. run.pc = "kill"
        /\ \/ terminal' = Killed(terminal) /\ silent' \in {silent, silent \cup {"kill"}}
           \/ terminal' = terminal /\ silent' = silent \cup {"kill"}
    BY <1>2 DEF Kill, AskClient
  <2>2. ~Release
    BY <2>1 DEF Release
  <2> QED
    BY <1>1, <2>1, <2>2 DEF TerminalTypes
<1>3. CASE Release
  <2>1. \/ terminal' = Released(terminal) /\ silent' \in {silent, silent \cup {"release"}}
        \/ terminal' = terminal /\ silent' = silent \cup {"release"}
    BY <1>3 DEF Release, AskClient
  <2> QED
    BY <1>1, <2>1 DEF TerminalTypes, Closed
<1> QED
  BY <1>2, <1>3

LEMMA TerminalStep == TerminalInv /\ [TerminalNext]_terminalVars => TerminalInv'
<1> SUFFICES ASSUME TerminalInv, [TerminalNext]_terminalVars
             PROVE  TerminalInv'
  OBVIOUS
<1> USE DEF TerminalInv, TerminalTypes, RunPCs, Outcomes, StartedOnce, Closed, TerminalsAreReleased
<1>1. CASE StartInTerminal
  BY <1>1 DEF StartInTerminal, RunGoes
<1>2. CASE ClientCreates
  <2>1. creation = "sent" /\ UNCHANGED <<run, silent>>
    BY <1>2 DEF ClientCreates
  <2>2. CASE /\ creation' = "created" /\ ran' = ran + 1
             /\ terminal' = [open |-> TRUE, running |-> TRUE]
    BY <2>1, <2>2
  <2>3. CASE creation' = "refused" /\ UNCHANGED <<terminal, ran>>
    BY <2>1, <2>3
  <2> QED
    BY <1>2, <2>2, <2>3 DEF ClientCreates
<1>3. CASE CommandExits
  BY <1>3 DEF CommandExits
<1>4. CASE UserCancels
  BY <1>4 DEF UserCancels
<1>5. CASE WaitAnswered
  BY <1>5 DEF WaitAnswered, RunGoes
<1>6. CASE WaitFails
  BY <1>6 DEF WaitFails, RunGoes
<1>7. CASE TerminalCreated
  BY <1>7 DEF TerminalCreated, RunGoes
<1>8. CASE NotStarted
  BY <1>8 DEF NotStarted, RunGoes
<1>9. CASE RunsLocally
  BY <1>9 DEF RunsLocally, RunGoes
<1>10. CASE WaitEnds
  BY <1>10 DEF WaitEnds, RunGoes
<1>11. CASE Kill
  <2>1. run.pc = "kill" /\ run' = [pc |-> "read", outcome |-> run.outcome] /\ UNCHANGED <<creation, ran>>
    BY <1>11 DEF Kill, RunGoes
  <2> QED
    BY <1>11, <2>1, AskedOrSilent
<1>12. CASE ReadOutput
  BY <1>12 DEF ReadOutput, RunGoes
<1>13. CASE Release
  <2>1. run.pc = "release" /\ run' = [pc |-> "done", outcome |-> run.outcome] /\ UNCHANGED <<creation, ran>>
    BY <1>13 DEF Release, RunGoes
  <2> QED
    BY <1>13, <2>1, AskedOrSilent
<1>14. CASE UNCHANGED terminalVars
  BY <1>14 DEF terminalVars
<1> QED
  BY <1>1, <1>2, <1>3, <1>4, <1>5, <1>6, <1>7, <1>8, <1>9, <1>10, <1>11, <1>12, <1>13, <1>14
     DEF TerminalNext, TerminalCall

\* A command runs once, here or in the client's terminal, and no terminal is
\* left open, whichever requests the client refuses, answers late or not at all:
\* only a creation that was given up and a release that was not done are excused.
THEOREM TerminalsEnd == TerminalSpec => []TerminalsAreReleased
<1>1. TerminalInv => TerminalsAreReleased
  BY DEF TerminalInv
<1> QED
  BY <1>1, TerminalInitInv, TerminalStep, PTL DEF TerminalSpec

-----------------------------------------------------------------------------
(* The browser.  What makes the property inductive is where the listener   *)
(* is: a flow that has its code listens no more, so no later request on    *)
(* its port changes the page it was answered with.                         *)

FlowPCs == {"idle", "waits", "exchanges", "stores", "done", "failed"}

SignInTypes ==
    /\ flows \in [Flows -> FlowPCs]
    /\ consent \in [Flows -> {"no", "yes", "accepted", "declined"}]
    /\ thread \in [Flows -> {"none", "listens", "has_code", "ended"}]
    /\ pages \in [Flows -> {"none", "nothing", "cancelled", "not completed", "signed in"}]
    /\ ever \subseteq Flows

ListensUntilTheCode ==
    \A f \in Flows : flows[f] \in {"exchanges", "stores", "done"} => thread[f] # "listens"

DeclinedFails == \A f \in Flows : consent[f] = "declined" => flows[f] = "failed"

SignInInv == SignInTypes /\ ListensUntilTheCode /\ DeclinedFails /\ PagesTellTheTruth

LEMMA SignInInitInv == SignInInit => SignInInv
  BY DEF SignInInit, SignInInv, SignInTypes, FlowPCs, ListensUntilTheCode, DeclinedFails,
         PagesTellTheTruth

\* A step of one flow.
LEMMA FlowStep ==
    ASSUME SignInInv, NEW f \in Flows, FlowActs(f)
    PROVE  SignInInv'
<1> USE DEF SignInInv, SignInTypes, FlowPCs, ListensUntilTheCode, DeclinedFails,
            PagesTellTheTruth
<1>1. CASE BeginSignIn(f)
  <2>1. CASE FlowGoes(f, "failed") /\ UNCHANGED <<consent, thread>>
    BY <1>1, <2>1 DEF BeginSignIn, FlowGoes
  <2>2. CASE FlowGoes(f, "waits") /\ thread' = [thread EXCEPT ![f] = "listens"]
    <3>1. PICK asking \in {"no", "yes"} : consent' = [consent EXCEPT ![f] = asking]
      BY <1>1, <2>2 DEF BeginSignIn, FlowGoes
    <3> QED
      BY <1>1, <2>2, <3>1 DEF BeginSignIn, FlowGoes
  <2> QED
    BY <1>1, <2>1, <2>2 DEF BeginSignIn
<1>2. CASE ClientAnswers(f)
  <2>1. CASE consent' = [consent EXCEPT ![f] = "accepted"] /\ UNCHANGED flows
    BY <1>2, <2>1 DEF ClientAnswers
  <2>2. CASE consent' = [consent EXCEPT ![f] = "declined"] /\ FlowGoes(f, "failed")
    BY <1>2, <2>2 DEF ClientAnswers, FlowGoes
  <2> QED
    BY <1>2, <2>1, <2>2 DEF ClientAnswers
<1>3. CASE CancelSignIn(f)
  BY <1>3 DEF CancelSignIn, FlowGoes
<1>4. CASE BrowserCallsBack(f)
  <2>1. CASE thread' = [thread EXCEPT ![f] = "has_code"] /\ UNCHANGED pages
    BY <1>4, <2>1 DEF BrowserCallsBack
  <2>2. CASE /\ thread' = [thread EXCEPT ![f] = "ended"]
             /\ pages' = [pages EXCEPT ![f] = "cancelled"]
    BY <1>4, <2>2 DEF BrowserCallsBack
  <2>3. CASE thread' = thread /\ pages' = [pages EXCEPT ![f] = "nothing"]
    <3>1. UNCHANGED <<flows, consent, ever>> /\ f \notin ever
      BY <1>4 DEF BrowserCallsBack
    <3> QED
      BY <2>3, <3>1
  <2> QED
    BY <1>4, <2>1, <2>2, <2>3 DEF BrowserCallsBack
<1>5. CASE ListenerGivesUp(f)
  BY <1>5 DEF ListenerGivesUp
<1>6. CASE CodeArrives(f)
  BY <1>6 DEF CodeArrives, FlowGoes
<1>7. CASE Exchange(f)
  <2>1. CASE valid' = valid \cup {f} /\ FlowGoes(f, "stores") /\ UNCHANGED pages
    BY <1>7, <2>1 DEF Exchange, FlowGoes
  <2>2. CASE valid' = valid /\ FlowGoes(f, "failed") /\ Shows(f, "not completed")
    BY <1>7, <2>2 DEF Exchange, FlowGoes, Shows
  <2> QED
    BY <1>7, <2>1, <2>2 DEF Exchange
<1>8. CASE StoreToken(f)
  <2>1. CASE /\ stored' = f /\ ever' = ever \cup {f}
             /\ FlowGoes(f, "done") /\ Shows(f, "signed in")
    BY <1>8, <2>1 DEF StoreToken, FlowGoes, Shows
  <2>2. CASE /\ UNCHANGED <<stored, ever>>
             /\ FlowGoes(f, "failed") /\ Shows(f, "not completed")
    BY <1>8, <2>2 DEF StoreToken, FlowGoes, Shows
  <2> QED
    BY <1>8, <2>1, <2>2 DEF StoreToken
<1> QED
  BY <1>1, <1>2, <1>3, <1>4, <1>5, <1>6, <1>7, <1>8 DEF FlowActs

LEMMA SignInStep == SignInInv /\ [SignInNext]_signInVars => SignInInv'
<1> SUFFICES ASSUME SignInInv, [SignInNext]_signInVars
             PROVE  SignInInv'
  OBVIOUS
<1>1. ASSUME UNCHANGED <<flows, consent, thread, pages, ever>>
      PROVE  SignInInv'
  BY <1>1 DEF SignInInv, SignInTypes, ListensUntilTheCode, DeclinedFails, PagesTellTheTruth
<1>2. CASE BeginSignOut \/ EndSignOut \/ UNCHANGED signInVars
  BY <1>1, <1>2 DEF BeginSignOut, EndSignOut, signInVars
<1> QED
  BY <1>2, FlowStep DEF SignInNext

\* The browser's page and the client's answer never contradict what happened to
\* the credentials, for any number of sign-ins that cross.
THEOREM PagesAreTrue == SignInSpec => []PagesTellTheTruth
<1>1. SignInInv => PagesTellTheTruth
  BY DEF SignInInv
<1> QED
  BY <1>1, SignInInitInv, SignInStep, PTL DEF SignInSpec

-----------------------------------------------------------------------------
(***************************************************************************)
(* McpCallsAreSound for any accounts, refreshers, changes and calls.  The  *)
(* bearer of a call is followed from where it was read: into a connection  *)
(* that is being opened, into the link, and out of it into the call.       *)
(***************************************************************************)

CallPCs == {"idle", "check", "reconnect", "read", "send", "again", "resend", "done"}

Connection == [up : BOOLEAN, bearer : Bearers]

Calls == [pc : CallPCs, bearer : Bearers, ran : Nat, late : BOOLEAN]

McpTypes ==
    /\ server \in {"account", "http", "stdio"}
    /\ bearer \in Bearers
    /\ link \in Connection
    /\ dials \in [Refreshers \cup {"call"} -> Connection]
    /\ mcpCall \in Calls
    /\ overtaken \in BOOLEAN

\* Where the call stands, its bearer was stored since it began.
InCall == mcpCall.pc \notin {"idle", "done"}

BearersAreFresh ==
    /\ InCall => bearer \in seen
    /\ server = "account" =>
         /\ mcpCall.pc \in {"reconnect", "again"} => dials["call"].bearer \in seen
         /\ mcpCall.pc = "read" /\ link.up /\ ~overtaken => link.bearer \in seen
         /\ mcpCall.pc \in {"send", "resend"} /\ ~overtaken => mcpCall.bearer \in seen

\* How often the server may have run the call by then.
RunsSoFar ==
    /\ mcpCall.pc \in {"check", "reconnect", "read", "send"} => mcpCall.ran = 0 /\ ~mcpCall.late
    /\ mcpCall.pc \in {"again", "resend"} => mcpCall.ran <= 1 /\ ~mcpCall.late /\ server # "stdio"

McpInv == McpTypes /\ BearersAreFresh /\ RunsSoFar /\ RepeatedOnce

\* The ways a step rewrites the call.
LEMMA CallPcRewritten ==
    ASSUME mcpCall \in Calls, NEW pc \in CallPCs, mcpCall' = [mcpCall EXCEPT !.pc = pc]
    PROVE  mcpCall' \in Calls /\ mcpCall'.pc = pc /\ mcpCall'.ran = mcpCall.ran
           /\ mcpCall'.late = mcpCall.late
BY DEF Calls

LEMMA BearerRewritten ==
    ASSUME mcpCall \in Calls, NEW pc \in CallPCs, NEW b \in Bearers,
           mcpCall' = [mcpCall EXCEPT !.pc = pc, !.bearer = b]
    PROVE  mcpCall' \in Calls /\ mcpCall'.pc = pc /\ mcpCall'.bearer = b
           /\ mcpCall'.ran = mcpCall.ran /\ mcpCall'.late = mcpCall.late
BY DEF Calls

LEMMA RanRewritten ==
    ASSUME mcpCall \in Calls, NEW pc \in CallPCs, NEW n \in Nat,
           mcpCall' = [mcpCall EXCEPT !.pc = pc, !.ran = n]
    PROVE  mcpCall' \in Calls /\ mcpCall'.pc = pc /\ mcpCall'.ran = n
           /\ mcpCall'.late = mcpCall.late
BY DEF Calls

LEMMA LateRewritten ==
    ASSUME mcpCall \in Calls, NEW pc \in CallPCs, NEW n \in Nat,
           mcpCall' = [mcpCall EXCEPT !.pc = pc, !.ran = n, !.late = TRUE]
    PROVE  mcpCall' \in Calls /\ mcpCall'.pc = pc /\ mcpCall'.ran = n
BY DEF Calls

LEMMA McpInitInv == McpInit => McpInv
<1> SUFFICES ASSUME McpInit
             PROVE  McpInv
  OBVIOUS
<1>1. mcpCall.pc = "idle" /\ mcpCall.ran = 0 /\ mcpCall.late = FALSE
  BY DEF McpInit, NoMcpCall
<1>2. NoLink \in Connection /\ NoMcpCall \in Calls
  BY DEF NoLink, NoMcpCall, Connection, CallPCs, Calls, Bearers
<1>3. McpTypes
  <2>1. link \in Connection
    <3>1. [up |-> TRUE, bearer |-> NoBearer] \in Connection
      BY DEF Connection, Bearers
    <3> QED
      BY <1>2, <3>1 DEF McpInit
  <2>2. dials \in [Refreshers \cup {"call"} -> Connection]
    BY <1>2 DEF McpInit, NoDial, NoLink
  <2> QED
    BY <1>2, <2>1, <2>2 DEF McpInit, McpTypes, Bearers
<1> QED
  BY <1>1, <1>3 DEF McpInv, BearersAreFresh, InCall, RunsSoFar, RepeatedOnce

\* The connection a dial leads to.
LEMMA Dials ==
    ASSUME McpTypes, NEW a \in Refreshers \cup {"call"}, Dial(a)
    PROVE  /\ dials' \in [Refreshers \cup {"call"} -> Connection]
           /\ \A b \in (Refreshers \cup {"call"}) \ {a} : dials'[b] = dials[b]
           /\ server = "account" => dials'[a].bearer = bearer
<1> DEFINE new == [up |-> TRUE, bearer |-> IF server = "account" THEN bearer ELSE NoBearer]
<1>1. new \in Connection /\ (server = "account" => new.bearer = bearer)
  BY DEF McpTypes, Connection, Bearers
<1>2. dials' = [dials EXCEPT ![a] = new]
  BY DEF Dial
<1> HIDE DEF new
<1> QED
  BY <1>1, <1>2 DEF McpTypes

\* What is installed, or hung up, was being opened.
LEMMA Connects ==
    ASSUME McpTypes, NEW a \in Refreshers \cup {"call"}, Install(a) \/ HangUp(a)
    PROVE  /\ dials' \in [Refreshers \cup {"call"} -> Connection]
           /\ \A b \in (Refreshers \cup {"call"}) \ {a} : dials'[b] = dials[b]
           /\ link' \in Connection /\ overtaken' \in BOOLEAN
           /\ overtaken => overtaken'
           /\ server = "account" /\ link'.up /\ ~overtaken' =>
                link' = dials[a] /\ link'.bearer \in seen
<1>1. NoDial \in Connection /\ NoLink \in Connection /\ ~NoLink.up
  BY DEF NoDial, NoLink, Connection, Bearers
<1>2. CASE Install(a)
  BY <1>1, <1>2 DEF Install, McpTypes
<1>3. CASE HangUp(a)
  BY <1>1, <1>3 DEF HangUp, McpTypes
<1> QED
  BY <1>2, <1>3

LEMMA RefreshStep ==
    ASSUME McpInv, NEW a \in Refreshers, Refresh(a) \/ RefreshEnds(a)
    PROVE  McpInv'
<1> USE DEF McpInv
<1>1. a # "call"
  BY McpAssumption DEF McpAssumption
<1>2. UNCHANGED <<server, bearer, mcpCall, seen>>
  BY DEF Refresh, RefreshEnds
<1>3. McpTypes'
  BY <1>2, Dials, Connects DEF Refresh, RefreshEnds, McpTypes
<1>4. dials'["call"] = dials["call"]
  BY <1>1, Dials, Connects DEF Refresh, RefreshEnds
<1>5. /\ overtaken => overtaken'
      /\ server = "account" /\ link'.up /\ ~overtaken' => link'.bearer \in seen \/ link' = link
  BY Connects DEF Refresh, RefreshEnds
<1>6. BearersAreFresh'
  BY <1>2, <1>3, <1>4, <1>5 DEF BearersAreFresh, InCall, McpTypes
<1>7. (RunsSoFar /\ RepeatedOnce)'
  BY <1>2 DEF RunsSoFar, RepeatedOnce
<1> QED
  BY <1>3, <1>6, <1>7

\* A step of the call itself.  It leaves the credentials alone.
LEMMA CallStep ==
    ASSUME McpInv, McpCallGoesOn
    PROVE  McpInv'
<1> USE DEF McpInv
<1>1. UNCHANGED <<server, bearer, seen>> /\ server \in {"account", "http", "stdio"}
      /\ bearer \in Bearers /\ mcpCall \in Calls /\ overtaken \in BOOLEAN
      /\ link \in Connection /\ dials \in [Refreshers \cup {"call"} -> Connection]
  BY DEF McpCallGoesOn, CheckSession, Reconnected, ReadLink, CallAnswered, CallFails,
         ReconnectedAgain, ResendEnds, McpTypes
<1>2. CASE CheckSession
  <2>1. mcpCall' \in Calls /\ mcpCall'.ran = mcpCall.ran /\ mcpCall'.late = mcpCall.late
        /\ mcpCall.pc = "check" /\ mcpCall'.pc \in {"reconnect", "read"}
        /\ UNCHANGED <<link, overtaken>>
    BY <1>1, <1>2 DEF CheckSession, CallPc, CallPCs, Calls
  <2>2. CASE SessionChanged
    <3>1. mcpCall'.pc = "reconnect" /\ Dial("call")
      <4>1. mcpCall' = [mcpCall EXCEPT !.pc = "reconnect"] /\ Dial("call")
        BY <1>2, <2>2 DEF CheckSession, CallPc
      <4> QED
        BY <1>1, <4>1, CallPcRewritten DEF CallPCs
    <3>2. McpTypes'
      BY <1>1, <2>1, <3>1, Dials DEF McpTypes
    <3>3. server = "account" => dials'["call"].bearer = bearer
      BY <3>1, Dials
    <3> QED
      BY <1>1, <2>1, <3>1, <3>2, <3>3 DEF BearersAreFresh, InCall, RunsSoFar, RepeatedOnce, Calls
  <2>3. CASE ~SessionChanged
    <3>1. mcpCall'.pc = "read" /\ UNCHANGED dials
      <4>1. mcpCall' = [mcpCall EXCEPT !.pc = "read"] /\ UNCHANGED dials
        BY <1>2, <2>3 DEF CheckSession, CallPc
      <4> QED
        BY <1>1, <4>1, CallPcRewritten DEF CallPCs
    <3>2. server = "account" => link.bearer = bearer
      BY <2>3 DEF SessionChanged
    <3>3. McpTypes'
      BY <1>1, <2>1, <3>1 DEF McpTypes
    <3> QED
      BY <1>1, <2>1, <3>1, <3>2, <3>3 DEF BearersAreFresh, InCall, RunsSoFar, RepeatedOnce, Calls
  <2> QED
    BY <2>2, <2>3
<1>3. CASE Reconnected
  <2>1. mcpCall' \in Calls /\ mcpCall'.ran = mcpCall.ran /\ mcpCall'.late = mcpCall.late
        /\ mcpCall.pc = "reconnect" /\ mcpCall'.pc \in {"read", "done"}
        /\ (Install("call") \/ HangUp("call"))
    BY <1>1, <1>3 DEF Reconnected, CallPc, CallPCs, Calls
  <2>2. McpTypes'
    BY <1>1, <2>1, Connects DEF McpTypes
  <2>3. server = "account" /\ link'.up /\ ~overtaken' => link'.bearer \in seen
    BY <1>1, <2>1, Connects
  <2> QED
    BY <1>1, <2>1, <2>2, <2>3 DEF BearersAreFresh, InCall, RunsSoFar, RepeatedOnce, Calls
<1>4. CASE ReadLink
  <2>1. /\ mcpCall.pc = "read" /\ UNCHANGED <<link, dials, overtaken>>
        /\ \/ link.up /\ mcpCall' = [mcpCall EXCEPT !.pc = "send", !.bearer = link.bearer]
           \/ mcpCall' = [mcpCall EXCEPT !.pc = "done"]
    BY <1>4 DEF ReadLink
  <2>2. link.bearer \in Bearers
    BY <1>1 DEF Connection
  <2>3. mcpCall' \in Calls /\ mcpCall'.ran = mcpCall.ran /\ mcpCall'.late = mcpCall.late
        /\ mcpCall'.pc \in {"send", "done"}
        /\ (mcpCall'.pc = "send" => link.up /\ mcpCall'.bearer = link.bearer)
    <3>1. "send" \in CallPCs /\ "done" \in CallPCs
      BY DEF CallPCs
    <3>2. CASE link.up /\ mcpCall' = [mcpCall EXCEPT !.pc = "send", !.bearer = link.bearer]
      BY <1>1, <2>2, <3>1, <3>2, BearerRewritten
    <3>3. CASE mcpCall' = [mcpCall EXCEPT !.pc = "done"]
      BY <1>1, <3>1, <3>3, CallPcRewritten
    <3> QED
      BY <2>1, <3>2, <3>3
  <2>4. McpTypes'
    BY <1>1, <2>1, <2>3 DEF McpTypes
  <2> QED
    BY <1>1, <2>1, <2>3, <2>4 DEF BearersAreFresh, InCall, RunsSoFar, RepeatedOnce, Calls
<1>5. CASE CallAnswered
  <2>1. /\ mcpCall.pc = "send" /\ UNCHANGED <<link, dials, overtaken>>
        /\ \E n \in {mcpCall.ran, mcpCall.ran + 1} :
             \/ mcpCall' = [mcpCall EXCEPT !.pc = "done", !.ran = n]
             \/ mcpCall' = [mcpCall EXCEPT !.pc = "done", !.ran = n, !.late = TRUE]
    BY <1>5 DEF CallAnswered, Ran
  <2>2. mcpCall.ran = 0
    BY <2>1 DEF RunsSoFar
  <2>3. PICK n \in {0, 1} :
             \/ mcpCall' = [mcpCall EXCEPT !.pc = "done", !.ran = n]
             \/ mcpCall' = [mcpCall EXCEPT !.pc = "done", !.ran = n, !.late = TRUE]
    BY <2>1, <2>2, 0 + 1 = 1
  <2>4. mcpCall' \in Calls /\ mcpCall'.ran <= 1 /\ mcpCall'.pc = "done"
    <3>1. "done" \in CallPCs /\ n \in Nat /\ n <= 1
      BY DEF CallPCs, Calls
    <3>2. CASE mcpCall' = [mcpCall EXCEPT !.pc = "done", !.ran = n]
      BY <1>1, <3>1, <3>2, RanRewritten
    <3>3. CASE mcpCall' = [mcpCall EXCEPT !.pc = "done", !.ran = n, !.late = TRUE]
      BY <1>1, <3>1, <3>3, LateRewritten
    <3> QED
      BY <2>3, <3>2, <3>3
  <2>5. McpTypes'
    BY <1>1, <2>1, <2>4 DEF McpTypes
  <2> QED
    BY <1>1, <2>1, <2>4, <2>5 DEF BearersAreFresh, InCall, RunsSoFar, RepeatedOnce, Calls
<1>6. CASE CallFails
  <2>1. /\ mcpCall.pc = "send" /\ UNCHANGED <<link, overtaken>>
        /\ \E n \in {mcpCall.ran, mcpCall.ran + 1} :
             \/ /\ mcpCall' = [mcpCall EXCEPT !.pc = "done", !.ran = n]
                /\ UNCHANGED dials
             \/ /\ server # "stdio" /\ mcpCall' = [mcpCall EXCEPT !.pc = "again", !.ran = n]
                /\ Dial("call")
    BY <1>6 DEF CallFails, Ran
  <2>2. mcpCall.ran = 0 /\ ~mcpCall.late
    BY <2>1 DEF RunsSoFar
  <2>3. mcpCall' \in Calls /\ mcpCall'.ran <= 1 /\ mcpCall'.late = mcpCall.late
        /\ \/ mcpCall'.pc = "done" /\ UNCHANGED dials
           \/ mcpCall'.pc = "again" /\ server # "stdio" /\ Dial("call")
    <3>1. PICK n \in {mcpCall.ran, mcpCall.ran + 1} :
             \/ /\ mcpCall' = [mcpCall EXCEPT !.pc = "done", !.ran = n]
                /\ UNCHANGED dials
             \/ /\ server # "stdio" /\ mcpCall' = [mcpCall EXCEPT !.pc = "again", !.ran = n]
                /\ Dial("call")
      BY <2>1
    <3>2. n \in Nat /\ n <= 1 /\ "done" \in CallPCs /\ "again" \in CallPCs
      BY <2>2 DEF CallPCs
    <3>3. CASE mcpCall' = [mcpCall EXCEPT !.pc = "done", !.ran = n] /\ UNCHANGED dials
      BY <1>1, <3>2, <3>3, RanRewritten
    <3>4. CASE server # "stdio" /\ mcpCall' = [mcpCall EXCEPT !.pc = "again", !.ran = n] /\ Dial("call")
      BY <1>1, <3>2, <3>4, RanRewritten
    <3> QED
      BY <3>1, <3>3, <3>4
  <2>4. McpTypes'
    BY <1>1, <2>1, <2>3, Dials DEF McpTypes
  <2>5. mcpCall'.pc = "again" /\ server = "account" => dials'["call"].bearer = bearer
    BY <2>3, Dials
  <2> QED
    BY <1>1, <2>1, <2>2, <2>3, <2>4, <2>5 DEF BearersAreFresh, InCall, RunsSoFar, RepeatedOnce, Calls
<1>7. CASE ReconnectedAgain
  <2>1. /\ mcpCall.pc = "again"
        /\ \/ Install("call")
              /\ mcpCall' = [mcpCall EXCEPT !.pc = "resend", !.bearer = dials["call"].bearer]
           \/ HangUp("call") /\ mcpCall' = [mcpCall EXCEPT !.pc = "done"]
    BY <1>7 DEF ReconnectedAgain, CallPc
  <2>2. dials["call"].bearer \in Bearers
    BY <1>1 DEF Connection
  <2>3. mcpCall' \in Calls /\ mcpCall'.ran = mcpCall.ran /\ mcpCall'.late = mcpCall.late
        /\ \/ mcpCall'.pc = "resend" /\ mcpCall'.bearer = dials["call"].bearer
           \/ mcpCall'.pc = "done"
    BY <1>1, <2>1, <2>2 DEF CallPCs, Calls
  <2>4. McpTypes'
    BY <1>1, <2>1, <2>3, Connects DEF McpTypes
  <2> QED
    BY <1>1, <2>1, <2>3, <2>4 DEF BearersAreFresh, InCall, RunsSoFar, RepeatedOnce, Calls
<1>8. CASE ResendEnds
  <2>1. /\ mcpCall.pc = "resend" /\ UNCHANGED <<link, dials, overtaken>>
        /\ \E n \in {mcpCall.ran, mcpCall.ran + 1} :
             mcpCall' = [mcpCall EXCEPT !.pc = "done", !.ran = n]
    BY <1>8 DEF ResendEnds, Ran
  <2>2. mcpCall.ran <= 1 /\ ~mcpCall.late /\ server # "stdio" /\ mcpCall.ran \in Nat
    BY <1>1, <2>1 DEF RunsSoFar, Calls
  <2>3. mcpCall' \in Calls /\ mcpCall'.ran <= 2 /\ mcpCall'.late = mcpCall.late
        /\ mcpCall'.pc = "done"
    <3>1. PICK n \in {mcpCall.ran, mcpCall.ran + 1} :
             mcpCall' = [mcpCall EXCEPT !.pc = "done", !.ran = n]
      BY <2>1
    <3>2. n \in Nat /\ n <= 2 /\ "done" \in CallPCs
      BY <2>2 DEF CallPCs
    <3> QED
      BY <1>1, <3>1, <3>2, RanRewritten
  <2>4. McpTypes'
    BY <1>1, <2>1, <2>3 DEF McpTypes
  <2> QED
    BY <1>1, <2>1, <2>2, <2>3, <2>4 DEF BearersAreFresh, InCall, RunsSoFar, RepeatedOnce, Calls
<1> QED
  BY <1>2, <1>3, <1>4, <1>5, <1>6, <1>7, <1>8 DEF McpCallGoesOn

LEMMA McpStep == McpInv /\ [McpNext]_mcpVars => McpInv'
<1> SUFFICES ASSUME McpInv, [McpNext]_mcpVars
             PROVE  McpInv'
  OBVIOUS
<1> USE DEF McpInv
<1>1. CASE CredentialsChange
  BY <1>1 DEF CredentialsChange, McpTypes, BearersAreFresh, InCall, RunsSoFar, RepeatedOnce, Calls
<1>2. CASE CallTool
  <2>1. mcpCall' = [NoMcpCall EXCEPT !.pc = "check"]
        /\ UNCHANGED <<server, bearer, link, dials>> /\ seen' = {bearer} /\ overtaken' = FALSE
    BY <1>2 DEF CallTool
  <2>2. mcpCall' = [pc |-> "check", bearer |-> NoBearer, ran |-> 0, late |-> FALSE]
    BY <2>1 DEF NoMcpCall
  <2>3. mcpCall' \in Calls
    BY <2>2 DEF CallPCs, Calls, Bearers
  <2>4. McpTypes'
    BY <2>1, <2>3 DEF McpTypes
  <2> QED
    BY <2>1, <2>2, <2>4 DEF BearersAreFresh, InCall, RunsSoFar, RepeatedOnce, Calls
<1>3. CASE UNCHANGED mcpVars
  BY <1>3 DEF mcpVars, McpTypes, BearersAreFresh, InCall, RunsSoFar, RepeatedOnce, Calls
<1> QED
  BY <1>1, <1>2, <1>3, RefreshStep, CallStep DEF McpNext

\* A call carries a token that was stored since it began, and is never repeated
\* but where the code means it to be.
THEOREM CallsAreSound == McpSpec => []McpCallsAreSound
<1>1. McpInv => McpCallsAreSound
  BY DEF McpInv, McpCallsAreSound, BearerIsTheAccounts, BearersAreFresh
<1> QED
  BY <1>1, McpInitInv, McpStep, PTL DEF McpSpec

-----------------------------------------------------------------------------
(***************************************************************************)
(* RoutesAreSound for any files, lists of servers and lists of tools.  No  *)
(* two live servers have one name, and a name that can be taken apart in   *)
(* one way only names one server: what a server offered, no other answers. *)
(***************************************************************************)

ServerType == [name : Seq(Words), who : Words, tools : Seq(Seq(Words))]

SpecType == [full : Seq(Words), who : Words, remote : Seq(Words)]

Apart(servers) ==
    \A i, j \in DOMAIN servers : servers[i].name = servers[j].name => i = j

Answers(s, spec) == \E tool \in Seq(Words) : spec.full = FullName(s.name, tool) /\ spec.who = s.who

ServersTypes ==
    /\ configs \in File \X File
    /\ startup \in Seq(ServerType)
    /\ brought \in [McpSessions -> Seq(ServerType)]
    /\ liveMcp \in McpSessions \cup {"none"}
    /\ offered \in Seq(SpecType)

ServersApart == \A s \in McpSessions : Apart(startup \o brought[s])

Configured == \A i \in DOMAIN startup : startup[i].who = LastNamed(startup[i].name)

OfferedByLive ==
    \A k \in DOMAIN offered : \E i \in DOMAIN LiveServers : Answers(LiveServers[i], offered[k])

NothingYet ==
    ~ready => /\ startup = << >> /\ offered = << >> /\ wrapped = FALSE
              /\ brought = [s \in McpSessions |-> << >>] /\ liveMcp = "none"

ServersInv ==
    /\ ServersTypes /\ ServersApart /\ Apart(startup) /\ Configured
    /\ OfferedByLive /\ NothingYet /\ CallsReachTheirServer

-----------------------------------------------------------------------------
(* Sequences in one *)

LEMMA FlattensStepwise ==
    ASSUME NEW seqs, NEW n \in Nat
    PROVE  \E f : f = [i \in 1..n |-> IF i = 1 THEN seqs[i] ELSE f[i - 1] \o seqs[i]]
<1> DEFINE Exists(m) == \E f : f = [i \in 1..m |-> IF i = 1 THEN seqs[i] ELSE f[i - 1] \o seqs[i]]
           bad == {m \in Nat : ~Exists(m)}
<1> SUFFICES ASSUME ~Exists(n)
             PROVE  FALSE
  OBVIOUS
<1>1. bad \subseteq Nat /\ bad # {}
  OBVIOUS
<1>2. PICK m \in bad : \A k \in bad : m <= k
  BY <1>1, SmallestExists
<1>3. CASE m = 0
  <2> DEFINE f == [i \in 1..0 |-> << >>]
  <2>1. f = [i \in 1..0 |-> IF i = 1 THEN seqs[i] ELSE f[i - 1] \o seqs[i]]
    OBVIOUS
  <2>2. Exists(0)
    BY <2>1
  <2> QED
    BY <1>2, <1>3, <2>2
<1>4. CASE m # 0
  <2> HIDE DEF bad
  <2>0. m \in Nat /\ m - 1 \in Nat
    BY <1>1, <1>2, <1>4
  <2>1. m - 1 \notin bad /\ m \in Nat /\ m - 1 \in Nat
    BY <1>2, <2>0
  <2> USE DEF bad
  <2>2. PICK f : f = [i \in 1..(m - 1) |-> IF i = 1 THEN seqs[i] ELSE f[i - 1] \o seqs[i]]
    BY <2>1
  <2> DEFINE g == [i \in 1..m |-> IF i # m THEN f[i] ELSE IF m = 1 THEN seqs[m]
                                                         ELSE f[m - 1] \o seqs[m]]
  <2>3. \A i \in 1..m : i # m => g[i] = IF i = 1 THEN seqs[i] ELSE g[i - 1] \o seqs[i]
    <3> TAKE i \in 1..m
    <3> HAVE i # m
    <3>1. i \in 1..(m - 1) /\ g[i] = f[i]
      BY <2>1
    <3>2. f[i] = IF i = 1 THEN seqs[i] ELSE f[i - 1] \o seqs[i]
      BY <2>2, <3>1
    <3>3. i # 1 => i - 1 \in 1..m /\ i - 1 # m /\ g[i - 1] = f[i - 1]
      BY <2>1
    <3> QED
      BY <3>1, <3>2, <3>3
  <2>4. g[m] = IF m = 1 THEN seqs[m] ELSE g[m - 1] \o seqs[m]
    <3>1. m # 1 => m - 1 \in 1..m /\ m - 1 # m /\ g[m - 1] = f[m - 1]
      BY <2>1, <1>4
    <3>2. m \in 1..m
      BY <2>1, <1>4
    <3> QED
      BY <3>1, <3>2
  <2>5. \A i \in 1..m : g[i] = IF i = 1 THEN seqs[i] ELSE g[i - 1] \o seqs[i]
    BY <2>3, <2>4
  <2>6. g = [i \in 1..m |-> g[i]]
    OBVIOUS
  <2> HIDE DEF g
  <2>7. g = [i \in 1..m |-> IF i = 1 THEN seqs[i] ELSE g[i - 1] \o seqs[i]]
    BY <2>5, <2>6
  <2>8. Exists(m)
    BY <2>7
  <2> QED
    BY <1>2, <2>8
<1> QED
  BY <1>3, <1>4

LEMMA FlattenedFrom ==
    ASSUME NEW T, NEW seqs \in Seq(Seq(T))
    PROVE  /\ FlattenSeq(seqs) \in Seq(T)
           /\ \A k \in DOMAIN FlattenSeq(seqs) :
                \E i \in DOMAIN seqs : \E m \in DOMAIN seqs[i] : FlattenSeq(seqs)[k] = seqs[i][m]
<1> DEFINE From(s) == s \in Seq(T) /\ \A k \in DOMAIN s :
                        \E i \in DOMAIN seqs : \E m \in DOMAIN seqs[i] : s[k] = seqs[i][m]
           n == Len(seqs)
<1>1. CASE n = 0
  <2>1. FlattenSeq(seqs) = << >>
    BY <1>1 DEF FlattenSeq
  <2> QED
    BY <2>1
<1>2. CASE n # 0
  <2> DEFINE flatten == CHOOSE f : f = [i \in 1..n |-> IF i = 1 THEN seqs[i]
                                                     ELSE f[i - 1] \o seqs[i]]
  <2>0. n \in Nat
    OBVIOUS
  <2>1. FlattenSeq(seqs) = flatten[n]
    BY <1>2 DEF FlattenSeq
  <2>2. flatten = [i \in 1..n |-> IF i = 1 THEN seqs[i] ELSE flatten[i - 1] \o seqs[i]]
    BY <2>0, FlattensStepwise
  <2> HIDE DEF flatten
  <2> DEFINE bad == {i \in 1..n : ~From(flatten[i])}
  <2>3. ASSUME bad # {}
        PROVE  FALSE
    <3>0. bad \subseteq Nat
      BY <2>0
    <3>1. PICK i \in bad : \A k \in bad : i <= k
      BY <2>3, <3>0, SmallestExists
    <3>2. i \in 1..n /\ seqs[i] \in Seq(T) /\ i \in DOMAIN seqs
      BY <3>1
    <3>3. From(seqs[i])
      BY <3>2
    <3>4. CASE i = 1
      <4>1. flatten[i] = seqs[i]
        BY <2>2, <3>2, <3>4
      <4> QED
        BY <3>1, <3>3, <4>1
    <3>5. CASE i # 1
      <4>1. i - 1 \in 1..n /\ i - 1 \notin bad
        BY <3>1, <3>2, <3>5
      <4>2. From(flatten[i - 1])
        BY <4>1
      <4>3. flatten[i] = flatten[i - 1] \o seqs[i]
        BY <2>2, <3>2, <3>5
      <4> DEFINE a == flatten[i - 1]
                 b == seqs[i]
      <4>4. From(a) /\ From(b)
        BY <3>3, <4>2
      <4> HIDE DEF a, b
      <4>5. From(a \o b)
        <5>1. a \in Seq(T) /\ b \in Seq(T)
          BY <4>4
        <5>2. a \o b \in Seq(T)
          BY <5>1
        <5>3. ASSUME NEW k \in DOMAIN (a \o b)
              PROVE  \/ k \in DOMAIN a /\ (a \o b)[k] = a[k]
                     \/ k - Len(a) \in DOMAIN b /\ (a \o b)[k] = b[k - Len(a)]
          BY <5>1
        <5> DEFINE Somewhere(x) == \E j \in DOMAIN seqs : \E m \in DOMAIN seqs[j] : x = seqs[j][m]
        <5>4. /\ \A k \in DOMAIN a : Somewhere(a[k])
              /\ \A k \in DOMAIN b : Somewhere(b[k])
          BY <4>4
        <5> HIDE DEF Somewhere
        <5>5. \A k \in DOMAIN (a \o b) : Somewhere((a \o b)[k])
          BY <5>3, <5>4
        <5> QED
          BY <5>2, <5>5 DEF Somewhere
      <4>6. From(flatten[i])
        <5>1. flatten[i] = a \o b
          BY <4>3 DEF a, b
        <5> HIDE DEF From
        <5> QED
          BY <4>5, <5>1
      <4> QED
        BY <3>1, <4>6
    <3> QED
      BY <3>4, <3>5
  <2>4. n \in 1..n
    BY <1>2, <2>0
  <2>5. From(flatten[n])
    BY <2>3, <2>4
  <2> QED
    BY <2>1, <2>5
<1> QED
  BY <1>1, <1>2

-----------------------------------------------------------------------------
(* Names *)

LEMMA WordsHold == "_" \in Words /\ "__" \in Words /\ "sigit" \in Words /\ "smbcloud" \in Words
                   /\ "ascapi" \in Words /\ "web_search" \in Words
  BY McpServersAssumption

LEMMA InputsHold ==
    /\ ConfigFiles \subseteq File \X File
    /\ ClientLists \subseteq Seq(DefType)
    /\ ToolLists \subseteq Seq(Seq(Words))
    /\ "none" \notin McpSessions
  BY Zenon, McpServersAssumption

LEMMA SanitizedIs ==
    ASSUME NEW name \in Seq(Words)
    PROVE  Sanitized(name) \in Seq(Words) /\ Len(Sanitized(name)) = Len(name)
<1> DEFINE clean == [i \in 1..Len(name) |-> IF name[i] = "." THEN "_" ELSE name[i]]
<1>1. ASSUME NEW i \in 1..Len(name)
      PROVE  clean[i] \in Words
  <2>1. name[i] \in Words
    OBVIOUS
  <2> QED
    BY <2>1, WordsHold
<1>2. Len(name) \in Nat /\ Sanitized(name) = clean
  BY DEF Sanitized
<1> HIDE DEF clean
<1>3. clean = [i \in 1..Len(name) |-> clean[i]]
  BY DEF clean
<1>4. clean \in [1..Len(name) -> Words]
  BY <1>1, <1>3
<1> QED
  BY <1>2, <1>4

LEMMA FullNameIs ==
    ASSUME NEW name \in Seq(Words), NEW tool \in Seq(Words)
    PROVE  /\ FullName(name, tool) \in Seq(Words)
           /\ Len(name) + 1 \in DOMAIN FullName(name, tool)
           /\ FullName(name, tool)[Len(name) + 1] = "__"
           /\ SubSeq(FullName(name, tool), 1, Len(name)) = name
<1> DEFINE t == Sanitized(tool)
           n == Len(name)
           full == FullName(name, tool)
<1>1. t \in Seq(Words) /\ n \in Nat
  BY SanitizedIs
<1>2. full = (name \o <<"__">>) \o t
  BY DEF FullName
<1> HIDE DEF t, full
<1> DEFINE start == name \o <<"__">>
<1>3. start \in Seq(Words) /\ Len(start) = n + 1 /\ start[n + 1] = "__"
      /\ \A k \in 1..n : start[k] = name[k]
  <2>1. \A x \in Words :
          /\ name \o <<x>> \in Seq(Words) /\ Len(name \o <<x>>) = n + 1
          /\ (name \o <<x>>)[n + 1] = x
          /\ \A k \in 1..n : (name \o <<x>>)[k] = name[k]
    OBVIOUS
  <2>2. "__" \in Words
    BY WordsHold
  <2> QED
    BY <2>1, <2>2
<1> HIDE DEF start
<1>4. full \in Seq(Words) /\ Len(full) = n + 1 + Len(t)
  BY <1>1, <1>2, <1>3 DEF start
<1>5. \A k \in 1..(n + 1) : full[k] = start[k]
  BY <1>1, <1>2, <1>3 DEF start
<1>6. n + 1 \in DOMAIN full /\ full[n + 1] = "__"
  BY <1>1, <1>3, <1>4, <1>5
<1>7. \A k \in 1..n : full[k] = name[k]
  BY <1>1, <1>3, <1>5
<1>8. SubSeq(full, 1, n) = name
  BY <1>1, <1>4, <1>7
<1> QED
  BY <1>4, <1>6, <1>8 DEF full

\* A name that can be taken apart in one way only names one name.
LEMMA ServerOfName ==
    ASSUME NEW a \in Seq(Words), NEW b \in Seq(Words),
           NEW s \in Seq(Words), NEW t \in Seq(Words),
           FullName(a, s) = FullName(b, t), Plain(FullName(a, s))
    PROVE  a = b
<1> DEFINE full == FullName(a, s)
           at == {i \in DOMAIN full : full[i] = "__"}
<1>1. Len(a) + 1 \in at /\ Len(b) + 1 \in at
  BY FullNameIs
<1>2. full \in Seq(Words) /\ Cardinality(at) = 1
  BY FullNameIs DEF Plain
<1>3. IsFiniteSet(at)
  <2>1. at \subseteq 1..Len(full) /\ Len(full) \in Nat
    BY <1>2
  <2> HIDE DEF at, full
  <2>2. IsFiniteSet(1..Len(full))
    BY <2>1, FS_Interval
  <2> QED
    BY <2>1, <2>2, FS_Subset
<1> HIDE DEF at
<1>4. PICK x : at = {x}
  BY <1>2, <1>3, FS_Singleton
<1>5. Len(a) = Len(b)
  BY <1>1, <1>4
<1> QED
  BY <1>5, FullNameIs

-----------------------------------------------------------------------------
(* The definitions that the files make *)

\* Two places of what is picked come from two places in the same order.
LEMMA PickedInOrder ==
    ASSUME NEW T, NEW s \in Seq(T), NEW S \in SUBSET (1..Len(s)),
           NEW k \in 1..Len(Picked(s, S)), NEW l \in 1..Len(Picked(s, S)), k < l
    PROVE  \E i, j \in S : i < j /\ Picked(s, S)[k] = s[i] /\ Picked(s, S)[l] = s[j]
<1> DEFINE n == Cardinality(S)
           picked == Picked(s, S)
           order == Ascending(S)
<1>1. /\ n \in Nat /\ Lists(order, S) /\ Len(picked) = n
      /\ \A m \in 1..n : picked[m] = s[order[m]]
  BY PickedIs
<1>2. /\ \A m \in 1..n : order[m] \in S
      /\ \A a, b \in 1..n : a < b => order[a] < order[b]
  BY <1>1 DEF Lists
<1> HIDE DEF n, picked, order
<1>3. k \in 1..n /\ l \in 1..n
  BY <1>1 DEF picked
<1> QED
  BY <1>1, <1>2, <1>3 DEF picked

EntryDef(entry) == Def(Sanitized(entry.name), entry.who)

LEMMA EntryDefIs ==
    ASSUME NEW entry \in Entry
    PROVE  /\ EntryDef(entry) \in DefType
           /\ EntryDef(entry).name = Sanitized(entry.name) /\ EntryDef(entry).who = entry.who
<1>1. entry.name \in Seq(Words) /\ entry.who \in Words
  BY DEF Entry
<1> QED
  BY <1>1, SanitizedIs DEF EntryDef, Def, DefType

Upserted(defs, def, result) ==
    /\ result \in Seq(DefType) /\ Apart(result)
    /\ \E k \in DOMAIN result : result[k] = def
    /\ \A k \in DOMAIN result :
         \/ result[k] = def
         \/ result[k].name # def.name /\ \E m \in DOMAIN defs : result[k] = defs[m]
    /\ \A m \in DOMAIN defs : \E k \in DOMAIN result : result[k].name = defs[m].name

LEMMA UpsertIs ==
    ASSUME NEW defs \in Seq(DefType), Apart(defs), NEW def \in DefType
    PROVE  Upserted(defs, def, Upsert(defs, def))
<1> DEFINE result == Upsert(defs, def)
           n == Len(defs)
<1>0. n \in Nat /\ DOMAIN defs = 1..n
  OBVIOUS
<1>1. CASE Named(defs, def.name) = {}
  <2>1. result = Append(defs, def)
    BY <1>1 DEF Upsert
  <2>2. \A i \in 1..n : defs[i].name # def.name
    BY <1>1 DEF Named
  <2>3. /\ result \in Seq(DefType) /\ Len(result) = n + 1 /\ result[n + 1] = def
        /\ \A k \in 1..n : result[k] = defs[k]
    BY <2>1
  <2> HIDE DEF result, n
  <2>4. DOMAIN result = 1..(n + 1)
    BY <2>3
  <2>5. \A k \in 1..(n + 1) : k = n + 1 \/ k \in 1..n
    BY <1>0
  <2>6. Apart(result)
    BY <1>0, <2>2, <2>3, <2>4, <2>5 DEF Apart
  <2>7. n + 1 \in 1..(n + 1) /\ 1..n \subseteq 1..(n + 1)
    BY <1>0
  <2>8. Upserted(defs, def, result)
    BY <1>0, <2>2, <2>3, <2>4, <2>5, <2>6, <2>7 DEF Upserted
  <2> QED
    BY <2>8 DEF result
<1>2. CASE Named(defs, def.name) # {}
  <2>1. result = [i \in DOMAIN defs |-> IF i \in Named(defs, def.name) THEN def ELSE defs[i]]
    BY <1>2 DEF Upsert
  <2>2. /\ DOMAIN result = 1..n
        /\ \A i \in 1..n : /\ defs[i].name = def.name => result[i] = def
                           /\ defs[i].name # def.name => result[i] = defs[i]
    BY <1>0, <2>1 DEF Named
  <2>3. PICK m \in 1..n : defs[m].name = def.name
    BY <1>2 DEF Named
  <2>4. \A i \in 1..n : result[i] \in DefType /\ result[i].name = defs[i].name
    BY <2>2
  <2>5. result = [i \in 1..n |-> result[i]]
    BY <1>0, <2>1
  <2> HIDE DEF result, n
  <2>6. result \in Seq(DefType)
    BY <1>0, <2>4, <2>5
  <2>7. Apart(result)
    BY <1>0, <2>2, <2>4 DEF Apart
  <2>8. Upserted(defs, def, result)
    BY <1>0, <2>2, <2>3, <2>4, <2>6, <2>7 DEF Upserted
  <2> QED
    BY <2>8 DEF result
<1> QED
  BY <1>1, <1>2

\* The last of the first n entries with its name.
LastOf(entries, j, n) ==
    \A i \in (j + 1)..n : Sanitized(entries[i].name) # Sanitized(entries[j].name)

ReadUpTo(entries, n, defs) ==
    /\ defs \in Seq(DefType) /\ Apart(defs)
    /\ \A k \in DOMAIN defs : \E j \in 1..n : LastOf(entries, j, n) /\ defs[k] = EntryDef(entries[j])
    /\ \A j \in 1..n : \E k \in DOMAIN defs : defs[k].name = Sanitized(entries[j].name)

LEMMA ReadingStep ==
    ASSUME NEW entries \in Seq(Entry), NEW n \in 1..Len(entries), NEW defs,
           ReadUpTo(entries, n - 1, defs)
    PROVE  ReadUpTo(entries, n, Upsert(defs, EntryDef(entries[n])))
<1> DEFINE result == Upsert(defs, EntryDef(entries[n]))
           def == EntryDef(entries[n])
<1>1. /\ def \in DefType /\ def.name = Sanitized(entries[n].name)
      /\ \A j \in 1..n : EntryDef(entries[j]).name = Sanitized(entries[j].name)
  <2>1. \A j \in 1..n : entries[j] \in Entry
    OBVIOUS
  <2> QED
    BY <2>1, EntryDefIs
<1>2. Upserted(defs, def, result)
  BY <1>1, UpsertIs DEF ReadUpTo
<1> HIDE DEF result, def
<1>3. n \in Nat /\ n - 1 \in Nat /\ n \in 1..n /\ 1..(n - 1) \subseteq 1..n
      /\ \A j \in 1..n : j = n \/ j \in 1..(n - 1)
  OBVIOUS
<1>4. LastOf(entries, n, n)
  BY <1>3 DEF LastOf
<1>5. ASSUME NEW k \in DOMAIN result
      PROVE  \E j \in 1..n : LastOf(entries, j, n) /\ result[k] = EntryDef(entries[j])
  <2>1. CASE result[k] = def
    BY <1>3, <1>4, <2>1 DEF def
  <2>2. CASE result[k].name # def.name /\ \E m \in DOMAIN defs : result[k] = defs[m]
    <3>1. PICK j \in 1..(n - 1) : LastOf(entries, j, n - 1) /\ result[k] = EntryDef(entries[j])
      BY <2>2 DEF ReadUpTo
    <3>2. j \in 1..n /\ Sanitized(entries[n].name) # Sanitized(entries[j].name)
      BY <1>1, <1>3, <2>2, <3>1
    <3>3. \A i \in (j + 1)..n : i = n \/ i \in (j + 1)..(n - 1)
      BY <1>3
    <3>4. LastOf(entries, j, n)
      BY <3>1, <3>2, <3>3 DEF LastOf
    <3> QED
      BY <3>1, <3>2, <3>4
  <2> QED
    BY <1>2, <2>1, <2>2 DEF Upserted
<1>6. ASSUME NEW j \in 1..n
      PROVE  \E k \in DOMAIN result : result[k].name = Sanitized(entries[j].name)
  <2>1. CASE j = n
    BY <1>1, <1>2, <2>1 DEF Upserted
  <2>2. CASE j \in 1..(n - 1)
    BY <1>2, <2>2 DEF Upserted, ReadUpTo
  <2> QED
    BY <1>3, <2>1, <2>2
<1>7. result \in Seq(DefType) /\ Apart(result)
  BY <1>2 DEF Upserted
<1>8. ReadUpTo(entries, n, result)
  BY <1>5, <1>6, <1>7 DEF ReadUpTo
<1> QED
  BY <1>8 DEF result, def

ReadsStepwise(entries, n, f) ==
    f = [i \in 0..n |-> IF i = 0 THEN << >> ELSE Upsert(f[i - 1], EntryDef(entries[i]))]

LEMMA ReadingExists ==
    ASSUME NEW entries, NEW n \in Nat
    PROVE  \E f : ReadsStepwise(entries, n, f)
<1> DEFINE bad == {m \in Nat : ~\E f : ReadsStepwise(entries, m, f)}
<1> SUFFICES ASSUME bad # {}
             PROVE  FALSE
  OBVIOUS
<1>1. bad \subseteq Nat
  OBVIOUS
<1>2. PICK m \in bad : \A k \in bad : m <= k
  BY <1>1, SmallestExists
<1>3. CASE m = 0
  <2> DEFINE f == [i \in 0..0 |-> << >>]
  <2>1. \A i \in 0..0 : i = 0
    OBVIOUS
  <2>2. f = [i \in 0..0 |-> IF i = 0 THEN << >> ELSE Upsert(f[i - 1], EntryDef(entries[i]))]
    BY <2>1
  <2>3. ReadsStepwise(entries, 0, f)
    BY <2>2 DEF ReadsStepwise
  <2> QED
    BY <1>2, <1>3, <2>3
<1>4. CASE m # 0
  <2> HIDE DEF bad
  <2>1. m \in Nat /\ m - 1 \in Nat
    BY <1>1, <1>2, <1>4
  <2>2. m - 1 \notin bad
    BY <1>2, <2>1
  <2>3. PICK f : ReadsStepwise(entries, m - 1, f)
    BY <2>1, <2>2 DEF bad
  <2> DEFINE g == [i \in 0..m |-> IF i = m THEN Upsert(f[m - 1], EntryDef(entries[m])) ELSE f[i]]
  <2>4. \A i \in 0..m : i # m => g[i] = IF i = 0 THEN << >>
                                       ELSE Upsert(g[i - 1], EntryDef(entries[i]))
    <3> TAKE i \in 0..m
    <3> HAVE i # m
    <3>1. i \in 0..(m - 1) /\ g[i] = f[i]
      BY <2>1
    <3>2. f[i] = IF i = 0 THEN << >> ELSE Upsert(f[i - 1], EntryDef(entries[i]))
      BY <2>3, <3>1 DEF ReadsStepwise
    <3>3. i # 0 => i - 1 \in 0..m /\ i - 1 # m /\ g[i - 1] = f[i - 1]
      BY <2>1
    <3> QED
      BY <3>1, <3>2, <3>3
  <2>5. g[m] = IF m = 0 THEN << >> ELSE Upsert(g[m - 1], EntryDef(entries[m]))
    <3>1. m - 1 \in 0..m /\ m - 1 # m /\ g[m - 1] = f[m - 1] /\ m \in 0..m
      BY <2>1
    <3> QED
      BY <1>4, <3>1
  <2>6. g = [i \in 0..m |-> g[i]]
    OBVIOUS
  <2> HIDE DEF g
  <2>7. \A i \in 0..m : g[i] = IF i = 0 THEN << >> ELSE Upsert(g[i - 1], EntryDef(entries[i]))
    BY <2>4, <2>5
  <2>8. ReadsStepwise(entries, m, g)
    BY <2>6, <2>7 DEF ReadsStepwise
  <2> QED
    BY <1>2, <2>8 DEF bad
<1> QED
  BY <1>3, <1>4

LEMMA ReadingIs ==
    ASSUME NEW entries \in Seq(Entry), NEW n \in 0..Len(entries)
    PROVE  ReadUpTo(entries, n, Reading(entries)[n])
<1> DEFINE size == Len(entries)
           read == Reading(entries)
           bad == {m \in 0..size : ~ReadUpTo(entries, m, read[m])}
<1>1. size \in Nat
  OBVIOUS
<1>2. ReadsStepwise(entries, size, read)
  <2>1. read = CHOOSE f : ReadsStepwise(entries, size, f)
    BY DEF Reading, ReadsStepwise, EntryDef
  <2> HIDE DEF read, size
  <2> QED
    BY <1>1, <2>1, ReadingExists
<1> SUFFICES ASSUME bad # {}
             PROVE  FALSE
  OBVIOUS
<1> HIDE DEF read
<1>3. bad \subseteq Nat
  OBVIOUS
<1>4. PICK m \in bad : \A k \in bad : m <= k
  BY <1>3, SmallestExists
<1>5. m \in 0..size /\ ~ReadUpTo(entries, m, read[m])
  BY <1>4
<1>6. CASE m = 0
  <2>1. read[0] = << >>
    BY <1>1, <1>2 DEF ReadsStepwise
  <2>2. ReadUpTo(entries, 0, << >>)
    BY DEF ReadUpTo, Apart
  <2> QED
    BY <1>5, <1>6, <2>1, <2>2
<1>7. CASE m # 0
  <2>1. m \in 1..Len(entries) /\ m - 1 \in 0..size /\ ~(m <= m - 1)
    BY <1>1, <1>5, <1>7
  <2>2. m - 1 \notin bad
    <3> HIDE DEF bad
    <3> QED
      BY <1>4, <2>1
  <2>3. ReadUpTo(entries, m - 1, read[m - 1])
    BY <2>1, <2>2
  <2>4. read[m] = Upsert(read[m - 1], EntryDef(entries[m]))
    BY <1>2, <1>5, <1>7 DEF ReadsStepwise
  <2> QED
    BY <1>5, <2>1, <2>3, <2>4, ReadingStep
<1> QED
  BY <1>6, <1>7

LEMMA EntriesAre ==
    ASSUME NEW pair \in File \X File
    PROVE  Entries(pair) \in Seq(Entry)
<1> DEFINE EntriesOf(file) == IF file.parses THEN file.entries ELSE << >>
           all == EntriesOf(pair[1]) \o EntriesOf(pair[2])
<1>1. pair[1] \in File /\ pair[2] \in File
  <2>1. \A F, f : f \in F \X F => f[1] \in F /\ f[2] \in F
    OBVIOUS
  <2> QED
    BY <2>1
<1>2. \A file \in File : EntriesOf(file) \in Seq(Entry)
  BY DEF File
<1>3. all \in Seq(Entry)
  BY <1>1, <1>2
<1>4. Entries(pair) = Picked(all, {i \in DOMAIN all : Usable(all[i])})
  BY DEF Entries
<1> HIDE DEF all
<1>5. {i \in DOMAIN all : Usable(all[i])} \in SUBSET (1..Len(all))
  BY <1>3
<1> QED
  BY <1>3, <1>4, <1>5, PickedIs

LEMMA LargestIs ==
    ASSUME NEW S \in SUBSET Nat, NEW j \in S, \A i \in S : i <= j
    PROVE  Max(S) = j
<1>1. Max(S) = CHOOSE x \in S : \A y \in S : x >= y
  BY DEF Max
<1>2. \E x \in S : \A y \in S : x >= y
  OBVIOUS
<1> DEFINE m == Max(S)
<1>3. m \in S /\ \A y \in S : m >= y
  BY <1>1, <1>2
<1> HIDE DEF m
<1>4. m \in Nat /\ j \in Nat /\ m >= j /\ m <= j
  BY <1>3
<1>5. m = j
  BY <1>4
<1> QED
  BY <1>5 DEF m

\* A place of two sequences in one.
LEMMA PlaceOfConcat ==
    ASSUME NEW T, NEW a \in Seq(T), NEW b \in Seq(T), NEW i \in DOMAIN (a \o b)
    PROVE  \/ i \in DOMAIN a /\ (a \o b)[i] = a[i]
           \/ /\ i \in Nat /\ i > Len(a) /\ i - Len(a) \in DOMAIN b
              /\ (a \o b)[i] = b[i - Len(a)]
  OBVIOUS

LEMMA ConcatApart ==
    ASSUME NEW T, NEW a \in Seq(T), NEW b \in Seq(T), Apart(a), Apart(b),
           \A i \in DOMAIN a, j \in DOMAIN b : a[i].name # b[j].name
    PROVE  Apart(a \o b)
<1> SUFFICES ASSUME NEW i \in DOMAIN (a \o b), NEW j \in DOMAIN (a \o b),
                    (a \o b)[i].name = (a \o b)[j].name
             PROVE  i = j
  BY DEF Apart
<1>1. /\ \/ i \in DOMAIN a /\ (a \o b)[i] = a[i]
         \/ /\ i \in Nat /\ i > Len(a) /\ i - Len(a) \in DOMAIN b
            /\ (a \o b)[i] = b[i - Len(a)]
      /\ \/ j \in DOMAIN a /\ (a \o b)[j] = a[j]
         \/ /\ j \in Nat /\ j > Len(a) /\ j - Len(a) \in DOMAIN b
            /\ (a \o b)[j] = b[j - Len(a)]
  BY PlaceOfConcat
<1>2. Len(a) \in Nat
  OBVIOUS
<1>3. CASE i \in DOMAIN a /\ j \in DOMAIN a /\ (a \o b)[i] = a[i] /\ (a \o b)[j] = a[j]
  BY <1>3 DEF Apart
<1>4. CASE /\ i \in Nat /\ i - Len(a) \in DOMAIN b /\ (a \o b)[i] = b[i - Len(a)]
           /\ j \in Nat /\ j - Len(a) \in DOMAIN b /\ (a \o b)[j] = b[j - Len(a)]
  <2>1. i - Len(a) = j - Len(a)
    BY <1>4 DEF Apart
  <2> QED
    BY <1>2, <1>4, <2>1
<1>5. CASE i \in DOMAIN a /\ (a \o b)[i] = a[i] /\ j - Len(a) \in DOMAIN b
           /\ (a \o b)[j] = b[j - Len(a)]
  BY <1>5
<1>6. CASE j \in DOMAIN a /\ (a \o b)[j] = a[j] /\ i - Len(a) \in DOMAIN b
           /\ (a \o b)[i] = b[i - Len(a)]
  BY <1>6
<1> QED
  BY <1>1, <1>3, <1>4, <1>5, <1>6

BuiltInDefs == [i \in DOMAIN BuiltIn |-> Def(BuiltIn[i], WhoOf[BuiltIn[i]])]

LEMMA BuiltInNames ==
    /\ Official \in Seq(Words) /\ Smbcloud \in Seq(Words) /\ Ascapi \in Seq(Words)
    /\ Official # Smbcloud /\ Official # Ascapi /\ Smbcloud # Ascapi
    /\ Official[1] \in Words /\ Smbcloud[1] \in Words /\ Ascapi[1] \in Words
<1>1. \A x \in Words : <<x>> \in Seq(Words) /\ <<x>>[1] = x
  OBVIOUS
<1>2. \A x, y : x # y => <<x>> # <<y>>
  OBVIOUS
<1>3. "sigit" # "smbcloud" /\ "sigit" # "ascapi" /\ "smbcloud" # "ascapi"
  OBVIOUS
<1>4. Official # Smbcloud /\ Official # Ascapi /\ Smbcloud # Ascapi
  BY <1>2, <1>3 DEF Official, Smbcloud, Ascapi
<1> QED
  BY <1>1, <1>4, WordsHold DEF Official, Smbcloud, Ascapi

LEMMA BuiltInDefsAre ==
    /\ BuiltInDefs \in Seq(DefType) /\ Apart(BuiltInDefs)
    /\ \A i \in DOMAIN BuiltInDefs : BuiltInDefs[i].name = BuiltIn[i]
                                     /\ BuiltInDefs[i].who = WhoOf[BuiltIn[i]]
    /\ DOMAIN BuiltInDefs = DOMAIN BuiltIn /\ DOMAIN BuiltIn = 1..Len(BuiltInDefs)
<1>1. /\ DOMAIN BuiltIn = 1..3
      /\ BuiltIn[1] = Official /\ BuiltIn[2] = Smbcloud /\ BuiltIn[3] = Ascapi
  BY DEF BuiltIn
<1>2. \A i \in 1..3 : i = 1 \/ i = 2 \/ i = 3
  OBVIOUS
<1>3. ASSUME NEW i \in 1..3
      PROVE  BuiltIn[i] \in Seq(Words) /\ BuiltIn[i] \in DOMAIN WhoOf /\ WhoOf[BuiltIn[i]] \in Words
  BY <1>1, <1>2, BuiltInNames DEF WhoOf
<1>4. \A i, j \in 1..3 : BuiltIn[i] = BuiltIn[j] => i = j
  BY <1>1, <1>2, BuiltInNames
<1> HIDE DEF BuiltIn
<1>5. BuiltInDefs = [i \in 1..3 |-> [name |-> BuiltIn[i], who |-> WhoOf[BuiltIn[i]]]]
  BY <1>1 DEF BuiltInDefs, Def
<1>6. BuiltInDefs \in Seq(DefType)
  <2>1. BuiltInDefs \in [1..3 -> DefType]
    BY <1>3, <1>5 DEF DefType
  <2>2. \A D, f : \A n \in Nat : f \in [1..n -> D] => f \in Seq(D)
    OBVIOUS
  <2> QED
    BY <2>1, <2>2
<1>7. DOMAIN BuiltInDefs = 1..3 /\ Len(BuiltInDefs) = 3
  BY <1>5, <1>6
<1>8. \A i \in 1..3 : BuiltInDefs[i].name = BuiltIn[i] /\ BuiltInDefs[i].who = WhoOf[BuiltIn[i]]
  BY <1>5
<1>9. Apart(BuiltInDefs)
  BY <1>4, <1>7, <1>8 DEF Apart
<1> QED
  BY <1>1, <1>6, <1>7, <1>8, <1>9

LEMMA LastNamedIs ==
    ASSUME configs \in File \X File, NEW defs,
           ReadUpTo(Entries(configs), Len(Entries(configs)), defs)
    PROVE  /\ \A k \in DOMAIN defs : defs[k].who = LastNamed(defs[k].name)
           /\ \A name : Named(defs, name) = {} => LastNamed(name) = WhoOf[name]
<1> DEFINE entries == Entries(configs)
           n == Len(entries)
           At(name) == {i \in DOMAIN entries : Sanitized(entries[i].name) = name}
<1>1. entries \in Seq(Entry) /\ n \in Nat /\ DOMAIN entries = 1..n
  BY EntriesAre
<1>2. ReadUpTo(entries, n, defs)
  OBVIOUS
<1>3. \A name : LastNamed(name) = IF At(name) # {} THEN entries[Max(At(name))].who ELSE WhoOf[name]
  BY DEF LastNamed
<1> HIDE DEF entries, n
<1>4. ASSUME NEW k \in DOMAIN defs
      PROVE  defs[k].who = LastNamed(defs[k].name)
  <2>1. PICK j \in 1..n : LastOf(entries, j, n) /\ defs[k] = EntryDef(entries[j])
    BY <1>2 DEF ReadUpTo
  <2>2. entries[j] \in Entry
    BY <1>1
  <2>3. defs[k].name = Sanitized(entries[j].name) /\ defs[k].who = entries[j].who
    BY <2>1, <2>2, EntryDefIs
  <2>4. At(defs[k].name) \in SUBSET Nat /\ j \in At(defs[k].name)
    BY <1>1, <2>3
  <2>5. ASSUME NEW i \in At(defs[k].name)
        PROVE  i <= j
    <3>1. i \in 1..n /\ Sanitized(entries[i].name) = Sanitized(entries[j].name)
      BY <1>1, <2>3
    <3>2. i \notin (j + 1)..n
      BY <2>1, <3>1 DEF LastOf
    <3> QED
      BY <1>1, <2>1, <3>1, <3>2
  <2> DEFINE at == At(defs[k].name)
  <2>6. at \in SUBSET Nat /\ j \in at /\ \A i \in at : i <= j
    BY <2>4, <2>5
  <2>7. LastNamed(defs[k].name) = IF at # {} THEN entries[Max(at)].who ELSE WhoOf[defs[k].name]
    BY <1>3
  <2> HIDE DEF at, At
  <2>8. Max(at) = j
    BY <2>6, LargestIs
  <2> QED
    BY <2>3, <2>6, <2>7, <2>8
<1>5. ASSUME NEW name, Named(defs, name) = {}
      PROVE  LastNamed(name) = WhoOf[name]
  <2>1. \A j \in 1..n : \E k \in DOMAIN defs : defs[k].name = Sanitized(entries[j].name)
    BY <1>2 DEF ReadUpTo
  <2>2. At(name) = {}
    BY <1>1, <1>5, <2>1 DEF Named
  <2> QED
    BY <1>3, <2>2
<1> QED
  BY <1>4, <1>5

LEMMA PickedApart ==
    ASSUME NEW T, NEW s \in Seq(T), Apart(s), NEW S \in SUBSET (1..Len(s))
    PROVE  Apart(Picked(s, S))
<1> DEFINE picked == Picked(s, S)
<1>1. picked \in Seq(T) /\ DOMAIN picked = 1..Len(picked) /\ Len(picked) \in Nat
  <2>1. picked \in Seq(T)
    BY PickedIs
  <2> QED
    BY <2>1
<1>2. ASSUME NEW k \in 1..Len(picked), NEW l \in 1..Len(picked), k < l
      PROVE  picked[k].name # picked[l].name
  <2>1. PICK i, j \in S : i < j /\ picked[k] = s[i] /\ picked[l] = s[j]
    BY <1>2, PickedInOrder
  <2>2. i \in DOMAIN s /\ j \in DOMAIN s /\ i # j
    BY <2>1
  <2> QED
    BY <2>1, <2>2 DEF Apart
<1> HIDE DEF picked
<1>3. \A k, l \in 1..Len(picked) : k = l \/ k < l \/ l < k
  OBVIOUS
<1>4. Apart(picked)
  BY <1>1, <1>2, <1>3 DEF Apart
<1> QED
  BY <1>4 DEF picked

Loaded == LoadConfigs(configs, onPath)

LEMMA LoadedIs ==
    ASSUME configs \in File \X File
    PROVE  /\ Loaded \in Seq(DefType) /\ Apart(Loaded)
           /\ \A k \in DOMAIN Loaded : Loaded[k].who = LastNamed(Loaded[k].name)
<1> DEFINE entries == Entries(configs)
           n == Len(entries)
           read == Reading(entries)[n]
           added == {i \in DOMAIN BuiltIn :
                       /\ Included(configs, BuiltIn[i]) /\ Named(read, BuiltIn[i]) = {}
                       /\ BuiltIn[i] # Official => BuiltIn[i] \in onPath}
           builtIn == Picked(BuiltInDefs, added)
<1>1. Loaded = read \o builtIn
  BY DEF Loaded, LoadConfigs, BuiltInDefs
<1>2. entries \in Seq(Entry) /\ n \in 0..n
  BY EntriesAre
<1>3. ReadUpTo(entries, n, read)
  BY <1>2, ReadingIs
<1>4. added \in SUBSET (1..Len(BuiltInDefs)) /\ \A i \in added : Named(read, BuiltIn[i]) = {}
  BY BuiltInDefsAre
<1>5. /\ read \in Seq(DefType) /\ Apart(read)
      /\ \A k \in DOMAIN read : read[k].who = LastNamed(read[k].name)
      /\ \A name : Named(read, name) = {} => LastNamed(name) = WhoOf[name]
  <2>1. read \in Seq(DefType) /\ Apart(read)
    BY <1>3 DEF ReadUpTo
  <2> HIDE DEF read
  <2> QED
    BY <1>3, <2>1, LastNamedIs
<1> HIDE DEF read, added, entries, n
<1>6. builtIn \in Seq(DefType) /\ Apart(builtIn)
  BY <1>4, BuiltInDefsAre, PickedIs, PickedApart
<1>7. ASSUME NEW k \in DOMAIN builtIn
      PROVE  Named(read, builtIn[k].name) = {} /\ builtIn[k].who = LastNamed(builtIn[k].name)
  <2>1. k \in 1..Len(builtIn)
    BY <1>6
  <2>2. PICK i \in added : builtIn[k] = BuiltInDefs[i]
    BY <1>4, <2>1, BuiltInDefsAre, PickedValues
  <2>3. builtIn[k].name = BuiltIn[i] /\ builtIn[k].who = WhoOf[BuiltIn[i]]
    BY <1>4, <2>2, BuiltInDefsAre
  <2> QED
    BY <1>4, <1>5, <2>3
<1> HIDE DEF builtIn
<1>8. \A i \in DOMAIN read, j \in DOMAIN builtIn : read[i].name # builtIn[j].name
  BY <1>7 DEF Named
<1>9. Loaded \in Seq(DefType) /\ Apart(Loaded)
  BY <1>1, <1>5, <1>6, <1>8, ConcatApart
<1>10. ASSUME NEW k \in DOMAIN Loaded
       PROVE  Loaded[k].who = LastNamed(Loaded[k].name)
  <2>1. \/ k \in DOMAIN read /\ Loaded[k] = read[k]
        \/ k - Len(read) \in DOMAIN builtIn /\ Loaded[k] = builtIn[k - Len(read)]
    BY <1>1, <1>5, <1>6, PlaceOfConcat
  <2> QED
    BY <1>5, <1>7, <2>1
<1> QED
  BY <1>9, <1>10

-----------------------------------------------------------------------------
(* Servers and what they offer *)

Same(a, b) ==
    /\ DOMAIN a = DOMAIN b
    /\ \A i \in DOMAIN a : a[i].name = b[i].name /\ a[i].who = b[i].who

OfferedBy(offers, servers) ==
    \A k \in DOMAIN offers : \E i \in DOMAIN servers : Answers(servers[i], offers[k])

LEMMA ConnectedIs ==
    ASSUME NEW defs \in Seq(DefType), NEW servers \in Connected(defs)
    PROVE  servers \in Seq(ServerType) /\ Same(defs, servers)
<1> DEFINE n == Len(defs)
<1>1. n \in Nat /\ DOMAIN defs = 1..n /\ \A i \in 1..n : defs[i] \in DefType
  OBVIOUS
<1>2. PICK lists \in [DOMAIN defs -> ToolLists \cup {<< >>}] :
          servers = [i \in DOMAIN defs |-> Server(defs[i], lists[i])]
  BY DEF Connected
<1>3. \A i \in 1..n : lists[i] \in Seq(Seq(Words))
  <2>1. << >> \in Seq(Seq(Words)) /\ ToolLists \subseteq Seq(Seq(Words))
    BY InputsHold
  <2> QED
    BY <1>1, <1>2, <2>1
<1> HIDE DEF n
<1>4. servers = [i \in 1..n |-> [name |-> defs[i].name, who |-> defs[i].who, tools |-> lists[i]]]
  BY <1>1, <1>2 DEF Server
<1>5. servers \in [1..n -> ServerType]
  BY <1>1, <1>3, <1>4 DEF ServerType, DefType
<1>6. \A D, f : \A m \in Nat : f \in [1..m -> D] => f \in Seq(D)
  OBVIOUS
<1>7. servers \in Seq(ServerType)
  BY <1>1, <1>5, <1>6
<1>8. Same(defs, servers)
  BY <1>1, <1>4 DEF Same
<1> QED
  BY <1>7, <1>8

LEMMA SameKeeps ==
    ASSUME NEW a, NEW b, Same(a, b)
    PROVE  /\ Apart(a) => Apart(b)
           /\ \A offers : OfferedBy(offers, a) => OfferedBy(offers, b)
<1>1. \A spec : \A i \in DOMAIN a : Answers(a[i], spec) => Answers(b[i], spec)
  BY DEF Same, Answers
<1>2. DOMAIN a = DOMAIN b
  BY DEF Same
<1>3. \A offers : OfferedBy(offers, a) => OfferedBy(offers, b)
  BY <1>1, <1>2 DEF OfferedBy
<1>4. Apart(a) => Apart(b)
  BY DEF Same, Apart
<1> QED
  BY <1>3, <1>4

LEMMA SameConcat ==
    ASSUME NEW T, NEW a \in Seq(T), NEW b \in Seq(T), NEW c \in Seq(T), NEW d \in Seq(T),
           Same(a, c), Same(b, d)
    PROVE  Same(a \o b, c \o d)
<1>1. /\ DOMAIN a = 1..Len(a) /\ DOMAIN c = 1..Len(c) /\ Len(a) \in Nat /\ Len(c) \in Nat
      /\ DOMAIN b = 1..Len(b) /\ DOMAIN d = 1..Len(d) /\ Len(b) \in Nat /\ Len(d) \in Nat
  OBVIOUS
<1>2. Len(a) = Len(c) /\ Len(b) = Len(d)
  <2>1. \A m, n \in Nat : 1..m = 1..n => m = n
    <3>1. SUFFICES ASSUME NEW m \in Nat, NEW n \in Nat, 1..m = 1..n, m # n
                   PROVE  FALSE
      OBVIOUS
    <3>2. m \in 1..n \/ m = 0
      BY <3>1
    <3>3. n \in 1..m \/ n = 0
      BY <3>1
    <3> QED
      BY <3>1, <3>2, <3>3
  <2> QED
    BY <1>1, <2>1 DEF Same
<1>3. /\ DOMAIN (a \o b) = 1..(Len(a) + Len(b))
      /\ \A i \in 1..(Len(a) + Len(b)) :
            (a \o b)[i] = IF i <= Len(a) THEN a[i] ELSE b[i - Len(a)]
  OBVIOUS
<1>4. /\ DOMAIN (c \o d) = 1..(Len(c) + Len(d))
      /\ \A i \in 1..(Len(c) + Len(d)) :
            (c \o d)[i] = IF i <= Len(c) THEN c[i] ELSE d[i - Len(c)]
  OBVIOUS
<1> DEFINE m == Len(a)
           n == Len(b)
           ab == a \o b
           cd == c \o d
<1>5. /\ m \in Nat /\ n \in Nat /\ DOMAIN ab = 1..(m + n) /\ DOMAIN cd = 1..(m + n)
      /\ \A i \in 1..m : ab[i] = a[i] /\ cd[i] = c[i]
      /\ \A i \in 1..(m + n) : ~(i <= m) => ab[i] = b[i - m] /\ cd[i] = d[i - m]
  BY <1>1, <1>2, <1>3, <1>4
<1>6. /\ \A i \in 1..m : a[i].name = c[i].name /\ a[i].who = c[i].who
      /\ \A i \in 1..n : b[i].name = d[i].name /\ b[i].who = d[i].who
  BY <1>1, <1>2 DEF Same
<1> HIDE DEF m, n, ab, cd
<1>7. ASSUME NEW i \in 1..(m + n)
      PROVE  ab[i].name = cd[i].name /\ ab[i].who = cd[i].who
  <2>1. CASE i <= m
    <3>1. i \in 1..m
      BY <1>5, <2>1
    <3> QED
      BY <1>5, <1>6, <3>1
  <2>2. CASE ~(i <= m)
    <3>1. i - m \in 1..n
      BY <1>5, <2>2
    <3> QED
      BY <1>5, <1>6, <2>2, <3>1
  <2> QED
    BY <2>1, <2>2
<1>8. Same(ab, cd)
  BY <1>5, <1>7 DEF Same
<1> QED
  BY <1>8 DEF ab, cd

LEMMA RelistedIs ==
    ASSUME NEW servers \in Seq(ServerType), NEW i \in DOMAIN servers,
           NEW tools \in ToolLists \cup {<< >>}
    PROVE  /\ [servers EXCEPT ![i].tools = tools] \in Seq(ServerType)
           /\ Same(servers, [servers EXCEPT ![i].tools = tools])
<1> DEFINE n == Len(servers)
           relisted == [servers EXCEPT ![i].tools = tools]
<1>1. n \in Nat /\ DOMAIN servers = 1..n /\ \A j \in 1..n : servers[j] \in ServerType
  OBVIOUS
<1>2. tools \in Seq(Seq(Words))
  <2>1. << >> \in Seq(Seq(Words)) /\ ToolLists \subseteq Seq(Seq(Words))
    BY InputsHold
  <2> QED
    BY <2>1
<1>3. /\ relisted = [j \in 1..n |-> relisted[j]]
      /\ \A j \in 1..n : relisted[j] = IF j = i THEN [servers[j] EXCEPT !.tools = tools]
                                       ELSE servers[j]
  BY <1>1
<1> HIDE DEF n, relisted
<1>4. \A s \in ServerType : /\ [s EXCEPT !.tools = tools] \in ServerType
                            /\ [s EXCEPT !.tools = tools].name = s.name
                            /\ [s EXCEPT !.tools = tools].who = s.who
  BY <1>2 DEF ServerType
<1>5. \A j \in 1..n : /\ relisted[j] \in ServerType
                      /\ servers[j].name = relisted[j].name /\ servers[j].who = relisted[j].who
  BY <1>1, <1>3, <1>4
<1>6. relisted \in [1..n -> ServerType] /\ DOMAIN relisted = 1..n
  BY <1>3, <1>5
<1>7. \A D, f : \A m \in Nat : f \in [1..m -> D] => f \in Seq(D)
  OBVIOUS
<1>8. relisted \in Seq(ServerType) /\ Same(servers, relisted)
  BY <1>1, <1>5, <1>6, <1>7 DEF Same
<1> QED
  BY <1>8 DEF relisted

LEMMA UntakenIs ==
    ASSUME NEW list \in Seq(DefType), NEW taken
    PROVE  /\ Untaken(list, taken) \in Seq(DefType) /\ Apart(Untaken(list, taken))
           /\ \A k \in DOMAIN Untaken(list, taken) : Untaken(list, taken)[k].name \notin taken
<1> DEFINE S == {k \in DOMAIN list :
                   /\ list[k].name \notin taken \cup {<< >>}
                   /\ \A j \in 1..(k - 1) : list[j].name # list[k].name}
           picked == Picked(list, S)
<1>1. S \in SUBSET (1..Len(list)) /\ Len(list) \in Nat
  OBVIOUS
<1>2. \A k \in S : list[k].name \notin taken /\ \A j \in 1..(k - 1) : list[j].name # list[k].name
  OBVIOUS
<1>3. Untaken(list, taken) = picked
  BY DEF Untaken
<1> HIDE DEF S
<1>4. picked \in Seq(DefType)
  BY <1>1, PickedIs
<1>5. ASSUME NEW k \in 1..Len(picked), NEW l \in 1..Len(picked), k < l
      PROVE  picked[k].name # picked[l].name
  <2>1. PICK i, j \in S : i < j /\ picked[k] = list[i] /\ picked[l] = list[j]
    BY <1>1, <1>5, PickedInOrder
  <2>2. i \in 1..(j - 1)
    BY <1>1, <2>1
  <2> QED
    BY <1>2, <2>1, <2>2
<1>6. \A k \in 1..Len(picked) : picked[k].name \notin taken
  BY <1>1, <1>2, PickedValues
<1> HIDE DEF picked
<1>7. DOMAIN picked = 1..Len(picked) /\ Len(picked) \in Nat
  BY <1>4
<1>8. \A k, l \in 1..Len(picked) : k = l \/ k < l \/ l < k
  BY <1>7
<1>9. Apart(picked)
  BY <1>5, <1>7, <1>8 DEF Apart
<1> QED
  BY <1>3, <1>4, <1>6, <1>7, <1>9

LEMMA LiveServersAre ==
    ASSUME ServersTypes, ServersApart, Apart(startup)
    PROVE  LiveServers \in Seq(ServerType) /\ Apart(LiveServers)
<1>1. startup \in Seq(ServerType) /\ \A s \in McpSessions : brought[s] \in Seq(ServerType)
  BY DEF ServersTypes
<1>2. CASE liveMcp = "none"
  <2>1. LiveServers = startup
    BY <1>1, <1>2 DEF LiveServers
  <2> QED
    BY <1>1, <2>1
<1>3. CASE liveMcp # "none"
  <2>1. liveMcp \in McpSessions /\ LiveServers = startup \o brought[liveMcp]
    BY <1>3 DEF LiveServers, ServersTypes
  <2>2. brought[liveMcp] \in Seq(ServerType) /\ Apart(startup \o brought[liveMcp])
    BY <1>1, <2>1 DEF ServersApart
  <2>3. startup \o brought[liveMcp] \in Seq(ServerType)
    BY <1>1, <2>2
  <2> QED
    BY <2>1, <2>2, <2>3
<1> QED
  BY <1>2, <1>3

LEMMA ToolSpecsAre ==
    ASSUME LiveServers \in Seq(ServerType)
    PROVE  ToolSpecs \in Seq(SpecType) /\ OfferedBy(ToolSpecs, LiveServers)
<1> DEFINE live == LiveServers
           n == Len(live)
           SpecOf(s, tool) == [full |-> FullName(s.name, tool), who |-> s.who, remote |-> tool]
           SpecsOf(s) == [k \in DOMAIN s.tools |-> SpecOf(s, s.tools[k])]
           specs == [i \in DOMAIN live |-> SpecsOf(live[i])]
<1>1. ToolSpecs = FlattenSeq(specs)
  BY DEF ToolSpecs
<1>2. n \in Nat /\ DOMAIN live = 1..n /\ \A i \in 1..n : live[i] \in ServerType
  OBVIOUS
<1>3. ASSUME NEW s \in ServerType
      PROVE  /\ SpecsOf(s) \in Seq(SpecType)
             /\ \A k \in DOMAIN SpecsOf(s) : Answers(s, SpecsOf(s)[k])
  <2>1. s.name \in Seq(Words) /\ s.who \in Words /\ s.tools \in Seq(Seq(Words))
    BY DEF ServerType
  <2>2. \A tool \in Seq(Words) : SpecOf(s, tool) \in SpecType /\ Answers(s, SpecOf(s, tool))
    <3>1. \A tool \in Seq(Words) : FullName(s.name, tool) \in Seq(Words)
      BY <2>1, FullNameIs
    <3>2. \A tool \in Seq(Words) : SpecOf(s, tool) \in SpecType
      BY <2>1, <3>1 DEF SpecType
    <3>3. \A tool \in Seq(Words) : Answers(s, SpecOf(s, tool))
      BY DEF Answers
    <3> QED
      BY <3>2, <3>3
  <2> DEFINE m == Len(s.tools)
  <2>3. m \in Nat /\ DOMAIN s.tools = 1..m /\ \A k \in 1..m : s.tools[k] \in Seq(Words)
    BY <2>1
  <2> HIDE DEF SpecOf, m
  <2>4. SpecsOf(s) \in [1..m -> SpecType]
    BY <2>2, <2>3
  <2>5. \A D, f : \A k \in Nat : f \in [1..k -> D] => f \in Seq(D)
    OBVIOUS
  <2>6. \A k \in DOMAIN SpecsOf(s) : Answers(s, SpecsOf(s)[k])
    BY <2>2, <2>3
  <2> QED
    BY <2>3, <2>4, <2>5, <2>6
<1> HIDE DEF SpecsOf
<1>4. specs \in [1..n -> Seq(SpecType)]
  BY <1>2, <1>3
<1>5. \A D, f : \A k \in Nat : f \in [1..k -> D] => f \in Seq(D)
  OBVIOUS
<1>6. specs \in Seq(Seq(SpecType))
  BY <1>2, <1>4, <1>5
<1>7. \A i \in 1..n : specs[i] = SpecsOf(live[i])
  BY <1>2
<1>8. DOMAIN specs = 1..n
  BY <1>2
<1> HIDE DEF specs, live, n
<1>9. ToolSpecs \in Seq(SpecType)
  BY <1>1, <1>6, FlattenedFrom
<1>10. ASSUME NEW k \in DOMAIN ToolSpecs
       PROVE  \E i \in DOMAIN live : Answers(live[i], ToolSpecs[k])
  <2>0. \A x \in DOMAIN FlattenSeq(specs) :
          \E i \in DOMAIN specs : \E m \in DOMAIN specs[i] : FlattenSeq(specs)[x] = specs[i][m]
    BY <1>6, FlattenedFrom
  <2>1. PICK i \in 1..n : \E m \in DOMAIN specs[i] : ToolSpecs[k] = specs[i][m]
    BY <1>1, <1>8, <2>0
  <2>2. Answers(live[i], ToolSpecs[k])
    BY <1>2, <1>3, <1>7, <2>1
  <2> QED
    BY <1>2, <2>2
<1> QED
  BY <1>9, <1>10 DEF OfferedBy, live

\* Who answers to a plain name is known.
LEMMA AnsweredByOne ==
    ASSUME NEW servers \in Seq(ServerType), Apart(servers),
           NEW i \in DOMAIN servers, NEW j \in DOMAIN servers, NEW x, NEW y,
           Answers(servers[i], x), Answers(servers[j], y), x.full = y.full, Plain(x.full)
    PROVE  x.who = y.who
<1>1. servers[i].name \in Seq(Words) /\ servers[j].name \in Seq(Words)
  <2>1. servers[i] \in ServerType /\ servers[j] \in ServerType
    OBVIOUS
  <2> QED
    BY <2>1 DEF ServerType
<1>2. PICK s \in Seq(Words) : x.full = FullName(servers[i].name, s) /\ x.who = servers[i].who
  BY DEF Answers
<1>3. PICK t \in Seq(Words) : y.full = FullName(servers[j].name, t) /\ y.who = servers[j].who
  BY DEF Answers
<1> DEFINE a == servers[i].name
           b == servers[j].name
<1>4. FullName(a, s) = FullName(b, t) /\ Plain(FullName(a, s))
  BY <1>2, <1>3
<1>5. a \in Seq(Words) /\ b \in Seq(Words)
  BY <1>1
<1> HIDE DEF a, b
<1>6. a = b
  BY <1>4, <1>5, ServerOfName
<1>7. i = j
  BY <1>6 DEF Apart, a, b
<1> QED
  BY <1>2, <1>3, <1>7

LEMMA RouteIs ==
    ASSUME ToolSpecs \in Seq(SpecType), NEW full, Route(full) # NoRoute
    PROVE  \E k \in DOMAIN ToolSpecs : Route(full) = ToolSpecs[k] /\ ToolSpecs[k].full = full
<1> DEFINE specs == ToolSpecs
           found == {i \in DOMAIN specs : specs[i].full = full}
<1>1. Route(full) = IF found = {} THEN NoRoute ELSE specs[Min(found)]
  BY DEF Route
<1>2. found # {} /\ Route(full) = specs[Min(found)]
  BY <1>1
<1>3. found \subseteq Nat
  <2>1. DOMAIN specs \subseteq Nat
    OBVIOUS
  <2> QED
    BY <2>1
<1>4. \A i \in found : i \in DOMAIN specs /\ specs[i].full = full
  OBVIOUS
<1> HIDE DEF found, specs
<1>5. \E x \in found : \A y \in found : x <= y
  BY <1>2, <1>3, SmallestExists
<1>6. Min(found) = CHOOSE x \in found : \A y \in found : x <= y
  BY DEF Min
<1>7. Min(found) \in found
  BY <1>5, <1>6
<1> QED
  BY <1>2, <1>4, <1>7 DEF specs

-----------------------------------------------------------------------------
(* The invariant *)

LEMMA ServersInitInv == ServersInit => ServersInv
<1> SUFFICES ASSUME ServersInit
             PROVE  ServersInv
  OBVIOUS
<1>1. ServersTypes
  BY InputsHold DEF ServersInit, ServersTypes
<1>2. Apart(<< >>) /\ << >> \o << >> = << >>
  BY DEF Apart
<1>3. Apart(startup) /\ ServersApart
  BY <1>2 DEF ServersInit, ServersApart
<1>4. Configured /\ OfferedByLive
  BY DEF ServersInit, Configured, OfferedByLive
<1>5. NothingYet /\ CallsReachTheirServer
  BY DEF ServersInit, NothingYet, CallsReachTheirServer
<1> QED
  BY <1>1, <1>3, <1>4, <1>5 DEF ServersInv

LEMMA InitMcpInv == ServersInv /\ InitMcp => ServersInv'
<1> SUFFICES ASSUME ServersInv, InitMcp
             PROVE  ServersInv'
  OBVIOUS
<1>1. /\ brought = [s \in McpSessions |-> << >>] /\ offered = << >> /\ liveMcp = "none"
      /\ brought' = brought /\ offered' = offered /\ liveMcp' = liveMcp /\ configs' = configs
      /\ routed' = NoRoute /\ ready'
  BY DEF ServersInv, NothingYet, InitMcp
<1>2. startup' \in Connected(Loaded) /\ configs \in File \X File
  BY DEF ServersInv, ServersTypes, InitMcp, Loaded
<1> DEFINE defs == Loaded
           servers == startup'
<1>3. /\ defs \in Seq(DefType) /\ Apart(defs)
      /\ \A k \in DOMAIN defs : defs[k].who = LastNamed(defs[k].name)
  BY <1>2, LoadedIs
<1>4. servers \in Connected(defs)
  BY <1>2
<1> HIDE DEF defs, servers
<1>5. servers \in Seq(ServerType) /\ Same(defs, servers)
  BY <1>3, <1>4, ConnectedIs
<1>6. Apart(servers)
  BY <1>3, <1>5, SameKeeps
<1>7. \A k \in DOMAIN servers : servers[k].who = LastNamed(servers[k].name)
  BY <1>3, <1>5 DEF Same
<1>8. Configured'
  BY <1>1, <1>7 DEF Configured, LastNamed, servers
<1>9. ServersApart'
  <2>1. servers \o << >> = servers
    BY <1>5
  <2> QED
    BY <1>1, <1>6, <2>1 DEF ServersApart, servers
<1>10. ServersTypes'
  BY <1>1, <1>5 DEF ServersInv, ServersTypes, servers
<1>11. OfferedByLive' /\ NothingYet' /\ CallsReachTheirServer'
  BY <1>1 DEF OfferedByLive, NothingYet, CallsReachTheirServer
<1> QED
  BY <1>6, <1>8, <1>9, <1>10, <1>11 DEF ServersInv, servers

LEMMA ConnectSessionInv ==
    ASSUME ServersInv, NEW t \in McpSessions, ConnectSession(t)
    PROVE  ServersInv'
<1>1. /\ startup' = startup /\ offered' = offered /\ liveMcp' = liveMcp /\ configs' = configs
      /\ wrapped' = wrapped /\ routed' = NoRoute /\ ready' = ready /\ ready /\ liveMcp # t
  BY DEF ConnectSession
<1>2. PICK list \in ClientLists : \E servers :
        LET clean == [i \in DOMAIN list |-> Def(Sanitized(list[i].name), list[i].who)]
        IN  /\ servers \in Connected(Untaken(clean, NamesOf(startup)))
            /\ brought' = [brought EXCEPT ![t] = servers]
  BY DEF ConnectSession
<1> DEFINE n == Len(list)
           clean == [i \in DOMAIN list |-> Def(Sanitized(list[i].name), list[i].who)]
           kept == Untaken(clean, NamesOf(startup))
<1>3. list \in Seq(DefType)
  BY InputsHold
<1>4. clean \in Seq(DefType)
  <2>0. \A i \in 1..n : list[i] \in DefType
    BY <1>3
  <2>1. \A i \in 1..n : list[i].name \in Seq(Words) /\ list[i].who \in Words
    BY <2>0 DEF DefType
  <2>2. \A i \in 1..n : Def(Sanitized(list[i].name), list[i].who) \in DefType
    BY <2>1, SanitizedIs DEF Def, DefType
  <2>3. clean \in [1..n -> DefType] /\ n \in Nat
    BY <1>3, <2>2
  <2>4. \A D, f : \A m \in Nat : f \in [1..m -> D] => f \in Seq(D)
    OBVIOUS
  <2> QED
    BY <2>3, <2>4
<1>5. PICK servers : servers \in Connected(kept) /\ brought' = [brought EXCEPT ![t] = servers]
  BY <1>2
<1> HIDE DEF clean
<1>6. /\ kept \in Seq(DefType) /\ Apart(kept)
      /\ \A k \in DOMAIN kept : kept[k].name \notin NamesOf(startup)
  BY <1>4, UntakenIs
<1> HIDE DEF kept
<1>7. servers \in Seq(ServerType) /\ Same(kept, servers)
  BY <1>5, <1>6, ConnectedIs
<1>8. Apart(servers)
  BY <1>6, <1>7, SameKeeps
<1>9. \A i \in DOMAIN startup, j \in DOMAIN servers : startup[i].name # servers[j].name
  BY <1>6, <1>7 DEF Same, NamesOf
<1>10. startup \in Seq(ServerType) /\ Apart(startup) /\ brought \in [McpSessions -> Seq(ServerType)]
  BY DEF ServersInv, ServersTypes
<1>11. Apart(startup \o servers)
  BY <1>7, <1>8, <1>9, <1>10, ConcatApart
<1>12. ServersApart'
  <2>1. \A s \in McpSessions : brought'[s] = IF s = t THEN servers ELSE brought[s]
    BY <1>5, <1>10
  <2>2. \A s \in McpSessions : Apart(startup \o brought[s])
    BY DEF ServersInv, ServersApart
  <2>3. \A s \in McpSessions : Apart(startup \o brought'[s])
    BY <1>11, <2>1, <2>2
  <2> QED
    BY <1>1, <2>3 DEF ServersApart
<1>13. ServersTypes'
  BY <1>1, <1>5, <1>7, <1>10 DEF ServersInv, ServersTypes
<1>14. Configured' /\ Apart(startup)'
  BY <1>1, <1>10 DEF ServersInv, Configured, LastNamed
<1>15. OfferedByLive'
  <2>1. LiveServers' = LiveServers
    <3>1. liveMcp # "none" => brought'[liveMcp] = brought[liveMcp]
      BY <1>1, <1>5, <1>10 DEF ServersInv, ServersTypes
    <3> QED
      BY <1>1, <3>1 DEF LiveServers
  <2>2. OfferedByLive
    BY DEF ServersInv
  <2> QED
    BY <1>1, <2>1, <2>2 DEF OfferedByLive
<1>16. NothingYet' /\ CallsReachTheirServer'
  BY <1>1 DEF NothingYet, CallsReachTheirServer
<1> QED
  BY <1>12, <1>13, <1>14, <1>15, <1>16 DEF ServersInv

\* A step that leaves the servers alone.
ServersStay ==
    /\ configs' = configs /\ startup' = startup /\ ready' = ready /\ brought' = brought

LEMMA ServersStayInv ==
    ASSUME ServersInv, ServersStay
    PROVE  ServersApart' /\ Apart(startup)' /\ Configured' /\ (liveMcp' = liveMcp => LiveServers' = LiveServers)
  BY DEF ServersInv, ServersStay, ServersApart, Configured, LastNamed, LiveServers

LEMMA InstallServersInv ==
    ASSUME ServersInv, NEW s \in McpSessions \cup {"none"}, InstallServers(s)
    PROVE  ServersInv'
<1>1. /\ ServersStay /\ ready /\ liveMcp' = s /\ wrapped' = FALSE /\ offered' = << >>
      /\ routed' = NoRoute
  BY DEF InstallServers, ServersStay
<1>2. ServersApart' /\ Apart(startup)' /\ Configured'
  BY <1>1, ServersStayInv
<1>3. ServersTypes'
  BY <1>1 DEF ServersInv, ServersTypes, ServersStay
<1>4. OfferedByLive' /\ NothingYet' /\ CallsReachTheirServer'
  BY <1>1 DEF OfferedByLive, NothingYet, CallsReachTheirServer, ServersStay
<1> QED
  BY <1>2, <1>3, <1>4 DEF ServersInv

LEMMA SpecsOfLive ==
    ASSUME ServersInv
    PROVE  /\ LiveServers \in Seq(ServerType) /\ Apart(LiveServers)
           /\ ToolSpecs \in Seq(SpecType) /\ OfferedBy(ToolSpecs, LiveServers)
           /\ ~ready => ToolSpecs = << >>
<1>1. LiveServers \in Seq(ServerType) /\ Apart(LiveServers)
  BY LiveServersAre DEF ServersInv
<1>2. ToolSpecs \in Seq(SpecType) /\ OfferedBy(ToolSpecs, LiveServers)
  BY <1>1, ToolSpecsAre
<1>3. ASSUME ~ready
      PROVE  ToolSpecs = << >>
  <2>1. LiveServers = << >>
    BY <1>3 DEF ServersInv, NothingYet, LiveServers
  <2>2. DOMAIN ToolSpecs = {}
    BY <1>2, <2>1 DEF OfferedBy
  <2> QED
    BY <1>2, <2>2
<1> QED
  BY <1>1, <1>2, <1>3

LEMMA CheckWebSearchInv ==
    ASSUME ServersInv, CheckWebSearch
    PROVE  ServersInv'
<1>1. /\ ServersStay /\ liveMcp' = liveMcp /\ wrapped' = Offers(ToolSpecs, Delegate)
      /\ offered' = << >> /\ routed' = NoRoute
  BY DEF CheckWebSearch, ServersStay
<1>2. ServersApart' /\ Apart(startup)' /\ Configured'
  BY <1>1, ServersStayInv
<1>3. ServersTypes'
  BY <1>1 DEF ServersInv, ServersTypes, ServersStay
<1>4. ~ready => wrapped' = FALSE
  BY <1>1, SpecsOfLive DEF Offers
<1>5. OfferedByLive' /\ NothingYet' /\ CallsReachTheirServer'
  BY <1>1, <1>4 DEF OfferedByLive, NothingYet, CallsReachTheirServer, ServersStay, ServersInv
<1> QED
  BY <1>2, <1>3, <1>5 DEF ServersInv

LEMMA OfferToolsInv ==
    ASSUME ServersInv, OfferTools
    PROVE  ServersInv'
<1> DEFINE specs == ToolSpecs
           S == {i \in DOMAIN specs : ~(wrapped /\ specs[i].full = Delegate)}
<1>1. /\ ServersStay /\ liveMcp' = liveMcp /\ wrapped' = wrapped /\ routed' = routed
      /\ offered = << >> /\ offered' = Picked(specs, S)
  BY DEF OfferTools, ServersStay
<1>2. /\ specs \in Seq(SpecType) /\ OfferedBy(specs, LiveServers)
      /\ ~ready => specs = << >>
  BY SpecsOfLive
<1>3. S \in SUBSET (1..Len(specs)) /\ (specs = << >> => S = {})
  BY <1>2
<1>4. ServersApart' /\ Apart(startup)' /\ Configured' /\ LiveServers' = LiveServers
  BY <1>1, ServersStayInv
<1> HIDE DEF specs, S
<1>5. offered' \in Seq(SpecType)
  BY <1>1, <1>2, <1>3, PickedIs
<1>6. ServersTypes'
  BY <1>1, <1>5 DEF ServersInv, ServersTypes, ServersStay
<1>7. OfferedByLive'
  <2>1. ASSUME NEW k \in DOMAIN offered'
        PROVE  \E i \in DOMAIN LiveServers : Answers(LiveServers[i], offered'[k])
    <3>1. k \in 1..Len(Picked(specs, S))
      BY <1>1, <1>5
    <3>2. PICK j \in S : Picked(specs, S)[k] = specs[j]
      BY <1>2, <1>3, <3>1, PickedValues
    <3>3. j \in DOMAIN specs /\ offered'[k] = specs[j]
      BY <1>1, <1>2, <1>3, <3>2
    <3> QED
      BY <1>2, <3>3 DEF OfferedBy
  <2> QED
    BY <1>4, <2>1 DEF OfferedByLive
<1>8. NothingYet'
  <2>1. ~ready => offered' = << >>
    BY <1>1, <1>2, <1>3, PickNone
  <2> QED
    BY <1>1, <2>1 DEF ServersInv, NothingYet, ServersStay
<1>9. CallsReachTheirServer'
  BY <1>1 DEF ServersInv, CallsReachTheirServer
<1> QED
  BY <1>4, <1>6, <1>7, <1>8, <1>9 DEF ServersInv

LEMMA RelistInv ==
    ASSUME ServersInv, Relist
    PROVE  ServersInv'
<1>1. /\ configs' = configs /\ ready' = ready /\ liveMcp' = liveMcp /\ wrapped' = wrapped
      /\ offered' = offered /\ routed' = NoRoute
  BY DEF Relist
<1>2. startup \in Seq(ServerType) /\ brought \in [McpSessions -> Seq(ServerType)]
  BY DEF ServersInv, ServersTypes
<1>3. /\ startup' \in Seq(ServerType) /\ Same(startup, startup')
      /\ brought' \in [McpSessions -> Seq(ServerType)]
      /\ \A s \in McpSessions : Same(brought[s], brought'[s])
      /\ ready
  <2>0. \A servers : Same(servers, servers)
    BY DEF Same
  <2>1. PICK tools \in ToolLists \cup {<< >>} :
          \/ \E i \in DOMAIN startup :
               startup' = [startup EXCEPT ![i].tools = tools] /\ brought' = brought
          \/ \E s \in McpSessions : \E i \in DOMAIN brought[s] :
               brought' = [brought EXCEPT ![s][i].tools = tools] /\ startup' = startup
    BY DEF Relist
  <2>2. CASE \E i \in DOMAIN startup :
               startup' = [startup EXCEPT ![i].tools = tools] /\ brought' = brought
    <3>0. PICK i \in DOMAIN startup : startup' = [startup EXCEPT ![i].tools = tools]
      BY <2>2
    <3>1. startup' \in Seq(ServerType) /\ Same(startup, startup')
      BY <1>2, <3>0, RelistedIs
    <3>2. ready
      BY <2>2 DEF ServersInv, NothingYet
    <3> QED
      BY <1>2, <2>0, <2>2, <3>1, <3>2
  <2>3. CASE \E s \in McpSessions : \E i \in DOMAIN brought[s] :
               brought' = [brought EXCEPT ![s][i].tools = tools] /\ startup' = startup
    <3>1. PICK s \in McpSessions : \E i \in DOMAIN brought[s] :
                brought' = [brought EXCEPT ![s][i].tools = tools] /\ startup' = startup
      BY <2>3
    <3>2. PICK i \in DOMAIN brought[s] :
                brought' = [brought EXCEPT ![s][i].tools = tools] /\ startup' = startup
      BY <3>1
    <3> DEFINE old == brought[s]
               new == [old EXCEPT ![i].tools = tools]
    <3>3. old \in Seq(ServerType) /\ i \in DOMAIN old
      BY <1>2
    <3>4. brought' = [brought EXCEPT ![s] = new]
      BY <3>2
    <3>5. new \in Seq(ServerType) /\ Same(old, new)
      BY <3>3, RelistedIs
    <3>6. ready
      BY <3>2 DEF ServersInv, NothingYet
    <3> HIDE DEF new
    <3>7. \A r \in McpSessions : Same(brought[r], brought'[r])
      BY <1>2, <2>0, <3>4, <3>5
    <3> QED
      BY <1>2, <2>0, <3>2, <3>4, <3>5, <3>6, <3>7
  <2> QED
    BY <2>1, <2>2, <2>3
<1>4. Apart(startup')
  BY <1>3, SameKeeps DEF ServersInv
<1>5. \A s \in McpSessions : Apart(startup \o brought[s]) => Apart(startup' \o brought'[s])
  <2> TAKE s \in McpSessions
  <2>1. brought[s] \in Seq(ServerType) /\ brought'[s] \in Seq(ServerType)
    BY <1>2, <1>3
  <2>2. Same(startup \o brought[s], startup' \o brought'[s])
    BY <1>2, <1>3, <2>1, SameConcat
  <2> QED
    BY <2>2, SameKeeps
<1>6. ServersApart'
  BY <1>5 DEF ServersInv, ServersApart
<1>7. ServersTypes'
  BY <1>1, <1>3 DEF ServersInv, ServersTypes
<1>8. Configured'
  <2>1. \A i \in DOMAIN startup' : startup'[i].who = LastNamed(startup'[i].name)
    BY <1>3 DEF ServersInv, Configured, Same
  <2> QED
    BY <1>1, <2>1 DEF Configured, LastNamed
<1>9. Same(LiveServers, LiveServers')
  <2>1. CASE liveMcp = "none"
    <3>1. LiveServers = startup \o << >> /\ LiveServers' = startup' \o << >>
      BY <1>1, <2>1 DEF LiveServers
    <3>2. startup \o << >> = startup /\ startup' \o << >> = startup'
      BY <1>2, <1>3
    <3> QED
      BY <1>3, <3>1, <3>2
  <2>2. CASE liveMcp # "none"
    <3>1. liveMcp \in McpSessions
      BY <2>2 DEF ServersInv, ServersTypes
    <3>2. LiveServers = startup \o brought[liveMcp] /\ LiveServers' = startup' \o brought'[liveMcp]
      BY <1>1, <2>2 DEF LiveServers
    <3>3. brought[liveMcp] \in Seq(ServerType) /\ brought'[liveMcp] \in Seq(ServerType)
      BY <1>2, <1>3, <3>1
    <3>4. Same(startup \o brought[liveMcp], startup' \o brought'[liveMcp])
      BY <1>2, <1>3, <3>1, <3>3, SameConcat
    <3> QED
      BY <3>2, <3>4
  <2> QED
    BY <2>1, <2>2
<1>10. OfferedByLive'
  <2>1. OfferedBy(offered, LiveServers)
    BY DEF ServersInv, OfferedByLive, OfferedBy
  <2>2. OfferedBy(offered, LiveServers')
    BY <1>9, <2>1, SameKeeps
  <2> QED
    BY <1>1, <2>2 DEF OfferedByLive, OfferedBy
<1>11. NothingYet' /\ CallsReachTheirServer'
  BY <1>1, <1>3 DEF NothingYet, CallsReachTheirServer
<1> QED
  BY <1>4, <1>6, <1>7, <1>8, <1>10, <1>11 DEF ServersInv

LEMMA RouteCallInv ==
    ASSUME ServersInv, RouteCall
    PROVE  ServersInv'
<1>1. /\ ServersStay /\ liveMcp' = liveMcp /\ wrapped' = wrapped /\ offered' = offered
  BY DEF RouteCall, ServersStay
<1>2. ServersApart' /\ Apart(startup)' /\ Configured' /\ LiveServers' = LiveServers
  BY <1>1, ServersStayInv
<1>3. ServersTypes' /\ OfferedByLive' /\ NothingYet'
  BY <1>1, <1>2 DEF ServersInv, ServersTypes, OfferedByLive, NothingYet, ServersStay
<1>4. PICK full : /\ (\E i \in DOMAIN offered : full = offered[i].full) \/ (wrapped /\ full = Delegate)
                  /\ routed' = Route(full)
  BY DEF RouteCall
<1> DEFINE live == LiveServers
           specs == ToolSpecs
<1>5. /\ live \in Seq(ServerType) /\ Apart(live)
      /\ specs \in Seq(SpecType) /\ OfferedBy(specs, live)
  BY SpecsOfLive
<1>6. OfferedBy(offered, live)
  BY DEF ServersInv, OfferedByLive, OfferedBy
<1>7. ASSUME routed' # NoRoute, Plain(routed'.full)
      PROVE  \/ \E i \in DOMAIN offered : /\ offered[i].full = routed'.full
                                          /\ offered[i].who = routed'.who
             \/ wrapped /\ routed'.full = Delegate
  <2>1. PICK k \in DOMAIN specs : routed' = specs[k] /\ specs[k].full = full
    BY <1>4, <1>5, <1>7, RouteIs
  <2> HIDE DEF live, specs
  <2>2. CASE wrapped /\ full = Delegate
    BY <2>1, <2>2
  <2>3. CASE \E i \in DOMAIN offered : full = offered[i].full
    <3>1. PICK i \in DOMAIN offered : full = offered[i].full
      BY <2>3
    <3>2. PICK a \in DOMAIN live : Answers(live[a], offered[i])
      BY <1>6 DEF OfferedBy
    <3>3. PICK b \in DOMAIN live : Answers(live[b], specs[k])
      BY <1>5 DEF OfferedBy
    <3> DEFINE x == offered[i]
               y == specs[k]
    <3>4. x.full = y.full /\ Plain(x.full)
      BY <1>7, <2>1, <3>1
    <3>5. x.who = y.who
      BY <1>5, <3>2, <3>3, <3>4, AnsweredByOne
    <3> QED
      BY <2>1, <3>4, <3>5
  <2> QED
    BY <1>4, <2>2, <2>3
<1>8. CallsReachTheirServer'
  BY <1>1, <1>7 DEF CallsReachTheirServer
<1> QED
  BY <1>2, <1>3, <1>8 DEF ServersInv

LEMMA ServersStep == ServersInv /\ [McpServersNext]_mcpServersVars => ServersInv'
<1> SUFFICES ASSUME ServersInv, [McpServersNext]_mcpServersVars
             PROVE  ServersInv'
  OBVIOUS
<1>1. CASE UNCHANGED mcpServersVars
  <2>1. /\ ServersStay /\ liveMcp' = liveMcp /\ wrapped' = wrapped /\ offered' = offered
        /\ routed' = routed
    BY <1>1 DEF mcpServersVars, ServersStay
  <2>2. ServersApart' /\ Apart(startup)' /\ Configured' /\ LiveServers' = LiveServers
    BY <2>1, ServersStayInv
  <2>3. ServersTypes' /\ OfferedByLive' /\ NothingYet'
    BY <2>1, <2>2 DEF ServersInv, ServersTypes, OfferedByLive, NothingYet, ServersStay
  <2>4. CallsReachTheirServer'
    BY <2>1 DEF ServersInv, CallsReachTheirServer
  <2> QED
    BY <2>2, <2>3, <2>4 DEF ServersInv
<1>2. CASE McpServersNext
  BY <1>2, InitMcpInv, ConnectSessionInv, InstallServersInv, CheckWebSearchInv, OfferToolsInv,
     RelistInv, RouteCallInv DEF McpServersNext
<1> QED
  BY <1>1, <1>2

LEMMA RoutesFollow == ServersInv => RoutesAreSound
<1> SUFFICES ASSUME ServersInv
             PROVE  RoutesAreSound
  OBVIOUS
<1>1. StartupIsConfigured
  <2> SUFFICES ASSUME NEW i \in DOMAIN startup
               PROVE  Cardinality(Named(startup, startup[i].name)) = 1
                      /\ startup[i].who = LastNamed(startup[i].name)
    BY DEF StartupIsConfigured
  <2>1. Named(startup, startup[i].name) = {i}
    BY DEF ServersInv, Apart, Named
  <2>2. Cardinality({i}) = 1
    BY FS_Singleton
  <2> QED
    BY <2>1, <2>2 DEF ServersInv, Configured
<1>2. OfferedApart
  <2> SUFFICES ASSUME NEW i \in DOMAIN offered, NEW j \in DOMAIN offered,
                      offered[i].full = offered[j].full, Plain(offered[i].full)
               PROVE  offered[i].who = offered[j].who
    BY DEF OfferedApart
  <2> DEFINE live == LiveServers
  <2>1. live \in Seq(ServerType) /\ Apart(live)
    BY SpecsOfLive
  <2>2. PICK a \in DOMAIN live : Answers(live[a], offered[i])
    BY DEF ServersInv, OfferedByLive
  <2>3. PICK b \in DOMAIN live : Answers(live[b], offered[j])
    BY DEF ServersInv, OfferedByLive
  <2> HIDE DEF live
  <2> QED
    BY <2>1, <2>2, <2>3, AnsweredByOne
<1>3. CallsReachTheirServer
  BY DEF ServersInv
<1> QED
  BY <1>1, <1>2, <1>3 DEF RoutesAreSound

\* Whatever the files, the clients and the servers list: the servers of the
\* process are those the files and the built-in ones make, each name once; no
\* two servers offer a turn one name, and a call goes to the server that
\* offered its tool or nowhere (load_configs, connect_session_servers,
\* tool_specs and call_tool).
THEOREM CallsAreRouted == McpServersSpec => []RoutesAreSound
<1>1. McpServersSpec => []ServersInv
  BY ServersInitInv, ServersStep, PTL DEF McpServersSpec
<1> QED
  BY <1>1, RoutesFollow, PTL

-----------------------------------------------------------------------------
(***************************************************************************)
(* AttributionIsSound for any hooks, tool calls and uses of git.  As long  *)
(* as nobody raced the watch, what it saw in one look is still so in the   *)
(* next: the message it read is that of HEAD, and HEAD is on no remote.    *)
(***************************************************************************)

Commits == [parent : Nat, text : Nat, trailer : BOOLEAN, comments : BOOLEAN]

\* repo.pushed is only ever asked for membership.
RepoTypes ==
    /\ repo = [commits |-> repo.commits, head |-> repo.head, pushed |-> repo.pushed]
    /\ repo.commits \in Seq(Commits)
    /\ repo.head \in DOMAIN repo.commits

WatchTypes ==
    watch = [on |-> watch.on, head |-> watch.head, message |-> watch.message, cwd |-> watch.cwd]

MessageIsRead == step \in {"remotes", "amend"} => watch.message \in DOMAIN repo.commits

LooksAgree ==
    ~raced => /\ step \in {"remotes", "amend"} => watch.message = repo.head
              /\ step = "amend" => repo.head \notin repo.pushed

WatchInv == RepoTypes /\ WatchTypes /\ MessageIsRead /\ LooksAgree

LEMMA RunInitInv == RunInit => WatchInv
<1> SUFFICES ASSUME RunInit
             PROVE  WatchInv
  OBVIOUS
<1> DEFINE first == NewCommit(0, 1, FALSE, FALSE)
<1>1. first \in Commits
  BY DEF NewCommit, Commits
<1>2. PICK pushed \in {{}, {1}} :
         repo = [commits |-> <<first>>, head |-> 1, pushed |-> pushed]
  BY DEF RunInit
<1> HIDE DEF first
<1>3. RepoTypes
  <2>1. <<first>> \in Seq(Commits) /\ Len(<<first>>) = 1 /\ DOMAIN <<first>> = 1..1
    BY <1>1
  <2>2. repo.commits = <<first>> /\ repo.head = 1
    BY <1>2
  <2>3. repo = [commits |-> repo.commits, head |-> repo.head, pushed |-> repo.pushed]
    BY <1>2
  <2> QED
    BY <2>1, <2>2, <2>3 DEF RepoTypes
<1>4. WatchTypes /\ step = "idle"
  BY DEF RunInit, WatchTypes, NoWatch
<1> QED
  BY <1>3, <1>4 DEF WatchInv, MessageIsRead, LooksAgree

\* What a step that leaves the repository alone has to see to.
LEMMA SameRepoKeeps ==
  ASSUME WatchInv, UNCHANGED repo, WatchTypes', MessageIsRead', LooksAgree'
  PROVE  WatchInv'
BY DEF WatchInv, RepoTypes

\* A commit at the end of the list, and HEAD at it.
LEMMA AppendedCommit ==
  ASSUME RepoTypes, NEW c \in Commits,
         repo' = [repo EXCEPT !.commits = Append(repo.commits, c),
                              !.head = Len(repo.commits) + 1]
  PROVE  /\ RepoTypes' /\ repo'.commits[repo'.head] = c
         /\ DOMAIN repo.commits \subseteq DOMAIN repo'.commits
<1> DEFINE commits == repo.commits
           longer == Append(commits, c)
<1>1. repo' = [commits |-> longer, head |-> Len(commits) + 1, pushed |-> repo.pushed]
  BY DEF RepoTypes
<1>2. commits \in Seq(Commits)
  BY DEF RepoTypes
<1>3. longer \in Seq(Commits) /\ Len(longer) = Len(commits) + 1 /\ Len(commits) \in Nat
      /\ DOMAIN longer = 1..Len(longer) /\ longer[Len(commits) + 1] = c
  BY <1>2
<1>4. repo'.commits = longer /\ repo'.head = Len(commits) + 1 /\ repo'.pushed = repo.pushed
  BY <1>1
<1> HIDE DEF commits, longer
<1>5. Len(commits) + 1 \in DOMAIN longer /\ DOMAIN commits \subseteq DOMAIN longer
  BY <1>2, <1>3
<1>6. repo' = [commits |-> repo'.commits, head |-> repo'.head, pushed |-> repo'.pushed]
  BY <1>1
<1>7. DOMAIN repo.commits = DOMAIN commits
  BY DEF commits
<1> QED
  BY <1>3, <1>4, <1>5, <1>6, <1>7 DEF RepoTypes

LEMMA HeadIsACommit ==
  ASSUME RepoTypes
  PROVE  HeadCommit \in Commits
BY DEF RepoTypes, HeadCommit

\* The amended commit: HEAD's parent, the text that was read, the trailer.
LEMMA AmendStep ==
  ASSUME WatchInv, Amend, repo' # repo, ~raced'
  PROVE  /\ RepoTypes'
         /\ repo.head \notin repo.pushed
         /\ repo'.commits[repo'.head] = NewCommit(HeadCommit.parent, HeadCommit.text, TRUE, FALSE)
<1>1. watch.message = repo.head /\ repo.head \notin repo.pushed
  BY DEF WatchInv, LooksAgree, Amend
<1>2. repo.commits[watch.message].text = HeadCommit.text
  BY <1>1 DEF HeadCommit
<1>3. NewCommit(HeadCommit.parent, HeadCommit.text, TRUE, FALSE) \in Commits
  BY HeadIsACommit DEF WatchInv, NewCommit, Commits
<1>4. repo' = [repo EXCEPT !.commits = Append(repo.commits,
                                NewCommit(HeadCommit.parent, HeadCommit.text, TRUE, FALSE)),
                           !.head = Len(repo.commits) + 1]
  BY <1>2 DEF Amend
<1> QED
  BY <1>1, <1>3, <1>4, AppendedCommit DEF WatchInv

LEMMA GitStep ==
  ASSUME WatchInv, GitIsUsed
  PROVE  WatchInv'
<1>1. WatchTypes'
  BY DEF WatchInv, WatchTypes, GitIsUsed
<1>2. LooksAgree'
  <2>1. CASE step \in Looks
    BY <2>1 DEF GitIsUsed, LooksAgree
  <2>2. CASE step = "tool"
    BY <2>2 DEF GitIsUsed, LooksAgree
  <2> QED
    BY <2>1, <2>2 DEF GitIsUsed
<1>3. RepoTypes' /\ DOMAIN repo.commits \subseteq DOMAIN repo'.commits
  <2>1. CASE CommitsOnHead
    <3>1. PICK trailer \in BOOLEAN, comments \in BOOLEAN :
            repo' = [repo EXCEPT
                       !.commits = Append(repo.commits, NewCommit(repo.head, Len(repo.commits) + 1,
                                                                  trailer, comments)),
                       !.head = Len(repo.commits) + 1]
      BY <2>1 DEF CommitsOnHead
    <3>2. repo.head \in Nat /\ Len(repo.commits) + 1 \in Nat
      BY DEF WatchInv, RepoTypes
    <3>3. NewCommit(repo.head, Len(repo.commits) + 1, trailer, comments) \in Commits
      BY <3>2 DEF NewCommit, Commits
    <3> QED
      BY <3>1, <3>3, AppendedCommit DEF WatchInv
  <2>2. CASE PushesHead
    <3> DEFINE more == repo.pushed \cup Ancestors(repo.commits, repo.head)
    <3>1. repo' = [repo EXCEPT !.pushed = more]
      BY <2>2 DEF PushesHead
    <3> HIDE DEF more
    <3> QED
      BY <3>1 DEF WatchInv, RepoTypes
  <2>3. CASE ChecksOut
    BY <2>3 DEF ChecksOut, WatchInv, RepoTypes
  <2> QED
    BY <2>1, <2>2, <2>3 DEF GitIsUsed
<1>4. MessageIsRead'
  BY <1>3 DEF GitIsUsed, WatchInv, MessageIsRead
<1> QED
  BY <1>1, <1>2, <1>3, <1>4 DEF WatchInv

LEMMA RunStep == WatchInv /\ [RunNext]_runVars => WatchInv'
<1> SUFFICES ASSUME WatchInv, [RunNext]_runVars
             PROVE  WatchInv'
  OBVIOUS
<1> USE DEF WatchInv
<1>1. CASE Call
  <2>1. UNCHANGED repo /\ step' \notin Looks
    BY <1>1 DEF Call, CallBegins, ToolBegins, CallEnds, Looks
  <2>2. WatchTypes'
    BY <1>1 DEF Call, CallBegins, ToolBegins, CallEnds, WatchTypes, NoWatch
  <2>3. MessageIsRead' /\ LooksAgree'
    BY <2>1 DEF MessageIsRead, LooksAgree, Looks
  <2> QED
    BY <2>1, <2>2, <2>3, SameRepoKeeps
<1>2. CASE ToolReturns
  <2>1. UNCHANGED <<repo, watch>> /\ step' \in {"head", "post"}
    BY <1>2 DEF ToolReturns, PostHooksBegin
  <2> QED
    BY <2>1, SameRepoKeeps DEF MessageIsRead, LooksAgree, WatchTypes
<1>3. CASE Hook \/ UNCHANGED runVars
  <2>1. UNCHANGED <<repo, watch, step, raced>>
    BY <1>3 DEF Hook, HookStarts, HelperStarts, HelperEnds, HookExits, HookTimesOut,
                CollectOutput, runVars
  <2> QED
    BY <2>1, SameRepoKeeps DEF MessageIsRead, LooksAgree, WatchTypes
<1>4. CASE LookAtHead
  <2>1. UNCHANGED <<repo, watch>> /\ step' \in {"message", "post"}
    BY <1>4 DEF LookAtHead, PostHooksBegin
  <2> QED
    BY <2>1, SameRepoKeeps DEF MessageIsRead, LooksAgree, WatchTypes
<1>5. CASE ReadMessage
  <2>1. UNCHANGED repo /\ watch' = [watch EXCEPT !.message = repo.head]
        /\ step' \in {"remotes", "post"}
    BY <1>5 DEF ReadMessage, PostHooksBegin
  <2>2. WatchTypes' /\ watch'.message = repo.head
    BY <2>1 DEF WatchTypes
  <2>3. repo.head \in DOMAIN repo.commits
    BY DEF RepoTypes
  <2> QED
    BY <2>1, <2>2, <2>3, SameRepoKeeps DEF MessageIsRead, LooksAgree
<1>6. CASE AskRemotes
  <2>1. UNCHANGED <<repo, watch, raced>> /\ step = "remotes"
        /\ \/ step' = "post"
           \/ step' = "amend" /\ repo.head \notin repo.pushed
    BY <1>6 DEF AskRemotes, PostHooksBegin
  <2> QED
    BY <2>1, SameRepoKeeps DEF MessageIsRead, LooksAgree, WatchTypes
<1>7. CASE Amend
  <2>1. UNCHANGED <<watch, raced>> /\ step' = "post"
    BY <1>7 DEF Amend, PostHooksBegin
  <2>2. RepoTypes'
    <3>1. CASE repo' = repo
      BY <3>1 DEF RepoTypes
    <3>2. CASE repo' # repo
      <4> DEFINE text == repo.commits[watch.message].text
      <4>1. repo' = [repo EXCEPT !.commits = Append(repo.commits,
                                     NewCommit(HeadCommit.parent, text, TRUE, FALSE)),
                                 !.head = Len(repo.commits) + 1]
        BY <1>7, <3>2 DEF Amend
      <4>2. HeadCommit \in Commits /\ repo.commits[watch.message] \in Commits
        BY <1>7, HeadIsACommit DEF Amend, MessageIsRead, RepoTypes
      <4>3. NewCommit(HeadCommit.parent, text, TRUE, FALSE) \in Commits
        BY <4>2 DEF NewCommit, Commits
      <4> HIDE DEF text
      <4> QED
        BY <4>1, <4>3, AppendedCommit
    <3> QED
      BY <3>1, <3>2
  <2> QED
    BY <2>1, <2>2 DEF MessageIsRead, LooksAgree, WatchTypes
<1>8. CASE GitIsUsed
  BY <1>8, GitStep
<1> QED
  BY <1>1, <1>2, <1>3, <1>4, <1>5, <1>6, <1>7, <1>8 DEF RunNext, WatchFinishes

\* The steps by which the watch gets through.
LEMMA ThroughSteps ==
  ASSUME WatchInv, [RunNext]_runVars, Through
  PROVE  LookAtHead \/ ReadMessage \/ AskRemotes \/ Amend
<1>1. step \in Looks /\ step' = "post"
  BY DEF Through
<1>2. ~Call /\ ~ToolReturns
  BY <1>1 DEF Call, CallBegins, ToolBegins, CallEnds, ToolReturns, Looks
<1>3. ~Hook /\ ~GitIsUsed /\ ~UNCHANGED runVars
  BY <1>1 DEF Hook, HookStarts, HelperStarts, HelperEnds, HookExits, HookTimesOut, CollectOutput,
              GitIsUsed, runVars, Looks
<1> QED
  BY <1>2, <1>3 DEF RunNext, WatchFinishes

\* Only an amend, or somebody who races it, changes the repository then.
LEMMA AmendedByAmend ==
  ASSUME [RunNext]_runVars, Amended, ~raced'
  PROVE  Amend
<1>1. step = "amend" /\ repo' # repo
  BY DEF Amended
<1>2. ~Call /\ ~ToolReturns /\ ~LookAtHead /\ ~ReadMessage /\ ~AskRemotes
  BY <1>1 DEF Call, CallBegins, ToolBegins, CallEnds, ToolReturns, LookAtHead, ReadMessage, AskRemotes
<1>3. ~Hook /\ ~UNCHANGED runVars
  BY <1>1 DEF Hook, HookStarts, HelperStarts, HelperEnds, HookExits, HookTimesOut, CollectOutput,
              runVars
<1>4. ~GitIsUsed
  BY <1>1 DEF GitIsUsed, Looks
<1> QED
  BY <1>2, <1>3, <1>4 DEF RunNext, WatchFinishes

LEMMA LocalStep ==
  ASSUME WatchInv, [RunNext]_runVars, Amended, ~raced'
  PROVE  /\ repo.head \notin repo.pushed
         /\ repo'.commits[repo'.head].text = HeadCommit.text
         /\ repo'.commits[repo'.head].parent = HeadCommit.parent
<1>1. repo' # repo
  BY DEF Amended
<1> QED
  BY <1>1, AmendedByAmend, AmendStep DEF NewCommit

LEMMA ThroughStep ==
  ASSUME WatchInv, [RunNext]_runVars, Through, ~raced',
         repo'.head # watch.head, repo'.head \notin repo'.pushed
  PROVE  \/ step = "amend" /\ repo' = repo
         \/ repo'.commits[repo'.head].trailer /\ ~repo'.commits[repo'.head].comments
<1>1. CASE LookAtHead
  BY <1>1 DEF LookAtHead, Through
<1>2. CASE ReadMessage
  BY <1>2 DEF ReadMessage, Through, HeadCommit
<1>3. CASE AskRemotes
  BY <1>3 DEF AskRemotes, Through
<1>4. CASE Amend /\ repo' # repo
  BY <1>4, AmendStep DEF NewCommit
<1>5. CASE Amend /\ repo' = repo
  BY <1>5 DEF Amend
<1> QED
  BY <1>1, <1>2, <1>3, <1>4, <1>5, ThroughSteps

\* AttributionIsSound: the watch changes no commit that is on a remote, keeps
\* the text of the one it changes, and leaves no new local commit without the
\* trailer, unless somebody used the repository during its looks.
THEOREM CommitsAreAttributed == RunSpec => AttributionIsSound
<1>1. RunSpec => []WatchInv
  BY RunInitInv, RunStep, PTL DEF RunSpec
<1>2. WatchInv /\ [RunNext]_runVars =>
        [Amended /\ ~raced' =>
           /\ repo.head \notin repo.pushed
           /\ repo'.commits[repo'.head].text = HeadCommit.text
           /\ repo'.commits[repo'.head].parent = HeadCommit.parent]_runVars
  BY LocalStep
<1>3. WatchInv /\ [RunNext]_runVars =>
        [Through /\ ~raced' /\ repo'.head # watch.head /\ repo'.head \notin repo'.pushed
           => \/ step = "amend" /\ repo' = repo
              \/ repo'.commits[repo'.head].trailer /\ ~repo'.commits[repo'.head].comments]_runVars
  BY ThroughStep
<1>4. RunSpec => OnlyLocalCommitsChange
  BY <1>1, <1>2, PTL DEF RunSpec, OnlyLocalCommitsChange
<1>5. RunSpec => NewCommitsAreAttributed
  BY <1>1, <1>3, PTL DEF RunSpec, NewCommitsAreAttributed
<1> QED
  BY <1>4, <1>5 DEF AttributionIsSound

-----------------------------------------------------------------------------
(***************************************************************************)
(* SavesAreWhole for any number of processes and of sessions.  What makes  *)
(* it hold is that a temporary file belongs to one process: whatever the   *)
(* others save, delete or leave behind, the file a process is about to     *)
(* rename holds what that process wrote.                                   *)
(***************************************************************************)

TempFiles == [save : Nat, whole : BOOLEAN, modified : Nat]

Savers == [pc : {"idle", "write", "rename", "meta"}, id : Saved \cup {0}, save : Nat]

StoreTypes ==
    /\ temps \in [Saved \X Processes -> TempFiles]
    /\ savers \in [Processes -> Savers]
    /\ \A p \in Processes : savers[p].pc # "idle" => savers[p].id \in Saved
    /\ clock \in Nat /\ saves \in Nat

\* A save that is being written began its temporary file, and one that is
\* written finished it.
OwnTemp(p) ==
    /\ savers[p].pc = "write" => temps[<<savers[p].id, p>>].save = savers[p].save
    /\ savers[p].pc = "rename" => temps[<<savers[p].id, p>>].whole

TempsAreOwn == \A p \in Processes : OwnTemp(p)

StoreInv == /\ StoreTypes /\ TempsAreOwn
            /\ DOMAIN files = Saved /\ SavesAreWhole

LEMMA StoreInitInv == StoreInit => StoreInv
<1> SUFFICES ASSUME StoreInit
             PROVE  StoreInv
  OBVIOUS
<1>1. NoTemp \in TempFiles /\ NoSave \in Savers /\ NoSave.pc = "idle"
  BY DEF NoTemp, NoSave, TempFiles, Savers
<1>2. StoreTypes
  BY <1>1 DEF StoreInit, StoreTypes
<1>3. TempsAreOwn
  BY <1>1 DEF StoreInit, TempsAreOwn, OwnTemp
<1>4. DOMAIN files = Saved /\ SavesAreWhole
  BY DEF StoreInit, SavesAreWhole, NoFile
<1> QED
  BY <1>2, <1>3, <1>4 DEF StoreInv

\* What a step of process p has to show: the temporary files of the others
\* are as they were, and its own is in order.
LEMMA StepOfOne ==
    ASSUME StoreInv, NEW p \in Processes, StoreTypes',
           \A q \in Processes \ {p} : savers'[q] = savers[q],
           \A i \in Saved, q \in Processes \ {p} : temps'[<<i, q>>] = temps[<<i, q>>],
           OwnTemp(p)',
           (DOMAIN files = Saved /\ SavesAreWhole)'
    PROVE  StoreInv'
<1>1. ASSUME NEW q \in Processes \ {p}
      PROVE  OwnTemp(q)'
  BY <1>1 DEF StoreInv, StoreTypes, TempsAreOwn, OwnTemp
<1>2. TempsAreOwn'
  BY <1>1 DEF TempsAreOwn
<1> QED
  BY <1>2 DEF StoreInv

LEMMA BeginSaveInv ==
    ASSUME StoreInv, NEW p \in Processes, BeginSave(p)
    PROVE  StoreInv'
<1>1. PICK i \in Saved :
        /\ savers' = [savers EXCEPT ![p] = [pc |-> "write", id |-> i, save |-> saves + 1]]
        /\ temps' = [temps EXCEPT ![<<i, p>>] = [NoTemp EXCEPT !.save = saves + 1]]
  BY DEF BeginSave, TempOf
<1>2. saves + 1 \in Nat /\ saves' = saves + 1 /\ UNCHANGED <<files, clock>>
  BY DEF BeginSave, StoreInv, StoreTypes
<1> DEFINE temp == [NoTemp EXCEPT !.save = saves + 1]
           saver == [pc |-> "write", id |-> i, save |-> saves + 1]
<1>3. temp \in TempFiles /\ temp.save = saves + 1
  BY <1>2 DEF NoTemp, TempFiles
<1>4. saver \in Savers /\ saver.pc = "write" /\ saver.id = i /\ saver.save = saves + 1
  BY <1>2 DEF Savers
<1>5. temps' = [temps EXCEPT ![<<i, p>>] = temp] /\ savers' = [savers EXCEPT ![p] = saver]
  BY <1>1
<1> HIDE DEF temp, saver
<1>6. StoreTypes'
  BY <1>2, <1>3, <1>4, <1>5 DEF StoreInv, StoreTypes
<1>7. OwnTemp(p)'
  BY <1>3, <1>4, <1>5 DEF StoreInv, StoreTypes, OwnTemp
<1>8. /\ \A q \in Processes \ {p} : savers'[q] = savers[q]
      /\ \A j \in Saved, q \in Processes \ {p} : temps'[<<j, q>>] = temps[<<j, q>>]
  BY <1>5 DEF StoreInv, StoreTypes
<1>9. (DOMAIN files = Saved /\ SavesAreWhole)'
  BY <1>2 DEF StoreInv, SavesAreWhole
<1> QED
  BY <1>6, <1>7, <1>8, <1>9, StepOfOne

LEMMA WriteHistoryInv ==
    ASSUME StoreInv, NEW p \in Processes, WriteHistory(p)
    PROVE  StoreInv'
<1> DEFINE k == <<savers[p].id, p>>
<1>1. PICK tick \in {0, 1} :
        /\ clock' = clock + tick
        /\ temps' = [temps EXCEPT ![k] = [@ EXCEPT !.whole = (temps[k].save = savers[p].save),
                                                   !.modified = clock + tick]]
  BY DEF WriteHistory, Temp, TempOf
<1>2. /\ savers[p].pc = "write" /\ savers' = [savers EXCEPT ![p] = [@ EXCEPT !.pc = "rename"]]
      /\ UNCHANGED <<files, saves>> /\ clock + tick \in Nat
  BY DEF WriteHistory, StoreInv, StoreTypes
<1>3. savers[p] \in Savers /\ savers[p].id \in Saved /\ k \in Saved \X Processes
  BY <1>2 DEF StoreInv, StoreTypes
<1>4. temps[k] \in TempFiles /\ temps[k].save = savers[p].save
  BY <1>2, <1>3 DEF StoreInv, StoreTypes, TempsAreOwn, OwnTemp
<1> DEFINE temp == [temps[k] EXCEPT !.whole = (temps[k].save = savers[p].save), !.modified = clock + tick]
           saver == [savers[p] EXCEPT !.pc = "rename"]
<1>5. temp \in TempFiles /\ temp.whole
  BY <1>2, <1>4 DEF TempFiles
<1>6. saver \in Savers /\ saver.pc = "rename" /\ saver.id = savers[p].id
  BY <1>3 DEF Savers
<1>7. temps' = [temps EXCEPT ![k] = temp] /\ savers' = [savers EXCEPT ![p] = saver]
  BY <1>1, <1>2
<1> HIDE DEF temp, saver
<1>8. StoreTypes'
  BY <1>1, <1>2, <1>3, <1>5, <1>6, <1>7 DEF StoreInv, StoreTypes
<1>9. OwnTemp(p)'
  BY <1>3, <1>5, <1>6, <1>7 DEF StoreInv, StoreTypes, OwnTemp
<1>10. /\ \A q \in Processes \ {p} : savers'[q] = savers[q]
       /\ \A j \in Saved, q \in Processes \ {p} : temps'[<<j, q>>] = temps[<<j, q>>]
  BY <1>7 DEF StoreInv, StoreTypes
<1>11. (DOMAIN files = Saved /\ SavesAreWhole)'
  BY <1>2 DEF StoreInv, SavesAreWhole
<1> QED
  BY <1>8, <1>9, <1>10, <1>11, StepOfOne

\* A save that is given up leaves its temporary file as it is.
LEMMA GivenUpInv ==
    ASSUME StoreInv, NEW p \in Processes, savers' = [savers EXCEPT ![p] = NoSave],
           UNCHANGED <<files, temps, clock, saves>>
    PROVE  StoreInv'
<1>1. NoSave \in Savers /\ NoSave.pc = "idle"
  BY DEF NoSave, Savers
<1>2. StoreTypes'
  BY <1>1 DEF StoreInv, StoreTypes
<1>3. OwnTemp(p)'
  BY <1>1 DEF StoreInv, StoreTypes, OwnTemp
<1>4. /\ \A q \in Processes \ {p} : savers'[q] = savers[q]
      /\ \A j \in Saved, q \in Processes \ {p} : temps'[<<j, q>>] = temps[<<j, q>>]
  BY DEF StoreInv, StoreTypes
<1>5. (DOMAIN files = Saved /\ SavesAreWhole)'
  BY DEF StoreInv, SavesAreWhole
<1> QED
  BY <1>2, <1>3, <1>4, <1>5, StepOfOne

LEMMA RenameHistoryInv ==
    ASSUME StoreInv, NEW p \in Processes, RenameHistory(p)
    PROVE  StoreInv'
<1> DEFINE i == savers[p].id
           k == <<i, p>>
<1>1. savers[p].pc = "rename" /\ UNCHANGED <<sidecars, clock, saves>>
  BY DEF RenameHistory
<1>2. savers[p] \in Savers /\ i \in Saved /\ k \in Saved \X Processes /\ temps[k].whole
  BY <1>1 DEF StoreInv, StoreTypes, TempsAreOwn, OwnTemp
<1>3. CASE temps[k] = NoTemp
  <2>1. savers' = [savers EXCEPT ![p] = NoSave] /\ UNCHANGED <<files, temps>>
    BY <1>3 DEF RenameHistory, Temp, TempOf
  <2> QED
    BY <1>1, <2>1, GivenUpInv
<1>4. CASE temps[k] # NoTemp
  <2> DEFINE saver == [savers[p] EXCEPT !.pc = "meta"]
             file == [whole |-> temps[k].whole, modified |-> temps[k].modified]
  <2>1. /\ files' = [files EXCEPT ![i] = file] /\ temps' = [temps EXCEPT ![k] = NoTemp]
        /\ savers' = [savers EXCEPT ![p] = saver]
    BY <1>4 DEF RenameHistory, Temp, TempOf
  <2>2. saver \in Savers /\ saver.pc = "meta" /\ saver.id = i
    BY <1>2 DEF Savers
  <2>3. NoTemp \in TempFiles /\ file.whole
    BY <1>2 DEF NoTemp, TempFiles
  <2> HIDE DEF saver, file
  <2>4. StoreTypes'
    BY <1>1, <1>2, <2>1, <2>2, <2>3 DEF StoreInv, StoreTypes
  <2>5. OwnTemp(p)'
    BY <2>1, <2>2 DEF StoreInv, StoreTypes, OwnTemp
  <2>6. /\ \A q \in Processes \ {p} : savers'[q] = savers[q]
        /\ \A j \in Saved, q \in Processes \ {p} : temps'[<<j, q>>] = temps[<<j, q>>]
    BY <2>1 DEF StoreInv, StoreTypes
  <2>7. (DOMAIN files = Saved /\ SavesAreWhole)'
    BY <1>2, <2>1, <2>3 DEF StoreInv, SavesAreWhole
  <2> QED
    BY <2>4, <2>5, <2>6, <2>7, StepOfOne
<1> QED
  BY <1>3, <1>4

LEMMA StoreStep == StoreInv /\ [StoreNext]_storeVars => StoreInv'
<1> SUFFICES ASSUME StoreInv, [StoreNext]_storeVars
             PROVE  StoreInv'
  OBVIOUS
<1>1. ASSUME NEW p \in Processes, Save(p)
      PROVE  StoreInv'
  <2>1. CASE WriteFails(p) \/ SaveMeta(p) \/ Dies(p)
    <3>1. savers' = [savers EXCEPT ![p] = NoSave] /\ UNCHANGED <<files, temps, clock, saves>>
      BY <2>1 DEF WriteFails, SaveMeta, Dies
    <3> QED
      BY <3>1, GivenUpInv
  <2> QED
    BY <1>1, <2>1, BeginSaveInv, WriteHistoryInv, RenameHistoryInv DEF Save
<1>2. ASSUME NEW i \in Saved, DeleteSaved(i)
      PROVE  StoreInv'
  <2>1. files' = [files EXCEPT ![i] = NoFile] /\ UNCHANGED <<temps, savers, clock, saves>>
    BY <1>2 DEF DeleteSaved
  <2>2. (StoreTypes /\ TempsAreOwn)'
    BY <2>1 DEF StoreInv, StoreTypes, TempsAreOwn, OwnTemp
  <2>3. (DOMAIN files = Saved /\ SavesAreWhole)'
    BY <2>1 DEF StoreInv, SavesAreWhole
  <2> QED
    BY <2>2, <2>3 DEF StoreInv
<1>3. CASE UNCHANGED <<files, temps, savers, clock, saves>>
  BY <1>3 DEF StoreInv, StoreTypes, TempsAreOwn, OwnTemp, SavesAreWhole
<1>4. ListFirst \/ ListMore \/ UNCHANGED storeVars => UNCHANGED <<files, temps, savers, clock, saves>>
  BY DEF ListFirst, ListMore, storeVars
<1> QED
  BY <1>1, <1>2, <1>3, <1>4 DEF StoreNext

\* Whatever processes save at once and wherever they die, a saved history is
\* one that one save wrote from beginning to end.
THEOREM HistoriesAreWhole == StoreSpec => []SavesAreWhole
<1>1. StoreInv => SavesAreWhole
  BY DEF StoreInv
<1> QED
  BY <1>1, StoreInitInv, StoreStep, PTL DEF StoreSpec

-----------------------------------------------------------------------------
(***************************************************************************)
(* PagesMissNothing for any number of sessions and whatever is saved or    *)
(* deleted between two pages.  A session that stays as it is was either    *)
(* given, once, or comes after the cursor.                                 *)
(***************************************************************************)

Files == [whole : BOOLEAN, modified : Nat]

Once(s, i) == \E n \in DOMAIN s : s[n] = i /\ \A k \in DOMAIN s : s[k] = i => k = n
Never(s, i) == \A n \in DOMAIN s : s[n] # i

Listings ==
    [ pc : {"idle", "more", "done"}, dir : Dirs \cup {NoDir}, after : {<< >>} \cup (Nat \X Nat),
      seen : Seq(Saved), untouched : SUBSET Saved ]

Given ==
    \A i \in listing.untouched :
        /\ listing.pc # "idle"
        /\ listing.pc = "done" => Once(listing.seen, i)
        /\ listing.pc = "more" =>
             /\ i \in Qualify(listing.dir)
             /\ IF Precedes(listing.after, i) THEN Never(listing.seen, i) ELSE Once(listing.seen, i)

FilesAre == files \in [Saved -> Files]

PagesInv == StoreInv /\ FilesAre /\ listing \in Listings /\ Given

LEMMA FileTimes ==
    ASSUME FilesAre
    PROVE  \A i \in Saved : files[i].modified \in Nat /\ i \in Nat
BY StoreAssumption DEF StoreAssumption, FilesAre, Files

\* The list has one order.
LEMMA BeforeOrders ==
    ASSUME FilesAre, NEW i \in Saved, NEW j \in Saved
    PROVE  /\ ~Before(i, i)
           /\ i # j => Before(i, j) \/ Before(j, i)
           /\ ~(Before(i, j) /\ Before(j, i))
           /\ \A k \in Saved : Before(i, j) /\ Before(j, k) => Before(i, k)
BY FileTimes DEF Before

\* rest has the members of S, each once and in the order of the list.
InOrder(rest, S) ==
    /\ rest \in Seq(S)
    /\ \A i \in S : \E k \in 1..Len(rest) : rest[k] = i
    /\ \A k, l \in 1..Len(rest) : k < l => Before(rest[k], rest[l])

Behind(dir, after) == {i \in Qualify(dir) : Precedes(after, i)}

LEMMA ListedIs ==
    ASSUME FilesAre, NEW dir, NEW after
    PROVE  Behind(dir, after) \in SUBSET Saved /\ InOrder(Listed(dir, after), Behind(dir, after))
<1> DEFINE S == Behind(dir, after)
           upto == [i \in S |-> {j \in S : ~Before(i, j)}]
           rest == Listed(dir, after)
           n == Cardinality(S)
<1>1. S \in SUBSET Saved
  BY DEF Behind, Qualify
<1>2. rest = Ranked(S, upto)
  BY DEF Listed, Behind
<1> HIDE DEF S, rest
<1>3. IsFiniteSet(S) /\ n \in Nat
  BY <1>1, StoreAssumption, FS_Subset, FS_CardinalityType DEF StoreAssumption
<1>4. \A i, j \in S : /\ ~Before(i, i)
                      /\ i # j => Before(i, j) \/ Before(j, i)
                      /\ ~(Before(i, j) /\ Before(j, i))
                      /\ \A k \in S : Before(i, j) /\ Before(j, k) => Before(i, k)
  <2>1. ASSUME NEW i \in Saved, NEW j \in Saved
        PROVE  /\ ~Before(i, i)
               /\ i # j => Before(i, j) \/ Before(j, i)
               /\ ~(Before(i, j) /\ Before(j, i))
               /\ \A k \in Saved : Before(i, j) /\ Before(j, k) => Before(i, k)
    BY BeforeOrders
  <2> QED
    BY <1>1, <2>1
<1>5. Ranks(S, upto)
  <2>1. \A i \in S : i \in upto[i] /\ upto[i] \in SUBSET S
    BY <1>4
  <2>2. ASSUME NEW i \in S, NEW j \in S, Before(i, j)
        PROVE  upto[i] \subseteq upto[j] /\ j \notin upto[i]
    <3>1. ASSUME NEW k \in S, ~Before(i, k)
          PROVE  ~Before(j, k)
      BY <1>4, <2>2, <3>1
    <3> QED
      BY <2>2, <3>1
  <2> QED
    BY <1>4, <2>1, <2>2 DEF Ranks
<1>6. ASSUME NEW i \in S, NEW j \in S, Before(i, j)
      PROVE  upto[i] \subseteq upto[j] /\ i # j
  BY <1>4, <1>6
<1> HIDE DEF upto
<1>7. /\ rest \in [1..n -> S]
      /\ \A k \in 1..n : Cardinality(upto[rest[k]]) = k
      /\ \A i \in S : rest[Cardinality(upto[i])] = i /\ Cardinality(upto[i]) \in 1..n
  BY <1>2, <1>3, <1>5, RankedIs, RanksDiffer
<1>8. rest \in Seq(S) /\ Len(rest) = n
  BY <1>3, <1>7
<1>9. ASSUME NEW k \in 1..n, NEW l \in 1..n, k < l
      PROVE  Before(rest[k], rest[l])
  <2>1. rest[k] \in S /\ rest[l] \in S /\ rest[k] # rest[l]
    BY <1>7, <1>9
  <2>2. ASSUME Before(rest[l], rest[k])
        PROVE  FALSE
    <3>1. upto[rest[l]] \subseteq upto[rest[k]]
      BY <1>6, <2>1, <2>2
    <3>2. Cardinality(upto[rest[l]]) < Cardinality(upto[rest[k]])
      BY <1>3, <1>5, <2>1, <3>1, RanksDiffer
    <3> QED
      BY <1>7, <1>9, <3>2
  <2> QED
    BY <1>4, <2>1, <2>2
<1>10. \A i \in S : \E k \in 1..n : rest[k] = i
  BY <1>7
<1> HIDE DEF n
<1> QED
  BY <1>1, <1>8, <1>9, <1>10 DEF InOrder, S, rest

LEMMA SmallerOf ==
    ASSUME NEW a \in Nat, NEW b \in Nat
    PROVE  Min({a, b}) = IF a <= b THEN a ELSE b
<1>1. CASE a <= b
  BY <1>1 DEF Min
<1>2. CASE b < a
  BY <1>2 DEF Min
<1> QED
  BY <1>1, <1>2

\* A sequence behind another.
LEMMA OnceOf ==
    ASSUME NEW T, NEW s \in Seq(T), NEW t \in Seq(T), NEW i
    PROVE  /\ Once(s, i) /\ Never(t, i) => Once(s \o t, i)
           /\ Never(s, i) /\ Once(t, i) => Once(s \o t, i)
           /\ Never(s, i) /\ Never(t, i) => Never(s \o t, i)
<1> DEFINE g == s \o t
           m == Len(s)
           n == Len(t)
<1>1. /\ m \in Nat /\ n \in Nat /\ DOMAIN s = 1..m /\ DOMAIN t = 1..n
      /\ DOMAIN g = 1..(m + n)
      /\ \A k \in 1..m : g[k] = s[k]
      /\ \A k \in 1..n : g[m + k] = t[k]
      /\ \A k \in 1..(m + n) : k \in 1..m \/ \E l \in 1..n : k = m + l
  <2>1. \A k \in 1..(m + n) : k \in 1..m \/ (k - m \in 1..n /\ k = m + (k - m))
    OBVIOUS
  <2> QED
    BY <2>1
<1> HIDE DEF g, m, n
<1>2. ASSUME Once(s, i), Never(t, i)
      PROVE  Once(g, i)
  <2>1. PICK k \in 1..m : s[k] = i /\ \A l \in 1..m : s[l] = i => l = k
    BY <1>1, <1>2 DEF Once
  <2>2. k \in 1..(m + n) /\ g[k] = i
    BY <1>1, <2>1
  <2>3. ASSUME NEW l \in 1..(m + n), g[l] = i
        PROVE  l = k
    <3>1. CASE l \in 1..m
      BY <1>1, <2>1, <2>3, <3>1
    <3>2. ASSUME NEW j \in 1..n, l = m + j
          PROVE  FALSE
      <4>1. t[j] = i
        BY <1>1, <2>3, <3>2
      <4> QED
        BY <1>1, <1>2, <4>1 DEF Never
    <3> QED
      BY <1>1, <3>1, <3>2
  <2> QED
    BY <1>1, <2>2, <2>3 DEF Once
<1>3. ASSUME Never(s, i), Once(t, i)
      PROVE  Once(g, i)
  <2>1. PICK k \in 1..n : t[k] = i /\ \A l \in 1..n : t[l] = i => l = k
    BY <1>1, <1>3 DEF Once
  <2>2. m + k \in 1..(m + n) /\ g[m + k] = i
    BY <1>1, <2>1
  <2>3. ASSUME NEW l \in 1..(m + n), g[l] = i
        PROVE  l = m + k
    <3>1. ASSUME l \in 1..m
          PROVE  FALSE
      <4>1. s[l] = i
        BY <1>1, <2>3, <3>1
      <4> QED
        BY <1>1, <1>3, <3>1, <4>1 DEF Never
    <3>2. ASSUME NEW j \in 1..n, l = m + j
          PROVE  l = m + k
      <4>1. t[j] = i
        BY <1>1, <2>3, <3>2
      <4> QED
        BY <2>1, <3>2, <4>1
    <3> QED
      BY <1>1, <3>1, <3>2
  <2> QED
    BY <1>1, <2>2, <2>3 DEF Once
<1>4. ASSUME Never(s, i), Never(t, i)
      PROVE  Never(g, i)
  <2>1. ASSUME NEW l \in 1..(m + n), g[l] = i
        PROVE  FALSE
    <3>1. ASSUME l \in 1..m
          PROVE  FALSE
      <4>1. s[l] = i
        BY <1>1, <2>1, <3>1
      <4> QED
        BY <1>1, <1>4, <3>1, <4>1 DEF Never
    <3>2. ASSUME NEW j \in 1..n, l = m + j
          PROVE  FALSE
      <4>1. t[j] = i
        BY <1>1, <2>1, <3>2
      <4> QED
        BY <1>1, <1>4, <4>1 DEF Never
    <3> QED
      BY <1>1, <2>1, <3>1, <3>2
  <2> QED
    BY <1>1, <2>1 DEF Never
<1> QED
  BY <1>2, <1>3, <1>4 DEF g

\* Where a session is, compared with the last of a page.
LEMMA CursorIs ==
    ASSUME FilesAre, NEW last \in Saved, NEW i \in Saved,
           NEW after \in {<< >>} \cup (Nat \X Nat), Precedes(after, last)
    PROVE  /\ Precedes(<<files[last].modified, last>>, i) <=> Before(last, i)
           /\ Before(last, i) => Precedes(after, i)
<1>1. /\ files[last].modified \in Nat /\ files[i].modified \in Nat
      /\ last \in Nat /\ i \in Nat
  BY FileTimes
<1>2. Precedes(<<files[last].modified, last>>, i) <=> Before(last, i)
  BY <1>1 DEF Precedes, Before
<1>3. CASE after = << >>
  BY <1>2, <1>3 DEF Precedes
<1>4. CASE after \in Nat \X Nat
  <2>1. after[1] \in Nat /\ after[2] \in Nat /\ after # << >>
    BY <1>4
  <2> QED
    BY <1>1, <1>2, <2>1 DEF Precedes, Before
<1> QED
  BY <1>3, <1>4

\* A page: the first m of what comes after the cursor.
LEMMA PageStep ==
    ASSUME FilesAre, NEW dir \in Dirs \cup {NoDir}, NEW after \in {<< >>} \cup (Nat \X Nat),
           NEW given \in Seq(Saved), NEW untouched, untouched \subseteq Qualify(dir),
           \A i \in untouched : IF Precedes(after, i) THEN Never(given, i) ELSE Once(given, i),
           Page(dir, after, given, untouched), UNCHANGED <<files, sidecars>>
    PROVE  listing' \in Listings /\ Given'
<1> DEFINE S == Behind(dir, after)
           rest == Listed(dir, after)
           n == Len(rest)
           m == Min({PageSize, n})
           page == SubSeq(rest, 1, m)
           last == Last(page)
<1>1. S \in SUBSET Saved /\ InOrder(rest, S)
  BY ListedIs
<1>2. /\ n \in Nat /\ PageSize \in Nat \ {0} /\ m = IF PageSize <= n THEN PageSize ELSE n
      /\ rest \in Seq(Saved)
      /\ \A k \in 1..n : rest[k] \in S
      /\ \A i \in S : \E k \in 1..n : rest[k] = i
      /\ \A k, l \in 1..n : k < l => Before(rest[k], rest[l])
  <2>1. /\ rest \in Seq(S)
        /\ \A i \in S : \E k \in 1..n : rest[k] = i
        /\ \A k, l \in 1..n : k < l => Before(rest[k], rest[l])
    BY <1>1 DEF InOrder
  <2> HIDE DEF S, rest
  <2>2. rest \in Seq(Saved) /\ \A k \in 1..n : rest[k] \in S
    BY <1>1, <2>1
  <2>3. n \in Nat /\ PageSize \in Nat \ {0}
    BY <2>1, StoreAssumption DEF StoreAssumption
  <2> HIDE DEF n
  <2>4. m = IF PageSize <= n THEN PageSize ELSE n
    BY <2>3, SmallerOf
  <2> QED
    BY <2>1, <2>2, <2>3, <2>4
<1>3. untouched \in SUBSET Saved /\ \A i \in untouched : i \in S <=> Precedes(after, i)
  BY DEF Qualify, Behind
<1> HIDE DEF S, n, m
<1>4. /\ m \in Nat /\ m <= n /\ page \in Seq(Saved) /\ Len(page) = m /\ DOMAIN page = 1..m
      /\ \A k \in 1..m : page[k] = rest[k]
  <2>1. m \in Nat /\ m <= n
    BY <1>2
  <2> QED
    BY <1>2, <2>1 DEF n
<1>5. Page(dir, after, given, untouched)
  OBVIOUS
<1>6. IF n > PageSize
      THEN listing' = [pc |-> "more", dir |-> dir, seen |-> given \o page, untouched |-> untouched,
                       after |-> <<files[last].modified, last>>]
      ELSE listing' = [NoListing EXCEPT !.pc = "done", !.seen = given \o page,
                                        !.untouched = untouched]
  BY <1>5 DEF Page, n, m
<1> HIDE DEF rest, page
<1>7. given \o page \in Seq(Saved)
  BY <1>4
\* What is given on the page is what comes first.
<1>8. \A i \in untouched, k \in 1..n : i \in S /\ rest[k] = i =>
        /\ \A l \in 1..n : rest[l] = i => l = k
        /\ IF k <= m THEN Once(page, i) ELSE Never(page, i)
  <2>1. ASSUME NEW i \in untouched, NEW k \in 1..n, NEW l \in 1..n, rest[k] = i, rest[l] = i
        PROVE  l = k
    <3>1. i \in Saved /\ ~Before(i, i)
      BY <1>3, BeforeOrders
    <3> QED
      BY <1>2, <2>1, <3>1
  <2>2. ASSUME NEW i \in untouched, NEW k \in 1..n, rest[k] = i
        PROVE  IF k <= m THEN Once(page, i) ELSE Never(page, i)
    <3>1. \A l \in 1..m : l \in 1..n /\ (page[l] = i => l = k)
      BY <1>2, <1>4, <2>1, <2>2
    <3>2. CASE k <= m
      <4>1. k \in 1..m /\ page[k] = i
        BY <1>4, <2>2, <3>2
      <4> QED
        BY <1>4, <3>1, <3>2, <4>1 DEF Once
    <3>3. CASE ~(k <= m)
      BY <1>2, <1>4, <3>1, <3>3 DEF Never
    <3> QED
      BY <3>2, <3>3
  <2> QED
    BY <2>1, <2>2
<1>9. \A i \in untouched : i \notin S => Never(page, i)
  BY <1>2, <1>4 DEF Never
<1>10. CASE n > PageSize
  <2>1. m = PageSize /\ m \in 1..n /\ last = rest[m] /\ last \in S
    <3>1. m = PageSize /\ m \in 1..n
      BY <1>2, <1>10
    <3> QED
      BY <1>2, <1>4, <3>1 DEF Last
  <2>2. /\ listing'.pc = "more" /\ listing'.dir = dir /\ listing'.seen = given \o page
        /\ listing'.untouched = untouched /\ listing'.after = <<files[last].modified, last>>
    BY <1>6, <1>10
  <2>3. last \in Saved /\ files[last].modified \in Nat /\ last \in Nat /\ Precedes(after, last)
    <3>1. last \in Saved /\ Precedes(after, last)
      BY <1>1, <2>1 DEF S, Behind
    <3> QED
      BY <3>1, FileTimes
  <2> HIDE DEF last
  <2>4. listing' \in Listings
    <3> DEFINE cursor == <<files[last].modified, last>>
    <3>1. cursor \in {<< >>} \cup (Nat \X Nat)
      BY <2>3
    <3>2. listing' = [pc |-> "more", dir |-> dir, seen |-> given \o page, untouched |-> untouched,
                      after |-> cursor]
      BY <1>6, <1>10
    <3> HIDE DEF cursor
    <3> QED
      BY <1>3, <1>7, <3>1, <3>2 DEF Listings
  <2>5. ASSUME NEW i \in untouched
        PROVE  IF Before(last, i) THEN Never(given \o page, i) ELSE Once(given \o page, i)
    <3>1. i \in Saved
      BY <1>3
    <3>2. CASE i \notin S
      <4>1. ~Precedes(after, i) /\ Never(page, i) /\ Once(given, i)
        BY <1>3, <1>9, <3>2
      <4>2. ~Before(last, i)
        BY <2>3, <3>1, <4>1, CursorIs
      <4>3. Once(given \o page, i)
        BY <1>4, <4>1, OnceOf
      <4> QED
        BY <4>2, <4>3
    <3>3. CASE i \in S
      <4>1. Precedes(after, i) /\ Never(given, i)
        BY <1>3, <3>3
      <4>2. PICK k \in 1..n : rest[k] = i
        BY <1>2, <3>3
      <4>3. CASE k <= m
        <5>1. Once(page, i)
          BY <1>8, <3>3, <4>2, <4>3
        <5>2. ~Before(last, i)
          <6>1. CASE k = m
            BY <2>1, <2>3, <3>1, <4>2, <6>1, BeforeOrders
          <6>2. CASE k < m
            <7>1. Before(i, last)
              BY <1>2, <2>1, <4>2, <6>2
            <7> QED
              BY <2>3, <3>1, <7>1, BeforeOrders
          <6> QED
            BY <1>2, <1>4, <4>2, <4>3, <6>1, <6>2
        <5>3. Once(given \o page, i)
          BY <1>4, <4>1, <5>1, OnceOf
        <5> QED
          BY <5>2, <5>3
      <4>4. CASE m < k
        <5>1. Before(last, i)
          BY <1>2, <2>1, <4>2, <4>4
        <5>2. Never(page, i)
          <6>1. ~(k <= m)
            BY <1>2, <1>4, <4>2, <4>4
          <6> QED
            BY <1>8, <3>3, <4>2, <6>1
        <5>3. Never(given \o page, i)
          BY <1>4, <4>1, <5>2, OnceOf
        <5> QED
          BY <5>1, <5>3
      <4> QED
        BY <1>2, <1>4, <4>2, <4>3, <4>4
    <3> QED
      BY <3>2, <3>3
  <2>6. \A i \in untouched : Precedes(<<files[last].modified, last>>, i) <=> Before(last, i)
    BY <1>3, <2>3, CursorIs
  <2>7. Given'
    <3>1. ASSUME NEW i \in listing'.untouched
          PROVE  /\ i \in Qualify(dir)
                 /\ IF Precedes(<<files[last].modified, last>>, i) THEN Never(given \o page, i)
                    ELSE Once(given \o page, i)
      BY <2>2, <2>5, <2>6, <3>1
    <3>2. /\ \A i : Precedes(listing.after, i)' <=> Precedes(<<files[last].modified, last>>, i)
          /\ Qualify(listing.dir)' = Qualify(dir)
      BY <2>2 DEF Precedes, Qualify
    <3> QED
      BY <2>2, <3>1, <3>2 DEF Given
  <2> QED
    BY <2>4, <2>7
<1>11. CASE ~(n > PageSize)
  <2>1. m = n
    BY <1>2, <1>11
  <2>2. listing' = [NoListing EXCEPT !.pc = "done", !.seen = given \o page, !.untouched = untouched]
    BY <1>6, <1>11
  <2>3. /\ listing' \in Listings /\ listing'.pc = "done" /\ listing'.seen = given \o page
        /\ listing'.untouched = untouched
    <3>1. << >> \in Seq(Saved)
      OBVIOUS
    <3> QED
      BY <1>3, <1>7, <2>2 DEF NoListing, Listings
  <2>4. ASSUME NEW i \in untouched
        PROVE  Once(given \o page, i)
    <3>1. CASE i \notin S
      BY <1>3, <1>4, <1>9, <3>1, OnceOf
    <3>2. CASE i \in S
      <4>1. PICK k \in 1..n : rest[k] = i
        BY <1>2, <3>2
      <4>2. Once(page, i)
        BY <1>2, <1>8, <2>1, <3>2, <4>1
      <4>3. Never(given, i)
        BY <1>3, <3>2
      <4> QED
        BY <1>4, <4>2, <4>3, OnceOf
    <3> QED
      BY <3>1, <3>2
  <2>5. Given'
    BY <2>3, <2>4 DEF Given, Once
  <2> QED
    BY <2>3, <2>5
<1> QED
  BY <1>10, <1>11

\* A step that leaves what is still untouched as it is.
LEMMA OtherStep ==
    ASSUME PagesInv, StoreInv', files' \in [Saved -> Files], listing' \in Listings,
           listing'.pc = listing.pc, listing'.dir = listing.dir, listing'.after = listing.after,
           listing'.seen = listing.seen, listing'.untouched \subseteq listing.untouched,
           \A i \in listing'.untouched : files'[i] = files[i] /\ sidecars'[i] = sidecars[i]
    PROVE  PagesInv'
<1>1. FilesAre'
  BY DEF FilesAre
<1>2. ASSUME NEW i \in listing'.untouched
      PROVE  /\ Precedes(listing.after, i)' <=> Precedes(listing.after, i)
             /\ i \in Qualify(listing.dir) <=> i \in Qualify(listing.dir)'
  BY <1>2 DEF Precedes, Qualify
<1>3. Given'
  BY <1>2 DEF PagesInv, Given, Once, Never
<1> QED
  BY <1>1, <1>3 DEF PagesInv

LEMMA TouchIs ==
    ASSUME listing \in Listings, NEW i, Touch(i)
    PROVE  /\ listing' \in Listings
           /\ listing'.pc = listing.pc /\ listing'.dir = listing.dir
           /\ listing'.after = listing.after /\ listing'.seen = listing.seen
           /\ listing'.untouched = listing.untouched \ {i}
BY DEF Listings, Touch

LEMMA PagesInitInv == StoreInit => PagesInv
<1> SUFFICES ASSUME StoreInit
             PROVE  PagesInv
  OBVIOUS
<1>1. << >> \in Seq(Saved)
  OBVIOUS
<1>2. listing \in Listings /\ listing.untouched = {}
  BY <1>1 DEF StoreInit, NoListing, Listings
<1>3. FilesAre
  BY DEF StoreInit, FilesAre, Files, NoFile
<1>4. Given
  BY <1>2 DEF Given
<1> QED
  BY <1>2, <1>3, <1>4, StoreInitInv DEF PagesInv

LEMMA RenameIsOther ==
    ASSUME PagesInv, StoreInv', NEW p \in Processes, RenameHistory(p)
    PROVE  PagesInv'
<1> DEFINE i == savers[p].id
           k == <<i, p>>
<1>1. savers[p].pc = "rename" /\ UNCHANGED sidecars
  BY DEF RenameHistory
<1>2. /\ i \in Saved /\ k \in Saved \X Processes /\ temps[k] \in TempFiles
      /\ files \in [Saved -> Files] /\ listing \in Listings
  BY <1>1 DEF PagesInv, StoreInv, StoreTypes, FilesAre
<1>3. CASE temps[k] = NoTemp
  <2>1. UNCHANGED <<files, sidecars, listing>>
    BY <1>1, <1>3 DEF RenameHistory, Temp, TempOf
  <2> QED
    BY <1>2, <2>1, OtherStep
<1>4. CASE temps[k] # NoTemp
  <2> DEFINE file == [whole |-> temps[k].whole, modified |-> temps[k].modified]
  <2>1. files' = [files EXCEPT ![i] = file] /\ Touch(i)
    BY <1>4 DEF RenameHistory, Temp, TempOf
  <2>2. file \in Files
    BY <1>2 DEF TempFiles, Files
  <2> HIDE DEF file, i
  <2>3. files' \in [Saved -> Files] /\ \A j \in Saved \ {i} : files'[j] = files[j]
    BY <1>2, <2>1, <2>2
  <2>4. /\ listing' \in Listings
        /\ listing'.pc = listing.pc /\ listing'.dir = listing.dir
        /\ listing'.after = listing.after /\ listing'.seen = listing.seen
        /\ listing'.untouched = listing.untouched \ {i}
    BY <1>2, <2>1, TouchIs
  <2>5. \A j \in listing'.untouched : files'[j] = files[j] /\ sidecars'[j] = sidecars[j]
    BY <1>1, <1>2, <2>3, <2>4 DEF Listings
  <2> QED
    BY <2>3, <2>4, <2>5, OtherStep
<1> QED
  BY <1>3, <1>4

\* A step that changes the list entry of i.
LEMMA TouchStep ==
    ASSUME PagesInv, StoreInv', NEW i \in Saved, Touch(i), files' \in [Saved -> Files],
           \A j \in Saved \ {i} : files'[j] = files[j] /\ sidecars'[j] = sidecars[j]
    PROVE  PagesInv'
<1>1. listing \in Listings
  BY DEF PagesInv
<1>2. /\ listing' \in Listings
      /\ listing'.pc = listing.pc /\ listing'.dir = listing.dir
      /\ listing'.after = listing.after /\ listing'.seen = listing.seen
      /\ listing'.untouched = listing.untouched \ {i}
  BY <1>1, TouchIs
<1>3. \A j \in listing'.untouched : files'[j] = files[j] /\ sidecars'[j] = sidecars[j]
  BY <1>1, <1>2 DEF Listings
<1> QED
  BY <1>2, <1>3, OtherStep

LEMMA PagesStep == PagesInv /\ [StoreNext]_storeVars => PagesInv'
<1> SUFFICES ASSUME PagesInv, [StoreNext]_storeVars
             PROVE  PagesInv'
  OBVIOUS
<1>1. StoreInv' /\ files \in [Saved -> Files] /\ listing \in Listings
  BY StoreStep DEF PagesInv, FilesAre
<1>2. CASE UNCHANGED <<files, sidecars, listing>>
  BY <1>1, <1>2, OtherStep
<1>3. ASSUME NEW p \in Processes, Save(p)
      PROVE  PagesInv'
  <2>1. CASE BeginSave(p) \/ WriteHistory(p) \/ WriteFails(p) \/ Dies(p)
    BY <1>2, <2>1 DEF BeginSave, WriteHistory, WriteFails, Dies
  <2>2. CASE SaveMeta(p)
    <3> DEFINE i == savers[p].id
    <3>1. savers[p].pc = "meta" /\ UNCHANGED files
      BY <2>2 DEF SaveMeta
    <3>2. i \in Saved
      BY <3>1 DEF PagesInv, StoreInv, StoreTypes
    <3>3. \/ UNCHANGED <<sidecars, listing>>
          \/ Touch(i) /\ \E dir : sidecars' = [sidecars EXCEPT ![i] = dir]
      BY <2>2 DEF SaveMeta
    <3> HIDE DEF i
    <3>4. CASE UNCHANGED <<sidecars, listing>>
      BY <1>2, <3>1, <3>4
    <3>5. CASE Touch(i) /\ \E dir : sidecars' = [sidecars EXCEPT ![i] = dir]
      <4>1. \A j \in Saved \ {i} : files'[j] = files[j] /\ sidecars'[j] = sidecars[j]
        BY <3>1, <3>5
      <4> QED
        BY <1>1, <3>1, <3>2, <3>5, <4>1, TouchStep
    <3> QED
      BY <3>3, <3>4, <3>5
  <2>3. CASE RenameHistory(p)
    BY <1>1, <2>3, RenameIsOther
  <2> QED
    BY <1>3, <2>1, <2>2, <2>3 DEF Save
<1>4. ASSUME NEW i \in Saved, DeleteSaved(i)
      PROVE  PagesInv'
  <2>1. /\ files' = [files EXCEPT ![i] = NoFile] /\ Touch(i)
        /\ sidecars' = [sidecars EXCEPT ![i] = NoDir] \/ UNCHANGED sidecars
    BY <1>4 DEF DeleteSaved
  <2>2. files' \in [Saved -> Files]
    BY <1>1, <2>1 DEF NoFile, Files
  <2>3. \A j \in Saved \ {i} : sidecars'[j] = sidecars[j]
    <3>1. CASE UNCHANGED sidecars
      BY <3>1
    <3>2. CASE sidecars' = [sidecars EXCEPT ![i] = NoDir]
      BY <3>2
    <3> QED
      BY <2>1, <3>1, <3>2
  <2>4. \A j \in Saved \ {i} : files'[j] = files[j] /\ sidecars'[j] = sidecars[j]
    BY <1>1, <2>1, <2>3
  <2> QED
    BY <1>1, <2>1, <2>2, <2>4, TouchStep
<1>5. CASE ListFirst
  <2>1. PICK dir \in Dirs \cup {NoDir} : Page(dir, << >>, << >>, Qualify(dir))
    BY <1>5 DEF ListFirst
  <2>2. UNCHANGED <<files, sidecars>>
    BY <1>5 DEF ListFirst
  <2>3. \A i \in Qualify(dir) : IF Precedes(<< >>, i) THEN Never(<< >>, i) ELSE Once(<< >>, i)
    BY DEF Precedes, Never
  <2>4. << >> \in Seq(Saved)
    OBVIOUS
  <2>5. listing' \in Listings /\ Given'
    BY <1>1, <2>1, <2>2, <2>3, <2>4, PageStep DEF FilesAre
  <2> QED
    BY <1>1, <2>2, <2>5 DEF PagesInv, FilesAre
<1>6. CASE ListMore
  <2>1. /\ listing.pc = "more" /\ UNCHANGED <<files, sidecars>>
        /\ Page(listing.dir, listing.after, listing.seen, listing.untouched)
    BY <1>6 DEF ListMore
  <2>2. /\ listing.dir \in Dirs \cup {NoDir} /\ listing.after \in {<< >>} \cup (Nat \X Nat)
        /\ listing.seen \in Seq(Saved)
    BY <1>1 DEF Listings
  <2>3. /\ listing.untouched \subseteq Qualify(listing.dir)
        /\ \A i \in listing.untouched :
             IF Precedes(listing.after, i) THEN Never(listing.seen, i) ELSE Once(listing.seen, i)
    BY <2>1 DEF PagesInv, Given
  <2>4. listing' \in Listings /\ Given'
    BY <1>1, <2>1, <2>2, <2>3, PageStep DEF FilesAre
  <2> QED
    BY <1>1, <2>1, <2>4 DEF PagesInv, FilesAre
<1>7. CASE UNCHANGED storeVars
  BY <1>2, <1>7 DEF storeVars
<1> QED
  BY <1>3, <1>4, <1>5, <1>6, <1>7 DEF StoreNext

\* A client that has all pages has every session that was there when it began
\* and stayed as it was, once: PagesMissNothing.
THEOREM PagesAreComplete == StoreSpec => []PagesMissNothing
<1>1. PagesInv => PagesMissNothing
  <2> SUFFICES ASSUME PagesInv, listing.pc = "done", NEW i \in listing.untouched
               PROVE  Cardinality({n \in DOMAIN listing.seen : listing.seen[n] = i}) = 1
    BY DEF PagesMissNothing
  <2>1. Once(listing.seen, i)
    BY DEF PagesInv, Given
  <2>2. PICK n \in DOMAIN listing.seen :
          listing.seen[n] = i /\ \A k \in DOMAIN listing.seen : listing.seen[k] = i => k = n
    BY <2>1 DEF Once
  <2>3. {k \in DOMAIN listing.seen : listing.seen[k] = i} = {n}
    BY <2>2
  <2> QED
    BY <2>3, FS_Singleton
<1> QED
  BY <1>1, PagesInitInv, PagesStep, PTL DEF StoreSpec

-----------------------------------------------------------------------------
(***************************************************************************)
(* ShownIsLoaded and ConversationKept for any models, caches, loads and    *)
(* prompts.  While nothing strayed there is one loader at most, and until  *)
(* weights are in memory the default model does not change: it is what a   *)
(* startup load loads and, but for the cloud, what is shown.  Once weights *)
(* are in memory no startup load begins any more.                          *)
(***************************************************************************)

Healths == {"absent", "incomplete", "complete"}

Loaders == [kind : {"startup", "switch"}, model : Models, id : Nat \ {0}]

Commands ==
    [ name : {"none", "load", "models", "pick"},
      model : Models \cup {Cloud, NoModel},
      pc : {"idle", "start", "ready", "switch", "loaded", "failed"},
      thread : Nat,
      carried : Nat ]

LoadingTypes ==
    /\ load \in [started : BOOLEAN, ready : BOOLEAN, failed : BOOLEAN]
    /\ shown \in Models \cup {Cloud}
    /\ selection \in Models \cup {NoModel}
    /\ cache \in [Models -> Healths]
    /\ weights \in Models \cup {NoModel}
    /\ chat \in Nat /\ said \in Nat
    /\ loaders \subseteq Loaders
    /\ command \in Commands
    /\ strayed \in BOOLEAN
    /\ budget \in [loads : Nat, chats : Nat, switches : Nat]
    /\ command.pc \in {"switch", "loaded"} \/ command.thread # 0 => command.model \in Models

\* One loader at most: a startup load of the default model before any weights
\* are in memory, or the one the switch under way waits for.
LoadersAreKnown ==
    /\ \A t, u \in loaders : t = u
    /\ \A t \in loaders :
         IF t.kind = "startup"
         THEN /\ weights = NoModel /\ t.model = DefaultModel /\ load.started
              /\ command.pc \notin {"switch", "loaded", "failed"}
         ELSE command.pc = "switch" /\ command.thread = t.id /\ command.model = t.model

\* What is shown, and what the engine remembers.
ShownIsKnown ==
    /\ weights = NoModel => shown \in {DefaultModel, Cloud} /\ said = 0 /\ chat = 0
    /\ weights # NoModel /\ command.pc # "loaded" =>
         shown \in {weights, Cloud} /\ load.started /\ ~load.failed
    /\ command.pc = "loaded" => weights = command.model /\ weights # NoModel /\ loaders = {}
    /\ chat = IF command.pc = "loaded" THEN 0 ELSE said
    /\ command.pc \in {"switch", "loaded"} => command.carried = said

LoadingInv == LoadingTypes /\ (~strayed => LoadersAreKnown /\ ShownIsKnown)

-----------------------------------------------------------------------------
(* The default model *)

Loadable == {i \in DOMAIN CacheOrder : Complete(CacheOrder[i])}

FirstOf(usable) == CacheOrder[CHOOSE i \in usable : \A j \in usable : i <= j]

LEMMA SelectionIs ==
    StartupSelection = IF selection \in Models /\ Complete(selection) THEN selection
                       ELSE IF Loadable = {} THEN NoModel ELSE FirstOf(Loadable)
BY DEF StartupSelection, Loadable, FirstOf

\* The model to start with is complete, and writing it down does not change it.
LEMMA SelectionIsComplete ==
    /\ StartupSelection \in Models \cup {NoModel}
    /\ StartupSelection \in Models => Complete(StartupSelection)
<1>1. CASE selection \in Models /\ Complete(selection)
  BY <1>1, SelectionIs
<1>2. CASE ~(selection \in Models /\ Complete(selection)) /\ Loadable = {}
  BY <1>2, SelectionIs, LoadingAssumption DEF LoadingAssumption
<1>3. CASE ~(selection \in Models /\ Complete(selection)) /\ Loadable # {}
  <2>1. CacheOrder \in Seq(Models)
    BY LoadingAssumption DEF LoadingAssumption
  <2>2. Loadable \subseteq Nat /\ \A i \in Loadable : CacheOrder[i] \in Models /\ Complete(CacheOrder[i])
    BY <2>1 DEF Loadable
  <2> DEFINE first == CHOOSE i \in Loadable : \A j \in Loadable : i <= j
  <2>3. first \in Loadable
    BY <1>3, <2>2, SmallestExists
  <2>4. StartupSelection = CacheOrder[first]
    BY <1>3, SelectionIs DEF FirstOf
  <2> QED
    BY <2>2, <2>3, <2>4
<1> QED
  BY <1>1, <1>2, <1>3

LEMMA DefaultIs ==
    /\ DefaultModel \in Models
    /\ SelectionRead \in {selection, StartupSelection}
    /\ DefaultModel = IF StartupSelection = NoModel THEN PlatformModel ELSE StartupSelection
BY SelectionIsComplete, LoadingAssumption DEF LoadingAssumption, DefaultModel, SelectionRead

\* A load that fails completes nothing and takes nothing away.
LEMMA DefaultStays ==
    ASSUME \A m \in Models : Complete(m)' <=> Complete(m),
           selection' = selection \/ selection' = SelectionRead
    PROVE  DefaultModel' = DefaultModel
<1>1. Loadable' = Loadable
  <2>1. \A i \in DOMAIN CacheOrder : CacheOrder[i] \in Models
    BY LoadingAssumption DEF LoadingAssumption
  <2> QED
    BY <2>1 DEF Loadable
<1>2. StartupSelection' = IF selection' \in Models /\ Complete(selection)' THEN selection'
                          ELSE IF Loadable = {} THEN NoModel ELSE FirstOf(Loadable)
  <2>1. (StartupSelection = IF selection \in Models /\ Complete(selection) THEN selection
                            ELSE IF Loadable = {} THEN NoModel ELSE FirstOf(Loadable))'
    BY SelectionIs, PTL
  <2> QED
    BY <1>1, <2>1
<1>3. StartupSelection' = StartupSelection
  <2>1. CASE selection' = selection
    <3>1. selection' \in Models => (Complete(selection)' <=> Complete(selection))
      BY <2>1 DEF Complete
    <3> QED
      BY <1>2, <2>1, <3>1, SelectionIs
  <2>2. CASE selection' = SelectionRead /\ selection' # selection
    <3>1. StartupSelection # NoModel /\ selection' = StartupSelection
      BY <2>2 DEF SelectionRead
    <3>2. selection' \in Models /\ Complete(StartupSelection)
      BY <3>1, SelectionIsComplete
    <3>3. Complete(selection)'
      BY <3>1, <3>2 DEF Complete
    <3> QED
      BY <1>2, <3>1, <3>2, <3>3
  <2> QED
    BY <2>1, <2>2
<1> QED
  BY <1>3 DEF DefaultModel

-----------------------------------------------------------------------------
(* Helpers *)

LEMMA NoCommandFields ==
    /\ NoCommand \in Commands /\ NoCommand.pc = "idle" /\ NoCommand.thread = 0
BY DEF NoCommand, Commands

LEMMA CommandPcRewritten ==
    ASSUME command \in Commands, NEW pc \in {"ready", "loaded", "failed"},
           command' = [command EXCEPT !.pc = pc]
    PROVE  /\ command' \in Commands /\ command'.pc = pc /\ command'.thread = command.thread
           /\ command'.model = command.model /\ command'.carried = command.carried
BY DEF Commands

LEMMA Spawned ==
    ASSUME LoadingTypes, NEW kind \in {"startup", "switch"}, NEW m \in Models, Spawn(kind, m)
    PROVE  /\ loaders' \subseteq Loaders /\ budget' \in [loads : Nat, chats : Nat, switches : Nat]
           /\ budget.loads + 1 \in Nat
           /\ loaders = {} => \A t \in loaders' : t.kind = kind /\ t.model = m /\ t.id = budget.loads + 1
           /\ loaders = {} => \A t, u \in loaders' : t = u
<1>1. budget.loads + 1 \in Nat /\ budget' = [budget EXCEPT !.loads = budget.loads + 1]
  BY DEF LoadingTypes, Spawn
<1>2. budget' \in [loads : Nat, chats : Nat, switches : Nat]
  BY <1>1 DEF LoadingTypes
<1>3. [kind |-> kind, model |-> m, id |-> budget.loads + 1] \in Loaders
  <2>1. budget.loads + 1 \in Nat \ {0}
    BY DEF LoadingTypes
  <2> QED
    BY <2>1 DEF Loaders
<1>4. loaders' = loaders \cup {[kind |-> kind, model |-> m, id |-> budget.loads + 1]}
  BY DEF Spawn
<1> QED
  BY <1>1, <1>2, <1>3, <1>4 DEF LoadingTypes

LEMMA LoadingInitInv == LoadingInit => LoadingInv
<1> SUFFICES ASSUME LoadingInit
             PROVE  LoadingInv
  OBVIOUS
<1>1. command \in Commands /\ command.pc = "idle" /\ command.thread = 0
  BY NoCommandFields DEF LoadingInit
<1>2. cache \in [Models -> Healths]
  BY DEF LoadingInit, Healths
<1>3. selection \in Models \cup {NoModel}
  BY LoadingAssumption DEF LoadingInit, LoadingAssumption
<1>4. shown = DefaultModel /\ DefaultModel \in Models
  BY DefaultIs DEF LoadingInit
<1>5. LoadingTypes
  BY <1>1, <1>2, <1>3, <1>4 DEF LoadingInit, LoadingTypes
<1>6. LoadersAreKnown
  BY DEF LoadingInit, LoadersAreKnown
<1>7. ShownIsKnown
  BY <1>1, <1>4 DEF LoadingInit, ShownIsKnown
<1> QED
  BY <1>5, <1>6, <1>7 DEF LoadingInv

-----------------------------------------------------------------------------
(* Steps *)

\* /load.
LEMMA LoadStep ==
    ASSUME LoadingInv, LoadCommand
    PROVE  LoadingInv'
<1> DEFINE m == IF shown = Cloud THEN DefaultModel ELSE shown
<1>1. LoadingTypes
  BY DEF LoadingInv
<1>2. /\ command.pc = "start" /\ shown' = m
      /\ selection' = IF shown = Cloud THEN SelectionRead ELSE selection
      /\ command' = [command EXCEPT !.pc = "ready"] /\ UNCHANGED <<cache, weights, chat, said>>
  BY DEF LoadCommand
<1>3. m \in Models
  BY <1>1, DefaultIs DEF LoadingTypes
<1>4. /\ command' \in Commands /\ command'.pc = "ready"
      /\ command'.thread = command.thread /\ command'.model = command.model
  BY <1>1, <1>2, CommandPcRewritten DEF LoadingTypes
<1>5. selection' \in Models \cup {NoModel} /\ selection' \in {selection, SelectionRead}
  BY <1>1, <1>2, DefaultIs, SelectionIsComplete DEF LoadingTypes
<1>6. DefaultModel' = DefaultModel
  <2>1. \A x \in Models : Complete(x)' <=> Complete(x)
    BY <1>2 DEF Complete
  <2> QED
    BY <1>5, <2>1, DefaultStays
<1>7. strayed' = (strayed \/ (IF load.started THEN weights \notin {m, NoModel} ELSE loaders # {}))
  BY DEF LoadCommand, Stray
<1>8. CASE load.started
  <2>1. load' = [load EXCEPT !.started = TRUE] /\ UNCHANGED <<loaders, budget>>
    BY <1>8 DEF LoadCommand, StartLoad
  <2>2. load' = load
    BY <1>1, <1>8, <2>1 DEF LoadingTypes
  <2> HIDE DEF m
  <2>3. strayed' \in BOOLEAN /\ (~strayed' => ~strayed /\ weights \in {m, NoModel})
    BY <1>1, <1>7, <1>8 DEF LoadingTypes
  <2>4. LoadingTypes'
    BY <1>1, <1>2, <1>3, <1>4, <1>5, <2>1, <2>2, <2>3 DEF LoadingTypes
  <2>5. ASSUME ~strayed'
        PROVE  LoadersAreKnown' /\ ShownIsKnown'
    <3>1. LoadersAreKnown /\ ShownIsKnown /\ weights \in {m, NoModel}
      BY <2>3, <2>5 DEF LoadingInv
    <3>2. LoadersAreKnown'
      BY <1>2, <1>4, <1>6, <2>1, <2>2, <3>1 DEF LoadersAreKnown
    <3>3. weights = NoModel => m = DefaultModel
      BY <1>1, <3>1 DEF ShownIsKnown, LoadingTypes, m
    <3>4. ShownIsKnown'
      BY <1>2, <1>3, <1>4, <1>6, <2>2, <3>1, <3>3 DEF ShownIsKnown
    <3> QED
      BY <3>2, <3>4
  <2> QED
    BY <2>4, <2>5 DEF LoadingInv
<1>9. CASE ~load.started
  <2> HIDE DEF m
  <2>1. Spawn("startup", m) /\ load' = [started |-> TRUE, ready |-> FALSE, failed |-> FALSE]
    BY <1>9 DEF LoadCommand, StartLoad, m
  <2>2. strayed' \in BOOLEAN /\ (~strayed' => ~strayed /\ loaders = {})
    BY <1>1, <1>7, <1>9 DEF LoadingTypes
  <2>3. LoadingTypes'
    BY <1>1, <1>2, <1>3, <1>4, <1>5, <2>1, <2>2, Spawned DEF LoadingTypes
  <2>4. ASSUME ~strayed'
        PROVE  LoadersAreKnown' /\ ShownIsKnown'
    <3>1. LoadersAreKnown /\ ShownIsKnown /\ loaders = {}
      BY <2>2, <2>4 DEF LoadingInv
    <3>2. weights = NoModel
      BY <1>2, <1>9, <3>1 DEF ShownIsKnown
    <3>3. m = DefaultModel
      BY <1>1, <3>1, <3>2 DEF ShownIsKnown, LoadingTypes, m
    <3>4. /\ \A t \in loaders' : t.kind = "startup" /\ t.model = m
          /\ \A t, u \in loaders' : t = u
      BY <1>1, <1>3, <2>1, <3>1, Spawned
    <3>5. LoadersAreKnown'
      BY <1>2, <1>4, <1>6, <2>1, <3>2, <3>3, <3>4 DEF LoadersAreKnown
    <3>6. ShownIsKnown'
      BY <1>2, <1>4, <1>6, <3>1, <3>2, <3>3 DEF ShownIsKnown
    <3> QED
      BY <3>5, <3>6
  <2> QED
    BY <2>3, <2>4 DEF LoadingInv
<1> QED
  BY <1>8, <1>9

\* /models or a pick begins to switch, or is refused.
LEMMA SwitchBegins ==
    ASSUME LoadingInv, NEW m \in Models, StartSwitch(m), command.model = m, command.pc = "start",
           UNCHANGED <<load, shown, selection, cache, localMode, weights, chat, said>>
    PROVE  LoadingInv'
<1>1. LoadingTypes
  BY DEF LoadingInv
<1>2. DefaultModel' = DefaultModel
  BY DefaultStays DEF Complete
<1>3. CASE cache[m] = "incomplete"
  <2>1. command' = NoCommand /\ UNCHANGED <<loaders, budget, strayed>>
    BY <1>3 DEF StartSwitch
  <2>2. LoadingTypes'
    BY <1>1, <2>1, NoCommandFields DEF LoadingTypes
  <2>3. ASSUME ~strayed'
        PROVE  LoadersAreKnown' /\ ShownIsKnown'
    <3>1. LoadersAreKnown /\ ShownIsKnown /\ command'.pc = "idle"
      BY <2>1, <2>3, NoCommandFields DEF LoadingInv
    <3>2. LoadersAreKnown'
      BY <1>2, <2>1, <3>1 DEF LoadersAreKnown
    <3>3. ShownIsKnown'
      BY <1>2, <2>1, <3>1 DEF ShownIsKnown
    <3> QED
      BY <3>2, <3>3
  <2> QED
    BY <2>2, <2>3 DEF LoadingInv
<1>4. CASE cache[m] # "incomplete"
  <2>1. /\ Spawn("switch", m) /\ strayed' = (strayed \/ loaders # {})
        /\ command' = [command EXCEPT !.pc = "switch", !.thread = budget.loads + 1, !.carried = chat]
    BY <1>4 DEF StartSwitch, Stray
  <2>2. /\ command' \in Commands /\ command'.pc = "switch" /\ command'.thread = budget.loads + 1
        /\ command'.carried = chat /\ command'.model = m
    BY <1>1, <2>1, Spawned DEF LoadingTypes, Commands
  <2>3. strayed' \in BOOLEAN /\ (~strayed' => ~strayed /\ loaders = {})
    BY <1>1, <2>1 DEF LoadingTypes
  <2>4. LoadingTypes'
    BY <1>1, <2>1, <2>2, <2>3, Spawned DEF LoadingTypes
  <2>5. ASSUME ~strayed'
        PROVE  LoadersAreKnown' /\ ShownIsKnown'
    <3>1. LoadersAreKnown /\ ShownIsKnown /\ loaders = {}
      BY <2>3, <2>5 DEF LoadingInv
    <3>2. /\ \A t \in loaders' : t.kind = "switch" /\ t.model = m /\ t.id = budget.loads + 1
          /\ \A t, u \in loaders' : t = u
      BY <1>1, <2>1, <3>1, Spawned
    <3>3. LoadersAreKnown'
      BY <2>2, <3>2 DEF LoadersAreKnown
    <3>4. ShownIsKnown'
      BY <1>2, <2>2, <3>1 DEF ShownIsKnown
    <3> QED
      BY <3>3, <3>4
  <2> QED
    BY <2>4, <2>5 DEF LoadingInv
<1> QED
  BY <1>3, <1>4

\* A command ends, or the cloud is shown, and the loaders go on.
LEMMA CommandEnds ==
    ASSUME LoadingInv, command' = NoCommand, command.pc \notin {"switch", "loaded"} \/ strayed',
           shown' \in {shown, Cloud}, strayed' \in BOOLEAN, strayed => strayed',
           UNCHANGED <<load, selection, cache, weights, chat, loaders, said, budget>>
    PROVE  LoadingInv'
<1>1. LoadingTypes
  BY DEF LoadingInv
<1>2. DefaultModel' = DefaultModel
  BY DefaultStays DEF Complete
<1>3. LoadingTypes'
  BY <1>1, NoCommandFields DEF LoadingTypes
<1>4. ASSUME ~strayed'
      PROVE  LoadersAreKnown' /\ ShownIsKnown'
  <2>1. LoadersAreKnown /\ ShownIsKnown /\ command'.pc = "idle" /\ command.pc \notin {"switch", "loaded"}
    BY <1>4, NoCommandFields DEF LoadingInv
  <2>2. LoadersAreKnown'
    BY <1>2, <2>1 DEF LoadersAreKnown
  <2>3. ShownIsKnown'
    BY <1>2, <2>1 DEF ShownIsKnown
  <2> QED
    BY <2>2, <2>3
<1> QED
  BY <1>3, <1>4 DEF LoadingInv

\* The weights a switch waited for are in.
LEMMA SwitchEnds ==
    ASSUME LoadingInv, SwitchDone
    PROVE  LoadingInv'
<1>1. LoadingTypes
  BY DEF LoadingInv
<1>2. /\ command.pc = "loaded" /\ load' = [started |-> TRUE, ready |-> TRUE, failed |-> FALSE]
      /\ selection' = command.model /\ shown' = command.model /\ chat' = chat + command.carried
      /\ command' = NoCommand /\ UNCHANGED <<cache, weights, loaders, said, strayed, budget>>
  BY DEF SwitchDone
<1>3. ~strayed => ShownIsKnown
  BY DEF LoadingInv
<1>4. command.model \in Models /\ chat + command.carried \in Nat
  BY <1>1, <1>2 DEF LoadingTypes, Commands
<1>5. LoadingTypes'
  BY <1>1, <1>2, <1>4, NoCommandFields DEF LoadingTypes
<1>6. ASSUME ~strayed'
      PROVE  LoadersAreKnown' /\ ShownIsKnown'
  <2>1. /\ weights = command.model /\ weights # NoModel /\ loaders = {} /\ chat = 0
        /\ command.carried = said /\ command'.pc = "idle" /\ said \in Nat
    BY <1>1, <1>2, <1>6, NoCommandFields DEF LoadingInv, LoadingTypes, ShownIsKnown
  <2>2. LoadersAreKnown'
    BY <1>2, <2>1 DEF LoadersAreKnown
  <2>3. ShownIsKnown'
    BY <1>2, <2>1 DEF ShownIsKnown
  <2> QED
    BY <2>2, <2>3
<1> QED
  BY <1>5, <1>6 DEF LoadingInv

\* A request, a prompt, a toggle.
LEMMA ClientStep ==
    ASSUME LoadingInv, AskForModel \/ ToggleLocal \/ PromptOnDevice
    PROVE  LoadingInv'
<1>1. LoadingTypes /\ (~strayed => LoadersAreKnown /\ ShownIsKnown)
  BY DEF LoadingInv
<1>2. /\ UNCHANGED <<load, shown, selection, cache, weights, loaders, strayed>>
      /\ command = NoCommand
  BY DEF AskForModel, ToggleLocal, PromptOnDevice
<1>3. command.pc = "idle"
  BY <1>2, NoCommandFields
<1>4. DefaultModel' = DefaultModel
  BY <1>2, DefaultStays DEF Complete
<1>5. CASE AskForModel
  <2>1. PICK name \in {"load", "models", "pick"}, m \in Models \cup {Cloud, NoModel} :
          /\ command' = [NoCommand EXCEPT !.name = name, !.model = m, !.pc = "start"]
          /\ budget' = [budget EXCEPT !.switches = IF m = Cloud THEN budget.switches + 1 ELSE budget.switches]
    BY <1>5 DEF AskForModel
  <2>2. command' \in Commands /\ command'.pc = "start" /\ command'.thread = 0
    BY <2>1, NoCommandFields DEF Commands
  <2>3. budget' \in [loads : Nat, chats : Nat, switches : Nat]
    BY <1>1, <2>1 DEF LoadingTypes
  <2>4. UNCHANGED <<chat, said>>
    BY <1>5 DEF AskForModel
  <2>5. LoadingTypes'
    BY <1>1, <1>2, <2>2, <2>3, <2>4 DEF LoadingTypes
  <2>6. LoadersAreKnown => LoadersAreKnown'
    BY <1>2, <1>3, <1>4, <2>2 DEF LoadersAreKnown
  <2>7. ShownIsKnown => ShownIsKnown'
    BY <1>2, <1>3, <1>4, <2>2, <2>4 DEF ShownIsKnown
  <2> QED
    BY <1>1, <1>2, <2>5, <2>6, <2>7 DEF LoadingInv
<1>6. CASE ToggleLocal
  <2>1. budget' = [budget EXCEPT !.switches = budget.switches + 1] /\ UNCHANGED <<command, chat, said>>
    BY <1>6 DEF ToggleLocal
  <2>2. budget' \in [loads : Nat, chats : Nat, switches : Nat]
    BY <1>1, <2>1 DEF LoadingTypes
  <2>3. LoadingTypes'
    BY <1>1, <1>2, <2>1, <2>2 DEF LoadingTypes
  <2>4. (LoadersAreKnown => LoadersAreKnown') /\ (ShownIsKnown => ShownIsKnown')
    BY <1>2, <1>4, <2>1 DEF LoadersAreKnown, ShownIsKnown
  <2> QED
    BY <1>1, <1>2, <2>3, <2>4 DEF LoadingInv
<1>7. CASE PromptOnDevice
  <2>1. /\ weights # NoModel /\ chat' = chat + 1 /\ said' = said + 1
        /\ budget' = [budget EXCEPT !.chats = budget.chats + 1] /\ UNCHANGED command
    BY <1>7 DEF PromptOnDevice
  <2>2. budget' \in [loads : Nat, chats : Nat, switches : Nat]
    BY <1>1, <2>1 DEF LoadingTypes
  <2>3. LoadingTypes'
    BY <1>1, <1>2, <2>1, <2>2 DEF LoadingTypes
  <2>4. (LoadersAreKnown => LoadersAreKnown') /\ (ShownIsKnown => ShownIsKnown')
    BY <1>2, <1>3, <1>4, <2>1 DEF LoadersAreKnown, ShownIsKnown
  <2> QED
    BY <1>1, <1>2, <2>3, <2>4 DEF LoadingInv
<1> QED
  BY <1>5, <1>6, <1>7

\* A startup load that failed is tried again: no weights are in memory.
LEMMA ReloadStep ==
    ASSUME LoadingInv, Reload
    PROVE  LoadingInv'
<1>1. LoadingTypes
  BY DEF LoadingInv
<1>2. /\ command = NoCommand /\ shown # Cloud /\ load.failed /\ Spawn("startup", shown)
      /\ load' = [started |-> TRUE, ready |-> FALSE, failed |-> FALSE]
      /\ strayed' = (strayed \/ loaders # {})
      /\ UNCHANGED <<shown, selection, cache, weights, chat, command, said>>
  BY DEF Reload, StartLoad, Stray
<1>3. command.pc = "idle" /\ shown \in Models
  BY <1>1, <1>2, NoCommandFields DEF LoadingTypes
<1>4. DefaultModel' = DefaultModel
  BY <1>2, DefaultStays DEF Complete
<1>5. strayed' \in BOOLEAN /\ (~strayed' => ~strayed /\ loaders = {})
  BY <1>1, <1>2 DEF LoadingTypes
<1>6. LoadingTypes'
  BY <1>1, <1>2, <1>3, <1>5, Spawned DEF LoadingTypes
<1>7. ASSUME ~strayed'
      PROVE  LoadersAreKnown' /\ ShownIsKnown'
  <2>1. LoadersAreKnown /\ ShownIsKnown /\ loaders = {}
    BY <1>5, <1>7 DEF LoadingInv
  <2>2. weights = NoModel /\ shown = DefaultModel
    BY <1>2, <1>3, <2>1 DEF ShownIsKnown
  <2>3. /\ \A t \in loaders' : t.kind = "startup" /\ t.model = shown
        /\ \A t, u \in loaders' : t = u
    BY <1>1, <1>2, <1>3, <2>1, Spawned
  <2>4. LoadersAreKnown'
    BY <1>2, <1>3, <1>4, <2>2, <2>3 DEF LoadersAreKnown
  <2>5. ShownIsKnown'
    BY <1>2, <1>3, <1>4, <2>1, <2>2 DEF ShownIsKnown
  <2> QED
    BY <2>4, <2>5
<1> QED
  BY <1>6, <1>7 DEF LoadingInv

\* What a thread publishes.
LEMMA Published ==
    ASSUME LoadingTypes, NEW t \in loaders, NEW ok \in BOOLEAN, Publish(t, ok)
    PROVE  /\ load' \in [started : BOOLEAN, ready : BOOLEAN, failed : BOOLEAN]
           /\ command' \in Commands
           /\ command'.pc \in {"switch", "loaded"} \/ command'.thread # 0 => command'.model \in Models
           /\ t.kind = "startup" => /\ UNCHANGED command /\ load'.started = load.started
                                    /\ load'.failed = ~ok
           /\ t.kind = "switch" =>
                /\ UNCHANGED load
                /\ command.thread = t.id =>
                     /\ command'.pc = (IF ok THEN "loaded" ELSE "failed")
                     /\ command'.model = command.model /\ command'.carried = command.carried
                /\ command.thread # t.id => UNCHANGED command
<1>1. CASE t.kind = "startup"
  <2>1. load' = [load EXCEPT !.failed = ~ok, !.ready = TRUE] /\ UNCHANGED command
    BY <1>1 DEF Publish
  <2> QED
    BY <1>1, <2>1 DEF LoadingTypes
<1>2. CASE t.kind = "switch" /\ command.thread = t.id
  <2> DEFINE pc == IF ok THEN "loaded" ELSE "failed"
  <2>1. command' = [command EXCEPT !.pc = pc] /\ UNCHANGED load /\ pc \in {"ready", "loaded", "failed"}
    BY <1>2 DEF Publish
  <2> HIDE DEF pc
  <2>2. /\ command' \in Commands /\ command'.pc = pc /\ command.thread # 0
        /\ command'.model = command.model /\ command'.carried = command.carried
    BY <1>2, <2>1, CommandPcRewritten DEF LoadingTypes, Loaders
  <2> QED
    BY <1>2, <2>1, <2>2 DEF LoadingTypes, pc
<1>3. CASE t.kind = "switch" /\ command.thread # t.id
  BY <1>3 DEF Publish, LoadingTypes
<1> QED
  BY <1>1, <1>2, <1>3 DEF LoadingTypes, Loaders

\* A load ends well.
LEMMA LoadEnds ==
    ASSUME LoadingInv, LoadSucceeds
    PROVE  LoadingInv'
<1>1. LoadingTypes
  BY DEF LoadingInv
<1>2. PICK t \in loaders :
        /\ loaders' = loaders \ {t} /\ cache' = [cache EXCEPT ![t.model] = "complete"]
        /\ weights' = t.model /\ chat' = 0 /\ Publish(t, TRUE)
        /\ UNCHANGED <<shown, selection, localMode, said, strayed, budget>>
  BY DEF LoadSucceeds
<1>3. t.model \in Models /\ t.kind \in {"startup", "switch"} /\ t.model # NoModel
  BY <1>1, LoadingAssumption DEF LoadingTypes, Loaders, LoadingAssumption
<1>4. cache' \in [Models -> Healths]
  BY <1>1, <1>2 DEF LoadingTypes, Healths
<1>5. LoadingTypes'
  BY <1>1, <1>2, <1>3, <1>4, Published DEF LoadingTypes
<1>6. ASSUME ~strayed'
      PROVE  LoadersAreKnown' /\ ShownIsKnown'
  <2>1. LoadersAreKnown /\ ShownIsKnown
    BY <1>2, <1>6 DEF LoadingInv
  <2>2. loaders' = {}
    BY <1>2, <2>1 DEF LoadersAreKnown
  <2>3. LoadersAreKnown'
    BY <2>2 DEF LoadersAreKnown
  <2>4. CASE t.kind = "startup"
    <3>1. /\ weights = NoModel /\ t.model = DefaultModel /\ load.started
          /\ command.pc \notin {"switch", "loaded", "failed"}
      BY <2>1, <2>4 DEF LoadersAreKnown
    <3>2. UNCHANGED command /\ load'.started = load.started /\ load'.failed = FALSE
      BY <1>1, <1>2, <2>4, Published
    <3>3. shown \in {t.model, Cloud} /\ said = 0
      BY <2>1, <3>1 DEF ShownIsKnown
    <3> QED
      BY <1>2, <1>3, <2>3, <3>1, <3>2, <3>3 DEF ShownIsKnown
  <2>5. CASE t.kind = "switch"
    <3>1. command.pc = "switch" /\ command.thread = t.id /\ command.model = t.model
      BY <2>1, <2>5 DEF LoadersAreKnown
    <3>2. command'.pc = "loaded" /\ command'.model = t.model /\ command'.carried = command.carried
      BY <1>1, <1>2, <2>5, <3>1, Published
    <3> QED
      BY <1>2, <1>3, <2>1, <2>2, <2>3, <3>1, <3>2 DEF ShownIsKnown
  <2> QED
    BY <1>3, <2>4, <2>5
<1> QED
  BY <1>5, <1>6 DEF LoadingInv

\* A load fails: the engine keeps what it has.
LEMMA LoadBreaks ==
    ASSUME LoadingInv, LoadFails
    PROVE  LoadingInv'
<1>1. LoadingTypes
  BY DEF LoadingInv
<1>2. PICK t \in loaders, kept \in BOOLEAN :
        /\ loaders' = loaders \ {t}
        /\ cache' = IF cache[t.model] = "absent" /\ kept
                    THEN [cache EXCEPT ![t.model] = "incomplete"] ELSE cache
        /\ Publish(t, FALSE)
        /\ UNCHANGED <<shown, selection, localMode, weights, chat, said, strayed, budget>>
  BY DEF LoadFails
<1>3. t.model \in Models /\ t.kind \in {"startup", "switch"}
  BY <1>1 DEF LoadingTypes, Loaders
<1>4. cache' \in [Models -> Healths] /\ \A m \in Models : cache'[m] = "complete" <=> cache[m] = "complete"
  BY <1>1, <1>2, <1>3 DEF LoadingTypes, Healths
<1>5. DefaultModel' = DefaultModel
  BY <1>2, <1>4, DefaultStays DEF Complete
<1>6. LoadingTypes'
  BY <1>1, <1>2, <1>4, Published DEF LoadingTypes
<1>7. ASSUME ~strayed'
      PROVE  LoadersAreKnown' /\ ShownIsKnown'
  <2>1. LoadersAreKnown /\ ShownIsKnown
    BY <1>2, <1>7 DEF LoadingInv
  <2>2. loaders' = {}
    BY <1>2, <2>1 DEF LoadersAreKnown
  <2>3. LoadersAreKnown'
    BY <2>2 DEF LoadersAreKnown
  <2>4. CASE t.kind = "startup"
    <3>1. weights = NoModel /\ command.pc \notin {"switch", "loaded", "failed"}
      BY <2>1, <2>4 DEF LoadersAreKnown
    <3>2. UNCHANGED command
      BY <1>1, <1>2, <2>4, Published
    <3> QED
      BY <1>2, <1>5, <2>1, <2>3, <3>1, <3>2 DEF ShownIsKnown
  <2>5. CASE t.kind = "switch"
    <3>1. command.pc = "switch" /\ command.thread = t.id
      BY <2>1, <2>5 DEF LoadersAreKnown
    <3>2. command'.pc = "failed" /\ UNCHANGED load
      BY <1>1, <1>2, <2>5, <3>1, Published
    <3> QED
      BY <1>2, <1>5, <2>1, <2>3, <3>1, <3>2 DEF ShownIsKnown
  <2> QED
    BY <1>3, <2>4, <2>5
<1> QED
  BY <1>6, <1>7 DEF LoadingInv

LEMMA LoadingStep == LoadingInv /\ [LoadingNext]_loadingVars => LoadingInv'
<1> SUFFICES ASSUME LoadingInv, [LoadingNext]_loadingVars
             PROVE  LoadingInv'
  OBVIOUS
<1>1. strayed \in BOOLEAN
  BY DEF LoadingInv, LoadingTypes
<1>2. CASE ModelReady
  BY <1>1, <1>2, CommandEnds DEF ModelReady
<1>3. CASE ModelsCommand
  BY <1>3, SwitchBegins DEF ModelsCommand
<1>4. CASE PickModelOnDevice
  <2>1. CASE StartSwitch(command.model)
    BY <1>4, <2>1, SwitchBegins DEF PickModelOnDevice
  <2>2. CASE command' = NoCommand /\ UNCHANGED <<loaders, budget, strayed>>
    BY <1>1, <1>4, <2>2, CommandEnds DEF PickModelOnDevice
  <2> QED
    BY <1>4, <2>1, <2>2 DEF PickModelOnDevice
<1>5. CASE SwitchToCloudTier
  BY <1>1, <1>5, CommandEnds DEF SwitchToCloudTier
<1>6. CASE SwitchFailed
  BY <1>1, <1>6, CommandEnds DEF SwitchFailed
<1>7. CASE CancelCommand
  <2>1. strayed' = (strayed \/ command.pc # "ready") /\ command.pc \in {"ready", "switch", "loaded"}
    BY <1>7 DEF CancelCommand, Stray
  <2>2. strayed' \in BOOLEAN /\ (strayed => strayed') /\ (command.pc = "ready" \/ strayed')
    BY <1>1, <2>1
  <2> QED
    BY <1>7, <2>1, <2>2, CommandEnds DEF CancelCommand
<1>8. CASE UNCHANGED loadingVars
  <2>1. LoadingTypes' <=> LoadingTypes
    BY <1>8 DEF loadingVars, LoadingTypes
  <2>2. DefaultModel' = DefaultModel
    BY <1>8, DefaultStays DEF loadingVars, Complete
  <2>3. (LoadersAreKnown => LoadersAreKnown') /\ (ShownIsKnown => ShownIsKnown')
    BY <1>8, <2>2 DEF loadingVars, LoadersAreKnown, ShownIsKnown
  <2> QED
    BY <1>8, <2>1, <2>3 DEF loadingVars, LoadingInv
<1> QED
  BY <1>2, <1>3, <1>4, <1>5, <1>6, <1>7, <1>8, LoadStep, SwitchEnds, ClientStep, ReloadStep, LoadEnds,
     LoadBreaks DEF LoadingNext, LoaderThread, LoadingCommand, LoadingClient

LEMMA LoadingIsKnown == LoadingSpec => []LoadingInv
BY LoadingInitInv, LoadingStep, PTL DEF LoadingSpec

\* Between commands the model the client shows is the one in memory, whatever
\* loads failed, were tried again or cancelled, for any models and any cache.
THEOREM TheShownModelIsLoaded == LoadingSpec => []ShownIsLoaded
<1>1. LoadingInv => ShownIsLoaded
  BY NoCommandFields DEF LoadingInv, ShownIsKnown, ShownIsLoaded
<1> QED
  BY <1>1, LoadingIsKnown, PTL

\* No load and no switch loses a turn of the conversation.
THEOREM SwitchesKeepTheConversation == LoadingSpec => []ConversationKept
<1>1. LoadingInv => ConversationKept
  BY NoCommandFields DEF LoadingInv, ShownIsKnown, ConversationKept
<1> QED
  BY <1>1, LoadingIsKnown, PTL
=============================================================================
