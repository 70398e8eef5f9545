----------------------------- MODULE PromptTurn -----------------------------
(***************************************************************************)
(* The prompt turns of one session, message by message (handle_prompt in   *)
(* crates/cli/src/main.rs, and the HTTP backend in backend.rs).            *)
(*                                                                         *)
(* A turn sends the prompt, runs the tools the model asks for, sends their *)
(* results and goes on until the model makes no call.  A cancellation      *)
(* comes at any time and is heard at some awaits and checks only.  The     *)
(* user's answers and a change of the permission mode come at any time     *)
(* too: the change takes no lock.                                          *)
(*                                                                         *)
(* The other sessions are SessionWorkspace's.  Here they show as a wait    *)
(* between an answer and the step that uses it ("loop", "answered"): the   *)
(* turn takes the workspace back there.                                    *)
(***************************************************************************)
EXTENDS Conversation, Permissions

CONSTANTS
    CallLists,          \* the tool calls a reply may make: sequences of CallType
    PollingTools,       \* command_output and monitor_command, which may repeat
    IdsRepeat,          \* TRUE: the endpoint sends no call ids, so that the
                        \* client's own (call_0, call_1, ...) come back every round
    MaxTurns,           \* prompts
    MaxToolRounds,      \* MAX_TOOL_ROUNDS
    MaxEvents           \* broken replies, cancellations, permission changes,
                        \* model switches and /clear

ASSUME TurnAssumption ==
    /\ CallLists \subseteq Seq(CallType)
    /\ IdsRepeat \in BOOLEAN
    /\ {MaxTurns, MaxEvents} \subseteq Nat
    /\ MaxToolRounds \in Nat \ {0}

VARIABLES
    history,    \* OpenAiBackend::history
    perms,      \* permissions::SessionPerms of the session
    turn,       \* the turn under way, see TurnType
    answers,    \* history variable: what the user settled for the session since
                \* the permissions were last reset, [choice, call]
    openCalls,  \* history variable: a turn ended between the model's reply and
                \* its first tool, and left the calls of the reply unanswered; or a
                \* compaction dropped the reply, and left its results unasked for
    events      \* events so far, see MaxEvents

vars == <<history, perms, turn, answers, openCalls, events>>

ForSession == {"allow_session", "reject_session"}
UserChoices == ForSession \cup {"allow_once", "reject_once"}

\* Where the turn is.
\*   request   an inference request is out (`what`: "prompt" or "results")
\*   loop      the reply is in, the turn takes the workspace back
\*   compact   the endpoint writes a summary
\*   calls     about to decide on call `at`
\*   ask       the user is asked about call `at`
\*   answered  the user answered, the turn takes the workspace back
\*   run       call `at` runs
PCs == {"idle", "request", "loop", "compact", "calls", "ask", "answered", "run"}

TurnType ==
    [ pc : PCs, n : 0..MaxTurns,
      what : {"prompt", "results"},
      retried : BOOLEAN,                \* complete has told the model to try again
      allow : BOOLEAN,                  \* allow_tool_calls
      round : 0..MaxToolRounds,
      calls : Seq(CallType),            \* result.tool_calls
      at : Nat,                         \* call_index, from 1
      seen : Seq(CallType),             \* the keys of repeated_tool_calls, with repetition
      force_text : BOOLEAN,
      verdict : {"none", "approved", "denied", "cancelled"},
      finish : {"stop", "refusal"},     \* result.finish
      before : Seq(MessageType(0..MaxTurns)),
      cancelled : BOOLEAN ]             \* PromptCancellation

NoTurn == [pc |-> "idle", n |-> 0, what |-> "prompt", retried |-> FALSE, allow |-> TRUE,
           round |-> 0, calls |-> << >>, at |-> 1, seen |-> << >>, force_text |-> FALSE,
           verdict |-> "none", finish |-> "stop", before |-> << >>, cancelled |-> FALSE]

Call == turn.calls[turn.at]

\* The id of a round's i-th call.
CallId(round, i) == IF IdsRepeat THEN <<0, 0, i>> ELSE <<turn.n, round, i>>

\* The ids of the calls from i on, of the round the turn is in.
IdsFrom(i) == [k \in 1..(Len(turn.calls) - i + 1) |-> CallId(turn.round, i + k - 1)]

Ids == IdsFrom(1)

-----------------------------------------------------------------------------
Init ==
    /\ history \in {<<System(kind)>> : kind \in SystemKinds}
    /\ perms = NoPerms
    /\ turn = NoTurn
    /\ answers = {}
    /\ openCalls = FALSE
    /\ events = 0

\* The turn is over.  The next one starts from nothing but the history.
End == turn' = [NoTurn EXCEPT !.n = turn.n]

StartTurn ==
    /\ turn.pc = "idle" /\ turn.n < MaxTurns
    /\ turn' = [NoTurn EXCEPT !.pc = "request", !.n = turn.n + 1, !.before = history]
    /\ history' = Append(history, Prompt(turn.n + 1))
    /\ UNCHANGED <<perms, answers, openCalls, events>>

Event == events < MaxEvents /\ events' = events + 1

-----------------------------------------------------------------------------
(* The endpoint *)

\* A reply that makes calls.  Where none are allowed they are suppressed and
\* an empty message is kept.
ReplyWithCalls ==
    /\ turn.pc = "request"
    /\ \E list \in CallLists :
         /\ turn' = [turn EXCEPT !.pc = "loop", !.calls = IF turn.allow THEN list ELSE << >>,
                                 !.at = 1, !.finish = "stop"]
         /\ history' = Append(history,
                Assistant("silent", turn.n,
                    IF turn.allow THEN [i \in DOMAIN list |-> CallId(turn.round + 1, i)]
                    ELSE << >>))
    /\ UNCHANGED <<perms, answers, openCalls, events>>

ReplyWithText ==
    /\ turn.pc = "request"
    /\ \E finish \in {"stop", "refusal"} :
         turn' = [turn EXCEPT !.pc = "loop", !.calls = << >>, !.finish = finish]
    /\ history' = Append(history, Assistant("text", turn.n, << >>))
    /\ UNCHANGED <<perms, answers, openCalls, events>>

\* A tool call that cannot be parsed, or a repetition loop: the model is told
\* so, once, and asked again.  What it said before is kept if there is any.
ReplyBroken ==
    /\ turn.pc = "request" /\ Event
    /\ \E said \in BOOLEAN :
         LET kept == IF said THEN Append(history, Assistant("text", turn.n, << >>)) ELSE history
             again == turn.allow /\ ~turn.retried
         IN  /\ history' = IF again THEN Append(kept, Note(turn.n)) ELSE kept
             /\ turn' = IF again THEN [turn EXCEPT !.retried = TRUE]
                        ELSE [turn EXCEPT !.pc = "loop", !.calls = << >>, !.finish = "stop"]
    /\ UNCHANGED <<perms, answers, openCalls>>

\* The request fails: the turn ends with the endpoint's error, and the client
\* keeps the prompt.
ReplyError ==
    /\ turn.pc = "request"
    /\ End
    /\ UNCHANGED <<history, perms, answers, openCalls, events>>

\* The wait for the endpoint ends on a cancellation.  The first request's
\* prompt is taken back; a later one's results are recorded.
RequestCancelled ==
    /\ turn.pc = "request" /\ turn.cancelled
    /\ IF turn.what = "prompt"
       THEN history' = ForgetTrailingUserMessage(history)
       ELSE history' = RecordCancelledToolResults(history, turn.n, Ids)
    /\ End
    /\ UNCHANGED <<perms, answers, openCalls, events>>

-----------------------------------------------------------------------------
(* The top of the loop *)

MoreRounds == turn.calls # << >> /\ turn.round < MaxToolRounds

\* The cancellation came while the turn took the workspace back.
LoopCancelled ==
    /\ turn.pc = "loop" /\ MoreRounds /\ turn.cancelled
    /\ openCalls' = TRUE
    /\ End
    /\ UNCHANGED <<history, perms, answers, events>>

NextRound ==
    /\ turn.pc = "loop" /\ MoreRounds /\ ~turn.cancelled
    /\ turn' = [turn EXCEPT !.round = @ + 1, !.force_text = FALSE,
                            !.pc = IF OverBudget(history) THEN "compact" ELSE "calls"]
    /\ UNCHANGED <<history, perms, answers, openCalls, events>>

\* The endpoint wrote the summary, or it did not and the oldest messages go.
\* Nothing listens for a cancellation meanwhile.  Where only the prompt fits, the
\* reply whose calls are about to run goes as well.
Compacted ==
    /\ turn.pc = "compact"
    /\ \E summarized \in BOOLEAN :
         /\ CompactHistory(history, summarized) # NoRebuild
         /\ history' = CompactHistory(history, summarized)
    /\ turn' = [turn EXCEPT !.pc = "calls"]
    /\ openCalls' = (openCalls \/ Last(history') # Last(history))
    /\ UNCHANGED <<perms, answers, events>>

\* Not even the newest messages fit: the turn says so and ends.
CompactionFailed ==
    /\ turn.pc = "compact"
    /\ CompactHistory(history, FALSE) = NoRebuild
    /\ openCalls' = TRUE
    /\ End
    /\ UNCHANGED <<history, perms, answers, events>>

-----------------------------------------------------------------------------
(* The calls of a round *)

SameCall(a, b) == a.tool = b.tool /\ a.args = b.args

Repeated == /\ Cardinality({i \in DOMAIN turn.seen : SameCall(turn.seen[i], Call)}) >= 2
            /\ Call.tool \notin PollingTools

\* Mutant: a repeated call does not end the tool rounds.
AfterCallKeepsTools(t) ==
    IF t.at < Len(t.calls)
    THEN [t EXCEPT !.pc = "calls", !.at = @ + 1, !.verdict = "none"]
    ELSE [t EXCEPT !.pc = "request", !.what = "results", !.verdict = "none", !.retried = FALSE,
                   !.allow = t.round < MaxToolRounds]

\* Call `at` has its result: the turn goes on to the next call.
\* After the last one the results are sent; no call is allowed in the reply
\* once the rounds are used up or a call was repeated.
AfterCall(t) ==
    IF t.at < Len(t.calls)
    THEN [t EXCEPT !.pc = "calls", !.at = @ + 1, !.verdict = "none"]
    ELSE [t EXCEPT !.pc = "request", !.what = "results", !.verdict = "none", !.retried = FALSE,
                   !.allow = t.round < MaxToolRounds /\ ~t.force_text]

\* The result of call `at` is in, and unless the turn is cancelled it goes on.
\* A cancelled one answers the calls it never reached and ends.
Continue(t) ==
    IF t.cancelled
    THEN /\ turn' = [NoTurn EXCEPT !.n = t.n]
         /\ history' = RecordCancelledToolResults(history, t.n, Ids)
    ELSE /\ turn' = AfterCall(t)
         /\ history' = IF AfterCall(t).pc = "request" THEN AppendResults(history, t.n, Ids)
                       ELSE history

\* The repetition guard and the permission gate, up to the first await.
Noted == [turn EXCEPT !.seen = Append(@, Call)]

SkipRepeated ==
    /\ turn.pc = "calls" /\ Repeated
    /\ Continue([Noted EXCEPT !.force_text = TRUE])
    /\ UNCHANGED <<perms, answers, openCalls, events>>

Gate(decision) == turn.pc = "calls" /\ ~Repeated /\ DecisionFor(perms, Call) = decision

StartCall ==
    /\ Gate("allow")
    /\ turn' = [Noted EXCEPT !.pc = "run"]
    /\ UNCHANGED <<history, perms, answers, openCalls, events>>

DenyCall ==
    /\ Gate("deny")
    /\ Continue(Noted)
    /\ UNCHANGED <<perms, answers, openCalls, events>>

AskUser ==
    /\ Gate("ask")
    /\ turn' = [Noted EXCEPT !.pc = "ask"]
    /\ UNCHANGED <<history, perms, answers, openCalls, events>>

\* The user chooses; a client that cannot ask denies.
UserAnswers ==
    /\ turn.pc = "ask"
    /\ \E choice \in UserChoices :
         /\ perms' = CASE choice = "allow_session"  -> GrantForSession(perms, Call)
                       [] choice = "reject_session" -> DenyForSession(perms, Call)
                       [] OTHER -> perms
         /\ answers' = answers \cup {[choice |-> c, call |-> Call] : c \in {choice} \cap ForSession}
         /\ turn' = [turn EXCEPT !.pc = "answered",
                        !.verdict = IF choice \in {"allow_once", "allow_session"}
                                    THEN "approved" ELSE "denied"]
    /\ UNCHANGED <<history, openCalls, events>>

\* Mutant: only the client's answer ends the question.
QuestionLeftOpen == FALSE /\ UNCHANGED vars

\* The client answers with a cancellation, or the turn is cancelled.
QuestionCancelled ==
    /\ turn.pc = "ask" /\ turn.cancelled
    /\ turn' = [turn EXCEPT !.pc = "answered", !.verdict = "cancelled"]
    /\ UNCHANGED <<history, perms, answers, openCalls, events>>

\* The turn has the workspace again.  A cancellation that crossed the answer wins.
TakeVerdict ==
    /\ turn.pc = "answered"
    /\ IF turn.cancelled \/ turn.verdict = "cancelled"
       THEN /\ history' = RecordCancelledToolResults(history, turn.n, Ids)
            /\ End
       ELSE IF turn.verdict = "approved"
       THEN turn' = [turn EXCEPT !.pc = "run"] /\ UNCHANGED history
       ELSE Continue(turn)
    /\ UNCHANGED <<perms, answers, openCalls, events>>

CallReturns ==
    /\ turn.pc = "run"
    /\ Continue(turn)
    /\ UNCHANGED <<perms, answers, openCalls, events>>

-----------------------------------------------------------------------------
(* The end of a turn *)

\* Nothing is left to do.  A refused turn is taken back as a whole.
FinishTurn ==
    /\ turn.pc = "loop" /\ ~MoreRounds
    /\ IF turn.finish = "refusal" /\ turn.round < MaxToolRounds
       THEN history' = turn.before
       ELSE UNCHANGED history
    /\ End
    /\ UNCHANGED <<perms, answers, openCalls, events>>

-----------------------------------------------------------------------------
(* The client, beside and between the turns *)

Cancel ==
    /\ turn.pc # "idle" /\ ~turn.cancelled /\ Event
    /\ turn' = [turn EXCEPT !.cancelled = TRUE]
    /\ UNCHANGED <<history, perms, answers, openCalls>>

ChangePermissionMode ==
    /\ Event
    /\ \E id \in ModeIds : perms' = ApplyPermissionMode(perms, id)
    /\ UNCHANGED <<history, turn, answers, openCalls>>

\* /clear: a new conversation and no permissions.
ClearConversation ==
    /\ turn.pc = "idle" /\ Event
    /\ history' = SubSeq(history, 1, 1)
    /\ perms' = NoPerms
    /\ answers' = {}
    /\ openCalls' = FALSE
    /\ UNCHANGED turn

\* Another backend takes the conversation over, through the on-device engine
\* if the user tried that in between.  The calls nobody answered are left out;
\* one whose id came back is taken for answered, if the other call was.
SwitchModel ==
    /\ turn.pc = "idle" /\ Event
    /\ \E onDevice \in BOOLEAN :
         LET carried == CarryoverHistory(history)
         IN  /\ history' = AdoptCarryover(SubSeq(history, 1, 1),
                              IF onDevice
                              THEN CarryoverHistory(EngineSnapshot(FlattenForEngine(carried)))
                              ELSE carried)
             /\ openCalls' = (openCalls /\ IdsRepeat /\ ~onDevice)
    /\ UNCHANGED <<perms, turn, answers>>

Endpoint == ReplyWithCalls \/ ReplyWithText \/ ReplyBroken \/ ReplyError
Summarizer == Compacted \/ CompactionFailed

Turn == \/ RequestCancelled \/ LoopCancelled \/ NextRound \/ SkipRepeated \/ StartCall
        \/ DenyCall \/ AskUser \/ QuestionCancelled \/ TakeVerdict \/ FinishTurn

Client == \/ StartTurn \/ UserAnswers \/ Cancel \/ ChangePermissionMode \/ ClearConversation
          \/ SwitchModel

Next == Endpoint \/ Summarizer \/ Turn \/ CallReturns \/ Client

Spec == Init /\ [][Next]_vars

\* The agent's own steps are taken, and a tool ends: a cancellation aborts the
\* built-in ones, while an MCP server's and a subagent's are taken to answer.
\* So is the request for a summary, which nothing interrupts.
\* Nobody has to answer the user's questions, and the endpoint may hang.
\* SummaryEnds is what Summarizer does to the turn, whatever it makes of the
\* history.
SummaryEnds ==
    /\ turn.pc = "compact"
    /\ turn' \in {[turn EXCEPT !.pc = "calls"], [NoTurn EXCEPT !.n = turn.n]}

Fairness == WF_vars(Turn) /\ WF_vars(CallReturns) /\ WF_turn(SummaryEnds)

FairSpec == Spec /\ Fairness

-----------------------------------------------------------------------------
(* Properties *)

TypeOK ==
    /\ history \in Seq(MessageType(0..MaxTurns))
    /\ perms \in PermsType
    /\ turn \in TurnType
    /\ answers \subseteq [choice : ForSession, call : CallType]
    /\ openCalls \in BOOLEAN
    /\ events \in 0..MaxEvents

\* A conversation sent to the endpoint answers every call once, behind the
\* call, whatever was cancelled, refused, compacted or carried over before.
\* Strict endpoints reject it otherwise, and every later request with it.
RequestsArePaired == turn.pc = "request" => Paired(history)

\* The same, of conversations in which no turn ended at the top of the loop
\* with the calls of the reply in hand, and no compaction dropped the reply.
RequestsAnswerEveryCall == turn.pc = "request" /\ ~openCalls => Paired(history)

\* The user settled the call's family, or the tool altogether.
SettledBy(choice, call) ==
    \E a \in answers : /\ a.choice = choice
                        /\ a.call.tool = call.tool
                        /\ a.call.family \in {AnyFamily, call.family}

Starts == turn.pc # "run" /\ turn'.pc = "run"

\* A tool that changes something runs because the user said so: of this call,
\* of its family since the permissions were last reset, by the mode, or in
\* settings.toml.
Authorised(call) ==
    \/ ReadOnly(call)
    \/ turn.verdict = "approved"
    \/ SettledBy("allow_session", call)
    \/ Listed(AllowRules, call)
    \/ ModeFor(perms, call) = "allow"

RunsAreAuthorised == [][Starts => Authorised(Call)]_vars

\* What the user denied for the session never runs again in it, whatever
\* permission mode is picked afterwards or was allowed before.
DenialsHold == [][Starts => ReadOnly(Call) \/ ~SettledBy("reject_session", Call)]_vars

\* A model that repeats itself gets one more reply, without tools: no round
\* follows one in which a call was made for the third time.
ThirdTime == \E i \in DOMAIN turn.seen :
                /\ turn.seen[i].tool \notin PollingTools
                /\ Cardinality({j \in DOMAIN turn.seen : SameCall(turn.seen[i], turn.seen[j])}) >= 3

RepetitionEndsTheTurn == [][ThirdTime /\ turn'.n = turn.n => turn'.round <= turn.round]_vars

\* A cancelled turn ends, though the user leaves a question open and the
\* endpoint never answers the turn's request.
CancelledTurnEnds == turn.cancelled ~> turn.pc = "idle"
=============================================================================
