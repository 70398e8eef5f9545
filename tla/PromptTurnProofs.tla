-------------------------- MODULE PromptTurnProofs --------------------------
(***************************************************************************)
(* Proofs about PromptTurn, for every list of calls, every set of rules    *)
(* and explicit modes, and any number of turns, rounds and events.         *)
(*                                                                         *)
(* RunsAreAuthorised and DenialsHold compare a step with what the user     *)
(* answered at any time before, and the code keeps no answers: it keeps    *)
(* the two rule lists of SessionPerms.  The invariant ties the lists to    *)
(* the answers they came from.  It also says of a question that is open,   *)
(* or approved and not yet acted upon, that nothing the user denied covers *)
(* its call: the gate saw to that before it asked, and while a question is *)
(* open nothing else is denied.                                            *)
(*                                                                         *)
(* RepetitionEndsTheTurn rests on what a call made for the third time      *)
(* leaves of the turn: a reply without calls.                              *)
(***************************************************************************)
EXTENDS PromptTurn, ConversationProofs

\* What TurnType says of a turn, but for the messages in `before`.
Shaped(t) ==
    t \in [ pc : PCs, n : Nat, what : {"prompt", "results"}, retried : BOOLEAN,
            allow : BOOLEAN, round : Nat, calls : Seq(CallType), at : Nat,
            seen : Seq(CallType), force_text : BOOLEAN,
            verdict : {"none", "approved", "denied", "cancelled"},
            finish : {"stop", "refusal"}, before : {t.before}, cancelled : BOOLEAN ]

Types ==
    /\ Shaped(turn)
    /\ perms \in PermsType
    /\ answers \subseteq [choice : ForSession, call : CallType]

\* `at` is the place of a call wherever Call is used.
CallInHand ==
    /\ turn.pc \in {"compact", "calls", "ask", "answered", "run"} => turn.at \in 1..Len(turn.calls)
    /\ turn.pc = "loop" => turn.at = 1 \/ turn.calls = << >>

DenialsAreKept ==
    \A a \in answers : a.choice = "reject_session" => SessionRule(a.call) \in perms.always_deny

GrantsWereGiven ==
    \A rule \in perms.always_allow :
        \E a \in answers : a.choice = "allow_session" /\ rule = SessionRule(a.call)

Pending == turn.pc = "ask" \/ (turn.pc = "answered" /\ turn.verdict = "approved")

PendingIsNotDenied == Pending => ~SettledBy("reject_session", Call)

Settled == DenialsAreKept /\ GrantsWereGiven /\ PendingIsNotDenied

IInv == Types /\ CallInHand /\ Settled

-----------------------------------------------------------------------------
(* The gate *)

\* What the gate does not deny, no answer of the user denies.
LEMMA GateRespectsDenials ==
    ASSUME DenialsAreKept, NEW call, ~ReadOnly(call), ~Denied(perms, call)
    PROVE  ~SettledBy("reject_session", call)
<1>1. SUFFICES ASSUME NEW a \in answers, a.choice = "reject_session", a.call.tool = call.tool,
                      a.call.family \in {AnyFamily, call.family}
               PROVE  FALSE
  BY DEF SettledBy
<1>2. SessionRule(a.call) \in perms.always_deny
  BY <1>1 DEF DenialsAreKept
<1>3. Covers(SessionRule(a.call), call)
  BY <1>1 DEF Covers, SessionRule
<1>4. Listed(perms.always_deny, call)
  BY <1>2, <1>3 DEF Listed
<1> QED
  BY <1>4 DEF Denied

\* What the gate lets through without a question is authorised.
LEMMA GateAuthorises ==
    ASSUME GrantsWereGiven, NEW call, DecisionFor(perms, call) = "allow"
    PROVE  Authorised(call)
<1>1. ReadOnly(call) \/ Granted(perms, call) \/ ModeFor(perms, call) = "allow"
  BY DEF DecisionFor
<1>2. ASSUME Granted(perms, call)
      PROVE  Authorised(call)
  <2>1. PICK rule \in perms.always_allow \cup AllowRules : Covers(rule, call)
    BY <1>2 DEF Granted, Listed
  <2>2. CASE rule \in AllowRules
    BY <2>1, <2>2 DEF Authorised, Listed
  <2>3. CASE rule \in perms.always_allow
    <3>1. PICK a \in answers : a.choice = "allow_session" /\ rule = SessionRule(a.call)
      BY <2>3 DEF GrantsWereGiven
    <3>2. a.call.tool = call.tool /\ a.call.family \in {AnyFamily, call.family}
      BY <2>1, <3>1 DEF Covers, SessionRule
    <3> QED
      BY <3>1, <3>2 DEF Authorised, SettledBy
  <2> QED
    BY <2>1, <2>2, <2>3
<1> QED
  BY <1>1, <1>2 DEF Authorised

-----------------------------------------------------------------------------
(* The invariant *)

LEMMA EndIsShaped ==
    ASSUME NEW n \in Nat
    PROVE  Shaped([NoTurn EXCEPT !.n = n])
<1>1. << >> \in Seq(CallType)
  OBVIOUS
<1> QED
  BY <1>1 DEF Shaped, NoTurn, PCs

LEMMA InitHasIInv == Init => IInv
<1>1. ASSUME Init
      PROVE  Types
  <2>1. turn = [NoTurn EXCEPT !.n = 0]
    BY <1>1 DEF Init, NoTurn
  <2> QED
    BY <1>1, <2>1, EndIsShaped DEF Init, Types, NoPerms, PermsType
<1>2. Init => CallInHand /\ Settled
  BY DEF Init, CallInHand, Settled, DenialsAreKept, GrantsWereGiven, PendingIsNotDenied, Pending,
         NoTurn, NoPerms
<1> QED
  BY <1>1, <1>2 DEF IInv

\* A step that leaves the permissions and the answers alone, and after which no
\* question is pending that was not before, settles nothing.
LEMMA NothingSettled ==
    ASSUME IInv, UNCHANGED <<perms, answers>>,
           Pending' => Pending /\ turn'.calls = turn.calls /\ turn'.at = turn.at
    PROVE  Settled'
<1>1. (DenialsAreKept /\ GrantsWereGiven)'
  BY DEF IInv, Settled, DenialsAreKept, GrantsWereGiven
<1>2. PendingIsNotDenied'
  BY DEF IInv, Settled, PendingIsNotDenied, SettledBy, Call
<1> QED
  BY <1>1, <1>2 DEF Settled

\* The end of a turn.
LEMMA EndKeepsIInv ==
    ASSUME IInv, turn' = [NoTurn EXCEPT !.n = turn.n], UNCHANGED <<perms, answers>>
    PROVE  IInv'
<1>1. turn'.pc = "idle" /\ turn.n \in Nat
  BY DEF NoTurn, IInv, Types, Shaped
<1>2. Types'
  BY <1>1, EndIsShaped DEF IInv, Types
<1>3. CallInHand' /\ ~Pending'
  BY <1>1 DEF CallInHand, Pending
<1> QED
  BY <1>2, <1>3, NothingSettled DEF IInv

LEMMA NotedIsShaped ==
    ASSUME Shaped(turn), Call \in CallType
    PROVE  Shaped(Noted) /\ Shaped([Noted EXCEPT !.force_text = TRUE])
<1>1. Append(turn.seen, Call) \in Seq(CallType)
  BY DEF Shaped
<1>2. Noted = [turn EXCEPT !.seen = Append(turn.seen, Call)]
  BY DEF Noted
<1>3. Shaped(Noted)
  BY <1>1, <1>2 DEF Shaped
<1> QED
  BY <1>3 DEF Shaped

LEMMA AfterCallIsShaped ==
    ASSUME NEW t, Shaped(t)
    PROVE  Shaped(AfterCall(t))
<1>2. CASE t.at < Len(t.calls)
  <2>1. t.at + 1 \in Nat
    BY DEF Shaped
  <2>2. AfterCall(t) = [t EXCEPT !.pc = "calls", !.at = t.at + 1, !.verdict = "none"]
    BY <1>2 DEF AfterCall
  <2> QED
    BY <2>1, <2>2 DEF Shaped, PCs
<1>3. CASE ~(t.at < Len(t.calls))
  <2> DEFINE b == t.round < MaxToolRounds /\ ~t.force_text
  <2>1. AfterCall(t) = [t EXCEPT !.pc = "request", !.what = "results", !.verdict = "none",
                                 !.retried = FALSE, !.allow = b]
    BY <1>3 DEF AfterCall
  <2>2. b \in BOOLEAN
    OBVIOUS
  <2> HIDE DEF b
  <2> QED
    BY <2>1, <2>2 DEF Shaped, PCs
<1> QED
  BY <1>2, <1>3

\* The step after a call: on to the next one, to the request, or to the end.
LEMMA ContinueKeepsIInv ==
    ASSUME IInv, turn.pc \in {"calls", "answered", "run"}, UNCHANGED <<perms, answers>>,
           NEW t, Continue(t),
           t \in {turn, Noted, [Noted EXCEPT !.force_text = TRUE]}
    PROVE  IInv'
<1>1. CASE t.cancelled
  <2>1. t.n = turn.n
    BY DEF Noted, IInv, Types, Shaped
  <2> QED
    BY <1>1, <2>1, EndKeepsIInv DEF Continue
<1>2. CASE ~t.cancelled
  <2>1. turn' = AfterCall(t)
    BY <1>2 DEF Continue
  <2>2. Call \in CallType /\ turn.at \in 1..Len(turn.calls)
    BY DEF IInv, Types, Shaped, CallInHand, Call
  <2>3. /\ Shaped(t)
        /\ t.calls = turn.calls /\ t.at = turn.at
    BY <2>2, NotedIsShaped DEF Noted, IInv, Types, Shaped
  <2>4. Types'
    BY <2>1, <2>3, AfterCallIsShaped DEF IInv, Types
  <2>5. CallInHand' /\ ~Pending'
    BY <2>1, <2>2, <2>3 DEF AfterCall, CallInHand, Pending
  <2> QED
    BY <2>4, <2>5, NothingSettled DEF IInv
<1> QED
  BY <1>1, <1>2

\* A step of the turn that changes neither its calls nor its place in them.
LEMMA WaitKeepsIInv ==
    ASSUME IInv, UNCHANGED <<perms, answers>>, Shaped(turn)', Pending' => Pending,
           turn'.calls = turn.calls, turn'.at = turn.at,
           turn'.pc \in {"idle", "request", turn.pc}
              \/ (turn'.pc = "calls" /\ turn.pc = "compact")
              \/ (turn'.pc \in {"ask", "run", "answered"} /\ turn.pc \in {"calls", "ask", "answered"})
    PROVE  IInv'
<1>1. Types'
  BY DEF IInv, Types
<1>2. CallInHand'
  BY DEF IInv, CallInHand
<1> QED
  BY <1>1, <1>2, NothingSettled DEF IInv

LEMMA EndpointKeepsIInv == IInv /\ Endpoint => IInv'
<1>1. ASSUME IInv, ReplyWithCalls
      PROVE  IInv'
  <2>1. PICK list \in CallLists \cup {<< >>} :
            turn' = [turn EXCEPT !.pc = "loop", !.calls = list, !.at = 1, !.finish = "stop"]
    <3>1. PICK l \in CallLists :
            turn' = [turn EXCEPT !.pc = "loop", !.calls = IF turn.allow THEN l ELSE << >>,
                                 !.at = 1, !.finish = "stop"]
      BY <1>1 DEF ReplyWithCalls
    <3> QED
      BY <3>1
  <2>2. list \in Seq(CallType)
    <3>1. << >> \in Seq(CallType)
      OBVIOUS
    <3> QED
      BY <3>1, TurnAssumption DEF TurnAssumption
  <2>3. Shaped(turn)'
    BY <1>1, <2>1, <2>2 DEF IInv, Types, Shaped, PCs
  <2>4. CallInHand' /\ ~Pending'
    BY <1>1, <2>1 DEF IInv, Types, Shaped, CallInHand, Pending
  <2> QED
    BY <1>1, <2>3, <2>4, NothingSettled DEF IInv, Types, ReplyWithCalls
<1>2. ASSUME IInv, ReplyWithText
      PROVE  IInv'
  <2>1. PICK finish \in {"stop", "refusal"} :
            turn' = [turn EXCEPT !.pc = "loop", !.calls = << >>, !.finish = finish]
    BY <1>2 DEF ReplyWithText
  <2>2. Shaped(turn)'
    <3>1. << >> \in Seq(CallType)
      OBVIOUS
    <3> QED
      BY <1>2, <2>1, <3>1 DEF IInv, Types, Shaped, PCs
  <2>3. CallInHand' /\ ~Pending'
    BY <1>2, <2>1 DEF IInv, Types, Shaped, CallInHand, Pending
  <2> QED
    BY <1>2, <2>2, <2>3, NothingSettled DEF IInv, Types, ReplyWithText
<1>3. ASSUME IInv, ReplyBroken
      PROVE  IInv'
  <2>1. \/ turn' = [turn EXCEPT !.retried = TRUE]
        \/ turn' = [turn EXCEPT !.pc = "loop", !.calls = << >>, !.finish = "stop"]
    BY <1>3 DEF ReplyBroken
  <2>2. Shaped(turn)'
    <3>1. << >> \in Seq(CallType)
      OBVIOUS
    <3>2. Shaped(turn)
      BY <1>3 DEF IInv, Types
    <3>3. CASE turn' = [turn EXCEPT !.retried = TRUE]
      BY <3>2, <3>3 DEF Shaped
    <3>4. CASE turn' = [turn EXCEPT !.pc = "loop", !.calls = << >>, !.finish = "stop"]
      BY <3>1, <3>2, <3>4 DEF Shaped, PCs
    <3> QED
      BY <2>1, <3>3, <3>4
  <2>3. CallInHand' /\ ~Pending'
    BY <1>3, <2>1 DEF IInv, Types, Shaped, CallInHand, Pending, ReplyBroken
  <2> QED
    BY <1>3, <2>2, <2>3, NothingSettled DEF IInv, Types, ReplyBroken
<1>4. ASSUME IInv, ReplyError
      PROVE  IInv'
  BY <1>4, EndKeepsIInv DEF ReplyError, End
<1> QED
  BY <1>1, <1>2, <1>3, <1>4 DEF Endpoint

LEMMA SummarizerKeepsIInv == IInv /\ Summarizer => IInv'
<1>1. ASSUME IInv, Compacted
      PROVE  IInv'
  <2>1. turn' = [turn EXCEPT !.pc = "calls"] /\ turn.pc = "compact"
    BY <1>1 DEF Compacted
  <2>2. Shaped(turn)' /\ turn'.pc = "calls" /\ turn'.calls = turn.calls /\ turn'.at = turn.at
    BY <1>1, <2>1 DEF IInv, Types, Shaped, PCs
  <2> QED
    BY <1>1, <2>1, <2>2, WaitKeepsIInv DEF Compacted, Pending
<1>2. ASSUME IInv, CompactionFailed
      PROVE  IInv'
  BY <1>2, EndKeepsIInv DEF CompactionFailed, End
<1> QED
  BY <1>1, <1>2 DEF Summarizer

LEMMA TurnKeepsIInv == IInv /\ (Turn \/ CallReturns) => IInv'
<1> SUFFICES ASSUME IInv, Turn \/ CallReturns
             PROVE  IInv'
  OBVIOUS
<1> USE DEF IInv, Types
<1>1. CASE RequestCancelled \/ LoopCancelled \/ FinishTurn
  BY <1>1, EndKeepsIInv DEF RequestCancelled, LoopCancelled, FinishTurn, End
<1>2. CASE NextRound
  <2>1. turn.round + 1 \in Nat
    BY DEF Shaped
  <2>2. turn'.pc \in {"compact", "calls"}
    BY <1>2 DEF NextRound, Shaped
  <2>3. Shaped(turn)' /\ turn'.calls = turn.calls /\ turn'.at = turn.at
    BY <1>2, <2>1 DEF NextRound, Shaped, PCs
  <2>4. CallInHand' /\ ~Pending'
    <3>1. turn.calls \in Seq(CallType) /\ turn.calls # << >> /\ turn.at = 1
      BY <1>2 DEF NextRound, MoreRounds, CallInHand, Shaped
    <3>2. 1 \in 1..Len(turn.calls)
      BY <3>1
    <3> QED
      BY <2>2, <2>3, <3>1, <3>2 DEF CallInHand, Pending
  <2> QED
    BY <1>2, <2>3, <2>4, NothingSettled DEF NextRound
<1>3. CASE SkipRepeated
  BY <1>3, ContinueKeepsIInv DEF SkipRepeated
<1>4. CASE StartCall
  <2>1. turn' = [Noted EXCEPT !.pc = "run"] /\ turn.pc = "calls"
    BY <1>4 DEF StartCall, Gate
  <2>2. Call \in CallType
    BY <2>1 DEF CallInHand, Shaped, Call
  <2>3. Shaped(turn)' /\ turn'.calls = turn.calls /\ turn'.at = turn.at /\ turn'.pc = "run"
    BY <2>1, <2>2, NotedIsShaped DEF Noted, Shaped, PCs
  <2> QED
    BY <1>4, <2>1, <2>3, WaitKeepsIInv DEF StartCall, Pending
<1>5. CASE DenyCall
  BY <1>5, ContinueKeepsIInv DEF DenyCall, Gate
<1>6. CASE AskUser
  <2>1. turn' = [Noted EXCEPT !.pc = "ask"] /\ turn.pc = "calls"
    BY <1>6 DEF AskUser, Gate
  <2>2. Call \in CallType
    BY <2>1 DEF CallInHand, Shaped, Call
  <2>3. Shaped(turn)' /\ turn'.calls = turn.calls /\ turn'.at = turn.at /\ turn'.pc = "ask"
    BY <2>1, <2>2, NotedIsShaped DEF Noted, Shaped, PCs
  <2>4. ~SettledBy("reject_session", Call)
    <3>1. ~Denied(perms, Call) /\ ~ReadOnly(Call)
      BY <1>6 DEF AskUser, Gate, DecisionFor
    <3> QED
      BY <3>1, GateRespectsDenials DEF Settled
  <2>5. Settled'
    <3>1. PendingIsNotDenied'
      BY <1>6, <2>3, <2>4 DEF PendingIsNotDenied, SettledBy, Call, AskUser
    <3> QED
      BY <1>6, <3>1 DEF AskUser, Settled, DenialsAreKept, GrantsWereGiven
  <2>6. CallInHand'
    BY <2>1, <2>3 DEF CallInHand
  <2> QED
    BY <1>6, <2>3, <2>5, <2>6 DEF AskUser
<1>7. CASE QuestionCancelled
  <2>1. turn' = [turn EXCEPT !.pc = "answered", !.verdict = "cancelled"] /\ turn.pc = "ask"
    BY <1>7 DEF QuestionCancelled
  <2>2. Shaped(turn)' /\ turn'.calls = turn.calls /\ turn'.at = turn.at /\ turn'.pc = "answered"
        /\ turn'.verdict = "cancelled"
    BY <2>1 DEF Shaped, PCs
  <2> QED
    BY <1>7, <2>1, <2>2, WaitKeepsIInv DEF QuestionCancelled, Pending
<1>8. CASE TakeVerdict
  <2>1. CASE turn.cancelled \/ turn.verdict = "cancelled"
    BY <1>8, <2>1, EndKeepsIInv DEF TakeVerdict, End
  <2>2. CASE ~(turn.cancelled \/ turn.verdict = "cancelled") /\ turn.verdict = "approved"
    <3>1. turn' = [turn EXCEPT !.pc = "run"] /\ turn.pc = "answered"
      BY <1>8, <2>2 DEF TakeVerdict
    <3>2. Shaped(turn)' /\ turn'.calls = turn.calls /\ turn'.at = turn.at /\ turn'.pc = "run"
      BY <3>1 DEF Shaped, PCs
    <3> QED
      BY <1>8, <3>1, <3>2, WaitKeepsIInv DEF TakeVerdict, Pending
  <2>3. CASE ~(turn.cancelled \/ turn.verdict = "cancelled") /\ turn.verdict # "approved"
    BY <1>8, <2>3, ContinueKeepsIInv DEF TakeVerdict
  <2> QED
    BY <2>1, <2>2, <2>3
<1>9. CASE CallReturns
  BY <1>9, ContinueKeepsIInv DEF CallReturns
<1> QED
  BY <1>1, <1>2, <1>3, <1>4, <1>5, <1>6, <1>7, <1>8, <1>9 DEF Turn

LEMMA AnswerKeepsIInv == IInv /\ UserAnswers => IInv'
<1> SUFFICES ASSUME IInv, UserAnswers
             PROVE  IInv'
  OBVIOUS
<1> USE DEF IInv
<1>1. PICK choice \in UserChoices :
        /\ perms' = CASE choice = "allow_session"  -> GrantForSession(perms, Call)
                      [] choice = "reject_session" -> DenyForSession(perms, Call)
                      [] OTHER -> perms
        /\ answers' = answers \cup {[choice |-> c, call |-> Call] : c \in {choice} \cap ForSession}
        /\ turn' = [turn EXCEPT !.pc = "answered",
                       !.verdict = IF choice \in {"allow_once", "allow_session"}
                                   THEN "approved" ELSE "denied"]
  BY DEF UserAnswers
<1>2. Call \in CallType /\ turn.pc = "ask" /\ SessionRule(Call) \in Rules
  <2>1. Call \in CallType /\ turn.pc = "ask"
    BY DEF UserAnswers, Types, CallInHand, Shaped, Call
  <2> QED
    BY <2>1 DEF SessionRule, CallType, Rules
<1>3. Shaped(turn)' /\ CallInHand' /\ Call' = Call
  <2>1. (IF choice \in {"allow_once", "allow_session"} THEN "approved" ELSE "denied")
            \in {"approved", "denied"}
    OBVIOUS
  <2>2. PICK verdict \in {"approved", "denied"} :
            turn' = [turn EXCEPT !.pc = "answered", !.verdict = verdict]
    BY <1>1, <2>1
  <2> QED
    BY <1>2, <2>2 DEF Types, Shaped, PCs, CallInHand, Call
<1>4. CASE choice = "allow_session"
  <2>1. /\ perms' = [perms EXCEPT !.always_allow = @ \cup {SessionRule(Call)}]
        /\ answers' = answers \cup {[choice |-> "allow_session", call |-> Call]}
    BY <1>1, <1>4 DEF GrantForSession, ForSession
  <2>2. Types'
    BY <1>2, <1>3, <2>1 DEF Types, PermsType, ForSession
  <2>3. /\ perms'.always_allow = perms.always_allow \cup {SessionRule(Call)}
        /\ perms'.always_deny = perms.always_deny
    BY <2>1 DEF Types, PermsType
  <2>4. DenialsAreKept'
    BY <2>1, <2>3 DEF Settled, DenialsAreKept
  <2>5. GrantsWereGiven'
    <3>1. [choice |-> "allow_session", call |-> Call] \in answers'
      BY <2>1
    <3>2. ASSUME NEW rule \in perms.always_allow
          PROVE  \E a \in answers' : a.choice = "allow_session" /\ rule = SessionRule(a.call)
      BY <2>1, <3>2 DEF Settled, GrantsWereGiven
    <3> QED
      BY <2>3, <3>1, <3>2 DEF GrantsWereGiven
  <2>6. PendingIsNotDenied'
    BY <1>2, <1>3, <2>1 DEF Settled, PendingIsNotDenied, Pending, SettledBy
  <2> QED
    BY <1>3, <2>2, <2>4, <2>5, <2>6 DEF Settled
<1>5. CASE choice = "reject_session"
  <2>1. /\ perms' = [perms EXCEPT !.always_deny = @ \cup {SessionRule(Call)}]
        /\ answers' = answers \cup {[choice |-> "reject_session", call |-> Call]}
    BY <1>1, <1>5 DEF DenyForSession, ForSession
  <2>2. Types'
    BY <1>2, <1>3, <2>1 DEF Types, PermsType, ForSession
  <2>3. /\ perms'.always_deny = perms.always_deny \cup {SessionRule(Call)}
        /\ perms'.always_allow = perms.always_allow
    BY <2>1 DEF Types, PermsType
  <2>4. DenialsAreKept' /\ GrantsWereGiven'
    BY <2>1, <2>3 DEF Settled, DenialsAreKept, GrantsWereGiven
  <2>5. ~Pending'
    <3>1. turn' = [turn EXCEPT !.pc = "answered", !.verdict = "denied"]
      BY <1>1, <1>5
    <3> QED
      BY <3>1 DEF Pending, Types, Shaped
  <2> QED
    BY <1>3, <2>2, <2>4, <2>5 DEF Settled, PendingIsNotDenied
<1>6. CASE choice \notin ForSession
  <2>1. UNCHANGED <<perms, answers>>
    BY <1>1, <1>6 DEF ForSession
  <2> QED
    BY <1>2, <1>3, <2>1, NothingSettled DEF Types, Pending, Shaped, UserAnswers
<1> QED
  BY <1>4, <1>5, <1>6 DEF ForSession

LEMMA ClientKeepsIInv == IInv /\ Client => IInv'
<1> SUFFICES ASSUME IInv, Client
             PROVE  IInv'
  OBVIOUS
<1> USE DEF IInv
<1>1. CASE StartTurn
  <2>1. turn' = [NoTurn EXCEPT !.pc = "request", !.n = turn.n + 1, !.before = history]
    BY <1>1 DEF StartTurn
  <2>2. Shaped(turn)'
    <3>1. << >> \in Seq(CallType) /\ turn.n + 1 \in Nat
      BY DEF Types, Shaped
    <3> QED
      BY <2>1, <3>1 DEF Shaped, NoTurn, PCs
  <2>3. turn'.pc = "request"
    BY <2>1 DEF NoTurn
  <2>4. CallInHand' /\ ~Pending'
    BY <2>3 DEF CallInHand, Pending
  <2> QED
    BY <1>1, <2>2, <2>4, NothingSettled DEF StartTurn, Types
<1>2. CASE UserAnswers
  BY <1>2, AnswerKeepsIInv
<1>3. CASE Cancel
  <2>1. turn' = [turn EXCEPT !.cancelled = TRUE]
    BY <1>3 DEF Cancel
  <2>2. Shaped(turn)' /\ turn'.calls = turn.calls /\ turn'.at = turn.at /\ turn'.pc = turn.pc
        /\ turn'.verdict = turn.verdict
    BY <2>1 DEF Types, Shaped
  <2> QED
    BY <1>3, <2>2, NothingSettled DEF Cancel, Types, CallInHand, Pending
<1>4. CASE ChangePermissionMode
  <2>1. PICK id \in ModeIds : perms' = ApplyPermissionMode(perms, id)
    BY <1>4 DEF ChangePermissionMode
  <2>2. perms' \in PermsType /\ perms'.always_allow = perms.always_allow
        /\ perms'.always_deny = perms.always_deny
    <3>1. \/ perms' = [perms EXCEPT !.plan_mode = FALSE, !.mode = "ask"]
          \/ perms' = [perms EXCEPT !.plan_mode = FALSE, !.mode = "allow"]
          \/ perms' = [perms EXCEPT !.plan_mode = TRUE]
      BY <2>1 DEF ApplyPermissionMode, ModeIds
    <3> QED
      BY <3>1 DEF Types, PermsType, Modes
  <2> QED
    BY <1>4, <2>2 DEF ChangePermissionMode, Types, CallInHand, Settled, DenialsAreKept,
                      GrantsWereGiven, PendingIsNotDenied, Pending, SettledBy, Call
<1>5. CASE ClearConversation
  <2>1. turn' = turn /\ turn.pc = "idle" /\ perms' = NoPerms /\ answers' = {}
    BY <1>5 DEF ClearConversation
  <2> QED
    BY <2>1 DEF Types, NoPerms, PermsType, CallInHand, Settled, DenialsAreKept,
                GrantsWereGiven, PendingIsNotDenied, Pending
<1>6. CASE SwitchModel
  BY <1>6, NothingSettled DEF SwitchModel, Types, CallInHand, Pending
<1> QED
  BY <1>1, <1>2, <1>3, <1>4, <1>5, <1>6 DEF Client

\* The invariant of every behaviour: the rules kept for the session are those
\* of the user's answers, and a question that is open is one of no denied call.
THEOREM TurnInvariant == Spec => []IInv
<1>1. IInv /\ [Next]_vars => IInv'
  <2>1. IInv /\ UNCHANGED vars => IInv'
    BY DEF vars, IInv, Types, CallInHand, Settled, DenialsAreKept, GrantsWereGiven,
           PendingIsNotDenied, Pending, SettledBy, Call
  <2> QED
    BY <2>1, EndpointKeepsIInv, SummarizerKeepsIInv, TurnKeepsIInv, ClientKeepsIInv DEF Next
<1> QED
  BY <1>1, InitHasIInv, PTL DEF Spec

-----------------------------------------------------------------------------
(* A call starts: without a question, or after the user's answer. *)

LEMMA WhatStarts ==
    ASSUME IInv, [Next]_vars, Starts
    PROVE  StartCall \/ (TakeVerdict /\ turn.pc = "answered" /\ turn.verdict = "approved")
<1> USE DEF IInv, Types
<1>1. ASSUME turn' = [NoTurn EXCEPT !.n = turn.n]
      PROVE  FALSE
  BY <1>1 DEF Starts, NoTurn
<1>2. ASSUME NEW t, t.pc # "run", turn' = AfterCall(t), Shaped(t)
      PROVE  FALSE
  BY <1>2 DEF Starts, AfterCall, Shaped
<1>3. ASSUME NEW t, Continue(t), t.n = turn.n, Shaped(t), t.pc # "run"
      PROVE  FALSE
  BY <1>1, <1>2, <1>3 DEF Continue
<1>4. ~Endpoint
  BY <1>1 DEF Endpoint, ReplyWithCalls, ReplyWithText, ReplyBroken, ReplyError, End, Starts, Shaped
<1>5. ~Summarizer
  BY <1>1 DEF Summarizer, Compacted, CompactionFailed, End, Starts, Shaped
<1>6. ~CallReturns
  BY DEF CallReturns, Starts
<1>7. ~Client
  BY DEF Client, StartTurn, UserAnswers, Cancel, ChangePermissionMode, ClearConversation,
         SwitchModel, Starts, Shaped, NoTurn
<1>8. ~UNCHANGED vars
  BY DEF vars, Starts
<1>9. ~(RequestCancelled \/ LoopCancelled \/ FinishTurn)
  BY <1>1 DEF RequestCancelled, LoopCancelled, FinishTurn, End
<1>10. ~NextRound /\ ~AskUser /\ ~QuestionCancelled
  BY DEF NextRound, AskUser, QuestionCancelled, Starts, Shaped, Noted
<1>11. ~SkipRepeated /\ ~DenyCall
  <2>1. ASSUME turn.pc = "calls"
        PROVE  Shaped(Noted) /\ Shaped([Noted EXCEPT !.force_text = TRUE])
    BY <2>1, NotedIsShaped DEF CallInHand, Shaped, Call
  <2> QED
    BY <1>3, <2>1 DEF SkipRepeated, DenyCall, Gate, Noted, Shaped
<1>12. ASSUME TakeVerdict
       PROVE  turn.pc = "answered" /\ turn.verdict = "approved"
  BY <1>1, <1>3, <1>12 DEF TakeVerdict, End
<1> QED
  BY <1>4, <1>5, <1>6, <1>7, <1>8, <1>9, <1>10, <1>11, <1>12 DEF Next, Turn

\* Every tool call that changes something was allowed: by the user, of the call
\* or of its family, by the mode or by the settings (permissions::decision_for
\* and the gate of handle_prompt, main.rs 3785-3982).
THEOREM CallsAreAuthorised == Spec => RunsAreAuthorised
<1>1. ASSUME IInv, [Next]_vars, Starts
      PROVE  Authorised(Call)
  <2>1. CASE StartCall
    BY <1>1, <2>1, GateAuthorises DEF StartCall, Gate, IInv, Settled
  <2>2. CASE turn.verdict = "approved"
    BY <2>2 DEF Authorised
  <2> QED
    BY <1>1, <2>1, <2>2, WhatStarts
<1>2. IInv /\ [Next]_vars => [Starts => Authorised(Call)]_vars
  BY <1>1
<1> QED
  BY <1>2, TurnInvariant, PTL DEF RunsAreAuthorised, Spec

\* A call of a tool, or of a family of commands, that the user denied for the
\* session never starts in it again, whatever mode was picked and whatever was
\* allowed since.
THEOREM DenialsLast == Spec => DenialsHold
<1>1. ASSUME IInv, [Next]_vars, Starts
      PROVE  ReadOnly(Call) \/ ~SettledBy("reject_session", Call)
  <2>1. CASE StartCall
    <3>1. ~Denied(perms, Call)
      BY <2>1 DEF StartCall, Gate, DecisionFor
    <3> QED
      BY <1>1, <3>1, GateRespectsDenials DEF IInv, Settled
  <2>2. CASE turn.pc = "answered" /\ turn.verdict = "approved"
    BY <1>1, <2>2 DEF IInv, Settled, PendingIsNotDenied, Pending
  <2> QED
    BY <1>1, <2>1, <2>2, WhatStarts
<1>2. IInv /\ [Next]_vars => [Starts => ReadOnly(Call) \/ ~SettledBy("reject_session", Call)]_vars
  BY <1>1
<1> QED
  BY <1>2, TurnInvariant, PTL DEF DenialsHold, Spec

-----------------------------------------------------------------------------
(* A call that was made for the third time is the last one of its turn.     *)

\* The places in a list of calls where c was made.
Places(list, c) == {j \in DOMAIN list : SameCall(c, list[j])}

MadeThrice(list) ==
    \E i \in DOMAIN list : list[i].tool \notin PollingTools /\ Cardinality(Places(list, list[i])) >= 3

\* What is left of turn t is a reply without calls, and its end.
LastReply(t) ==
    \/ t.pc \in {"calls", "ask", "answered", "run"} /\ t.force_text
    \/ t.pc = "request" /\ ~t.allow
    \/ t.pc = "loop" /\ t.calls = << >>

IsStopping(t) == MadeThrice(t.seen) => LastReply(t)

LEMMA PlacesAreFinite ==
    ASSUME NEW list \in Seq(CallType), NEW c
    PROVE  IsFiniteSet(Places(list, c)) /\ Cardinality(Places(list, c)) \in Nat
<1>1. DOMAIN list = 1..Len(list) /\ Len(list) \in Nat
  OBVIOUS
<1>2. IsFiniteSet(1..Len(list))
  BY <1>1, FS_Interval
<1>3. Places(list, c) \in SUBSET (1..Len(list))
  BY <1>1 DEF Places
<1>4. IsFiniteSet(Places(list, c))
  BY <1>2, <1>3, FS_Subset
<1> QED
  BY <1>4, FS_CardinalityType

\* Every call is noted, once the guard has looked (main.rs 3763-3775): one that
\* was made twice at most is not made for the third time.
LEMMA NotedTwiceAtMost ==
    ASSUME NEW list \in Seq(CallType), NEW c \in CallType,
           c.tool \in PollingTools \/ ~(Cardinality(Places(list, c)) >= 2),
           MadeThrice(Append(list, c))
    PROVE  MadeThrice(list)
<1> DEFINE longer == Append(list, c)
           n == Len(list) + 1
<1>1. /\ Len(list) \in Nat /\ DOMAIN list = 1..Len(list)
      /\ DOMAIN longer = 1..n /\ longer[n] = c
      /\ \A j \in 1..Len(list) : longer[j] = list[j]
  OBVIOUS
<1>2. ASSUME NEW x
      PROVE  Places(longer, x) = IF SameCall(x, c) THEN Places(list, x) \cup {n} ELSE Places(list, x)
  BY <1>1 DEF Places
<1>3. PICK i \in 1..n : longer[i].tool \notin PollingTools /\ Cardinality(Places(longer, longer[i])) >= 3
  BY <1>1 DEF MadeThrice
<1> HIDE DEF longer, n
<1>4. CASE SameCall(longer[i], c)
  <2>1. Places(list, longer[i]) = Places(list, c) /\ longer[i].tool = c.tool
    BY <1>4 DEF Places, SameCall
  <2>2. Places(longer, longer[i]) = Places(list, c) \cup {n}
    BY <1>2, <1>4, <2>1
  <2>3. IsFiniteSet(Places(list, c)) /\ Cardinality(Places(list, c)) \in Nat
    BY PlacesAreFinite
  <2>4. Cardinality(Places(list, c) \cup {n}) \in
           {Cardinality(Places(list, c)), Cardinality(Places(list, c)) + 1}
    BY <2>3, FS_AddElement
  <2>5. ~(Cardinality(Places(list, c)) >= 2)
    BY <1>3, <2>1
  <2> QED
    BY <1>3, <2>2, <2>3, <2>4, <2>5
<1>5. CASE ~SameCall(longer[i], c)
  <2>1. i \in 1..Len(list) /\ longer[i] = list[i]
    BY <1>1, <1>5 DEF SameCall, n
  <2>2. Places(longer, longer[i]) = Places(list, list[i])
    BY <1>2, <1>5, <2>1
  <2> QED
    BY <1>1, <1>3, <2>1, <2>2 DEF MadeThrice
<1> QED
  BY <1>4, <1>5

LEMMA EndIsStopping ==
    ASSUME NEW n
    PROVE  IsStopping([NoTurn EXCEPT !.n = n])
<1>1. [NoTurn EXCEPT !.n = n].seen = << >>
  BY DEF NoTurn
<1> QED
  BY <1>1 DEF IsStopping, MadeThrice

\* The guard's look and the note of the call.
LEMMA NotedIsStopping ==
    ASSUME IInv, IsStopping(turn), turn.pc = "calls"
    PROVE  /\ ~Repeated => (MadeThrice(Noted.seen) => turn.force_text)
           /\ Noted = [turn EXCEPT !.seen = Noted.seen]
<1>1. Call \in CallType /\ turn.seen \in Seq(CallType) /\ Noted.seen = Append(turn.seen, Call)
  BY DEF IInv, Types, Shaped, CallInHand, Call, Noted
<1>2. Noted = [turn EXCEPT !.seen = Noted.seen]
  BY <1>1 DEF Noted
<1>3. {i \in DOMAIN turn.seen : SameCall(turn.seen[i], Call)} = Places(turn.seen, Call)
  BY DEF Places, SameCall
<1>4. ~Repeated => Call.tool \in PollingTools \/ ~(Cardinality(Places(turn.seen, Call)) >= 2)
  BY <1>3 DEF Repeated
<1>5. ~Repeated /\ MadeThrice(Noted.seen) => MadeThrice(turn.seen)
  BY <1>1, <1>4, NotedTwiceAtMost
<1>6. MadeThrice(turn.seen) => turn.force_text
  BY DEF IsStopping, LastReply
<1> QED
  BY <1>2, <1>5, <1>6

LEMMA ContinueIsStopping ==
    ASSUME NEW t, Shaped(t), MadeThrice(t.seen) => t.force_text, Continue(t)
    PROVE  IsStopping(turn')
<1>1. CASE t.cancelled
  BY <1>1, EndIsStopping DEF Continue
<1>2. CASE ~t.cancelled
  <2>1. turn' = AfterCall(t)
    BY <1>2 DEF Continue
  <2>2. /\ turn'.seen = t.seen
        /\ \/ turn'.pc = "calls" /\ turn'.force_text = t.force_text
           \/ turn'.pc = "request" /\ turn'.allow = (t.round < MaxToolRounds /\ ~t.force_text)
    BY <2>1 DEF AfterCall, Shaped
  <2> QED
    BY <2>2 DEF IsStopping, LastReply
<1> QED
  BY <1>1, <1>2

LEMMA StepIsStopping ==
    ASSUME IInv, IsStopping(turn), [Next]_vars
    PROVE  IsStopping(turn')
<1>1. Shaped(turn)
  BY DEF IInv, Types
<1>2. turn.pc \in {"calls", "ask", "answered", "run"} => (MadeThrice(turn.seen) => turn.force_text)
  BY DEF IsStopping, LastReply
<1>3. ASSUME End
      PROVE  IsStopping(turn')
  BY <1>3, EndIsStopping DEF End
<1>4. ASSUME turn'.seen = turn.seen, LastReply(turn) => LastReply(turn')
      PROVE  IsStopping(turn')
  BY <1>4 DEF IsStopping
<1>5. CASE Endpoint
  <2>1. CASE ReplyWithCalls
    BY <1>1, <1>4, <2>1 DEF ReplyWithCalls, LastReply, Shaped
  <2>2. CASE ReplyWithText
    BY <1>1, <1>4, <2>2 DEF ReplyWithText, LastReply, Shaped
  <2>3. CASE ReplyBroken
    BY <1>1, <1>4, <2>3 DEF ReplyBroken, LastReply, Shaped
  <2>4. CASE ReplyError
    BY <1>3, <2>4 DEF ReplyError
  <2> QED
    BY <1>5, <2>1, <2>2, <2>3, <2>4 DEF Endpoint
<1>6. CASE Summarizer
  <2>1. CASE Compacted
    BY <1>1, <1>4, <2>1 DEF Compacted, LastReply, Shaped
  <2>2. CASE CompactionFailed
    BY <1>3, <2>2 DEF CompactionFailed
  <2> QED
    BY <1>6, <2>1, <2>2 DEF Summarizer
<1>7. CASE CallReturns
  BY <1>1, <1>2, <1>7, ContinueIsStopping DEF CallReturns
<1>8. CASE RequestCancelled \/ LoopCancelled \/ FinishTurn
  BY <1>3, <1>8 DEF RequestCancelled, LoopCancelled, FinishTurn
<1>9. CASE NextRound
  BY <1>1, <1>4, <1>9 DEF NextRound, MoreRounds, LastReply, Shaped
<1>10. CASE SkipRepeated \/ StartCall \/ DenyCall \/ AskUser
  <2>1. turn.pc = "calls"
    BY <1>10 DEF SkipRepeated, StartCall, DenyCall, AskUser, Gate
  <2>2. /\ ~Repeated => (MadeThrice(Noted.seen) => turn.force_text)
        /\ Noted = [turn EXCEPT !.seen = Noted.seen]
    BY <2>1, NotedIsStopping
  <2>3. Shaped(Noted) /\ Shaped([Noted EXCEPT !.force_text = TRUE])
    BY <2>1, NotedIsShaped DEF IInv, Types, Shaped, CallInHand, Call
  <2>4. Noted.force_text = turn.force_text /\ [Noted EXCEPT !.force_text = TRUE].force_text
    BY <1>1, <2>2, <2>3 DEF Shaped
  <2>5. CASE SkipRepeated
    BY <2>3, <2>4, <2>5, ContinueIsStopping DEF SkipRepeated
  <2>6. CASE DenyCall
    BY <2>2, <2>3, <2>4, <2>6, ContinueIsStopping DEF DenyCall, Gate
  <2>7. CASE StartCall \/ AskUser
    <3>1. ~Repeated /\ turn'.seen = Noted.seen /\ turn'.pc \in {"ask", "run"}
          /\ turn'.force_text = Noted.force_text
      BY <2>3, <2>7 DEF StartCall, AskUser, Gate, Shaped
    <3> QED
      BY <2>2, <2>4, <3>1 DEF IsStopping, LastReply
  <2> QED
    BY <1>10, <2>5, <2>6, <2>7
<1>11. CASE QuestionCancelled
  BY <1>1, <1>4, <1>11 DEF QuestionCancelled, LastReply, Shaped
<1>12. CASE TakeVerdict
  <2>1. CASE End
    BY <1>3, <2>1
  <2>2. CASE turn' = [turn EXCEPT !.pc = "run"]
    BY <1>1, <1>4, <1>12, <2>2 DEF TakeVerdict, LastReply, Shaped
  <2>3. CASE Continue(turn)
    BY <1>1, <1>2, <1>12, <2>3, ContinueIsStopping DEF TakeVerdict
  <2> QED
    BY <1>12, <2>1, <2>2, <2>3 DEF TakeVerdict
<1>13. CASE StartTurn
  <2>1. turn'.seen = << >>
    BY <1>13 DEF StartTurn, NoTurn
  <2> QED
    BY <2>1 DEF IsStopping, MadeThrice
<1>14. CASE UserAnswers
  BY <1>1, <1>4, <1>14 DEF UserAnswers, LastReply, Shaped
<1>15. CASE Cancel
  BY <1>1, <1>4, <1>15 DEF Cancel, LastReply, Shaped
<1>16. CASE UNCHANGED turn
  BY <1>16
<1> QED
  BY <1>5, <1>6, <1>7, <1>8, <1>9, <1>10, <1>11, <1>12, <1>13, <1>14, <1>15, <1>16
     DEF Next, Turn, Client, ChangePermissionMode, ClearConversation, SwitchModel, vars

\* Only NextRound goes on to another round.
LEMMA RoundsGoOn ==
    ASSUME IInv, [Next]_vars, turn'.n = turn.n
    PROVE  turn'.round <= turn.round \/ NextRound
<1>1. Shaped(turn)
  BY DEF IInv, Types
<1>2. turn.round \in Nat
  BY <1>1 DEF Shaped
<1>3. ASSUME NEW m, turn' = [NoTurn EXCEPT !.n = m]
      PROVE  turn'.round <= turn.round
  BY <1>2, <1>3 DEF NoTurn
<1>4. ASSUME NEW t, Shaped(t), t.round = turn.round, Continue(t)
      PROVE  turn'.round <= turn.round
  <2>1. AfterCall(t).round = t.round
    BY <1>4 DEF AfterCall, Shaped
  <2> QED
    BY <1>2, <1>3, <1>4, <2>1 DEF Continue
<1>5. turn'.round = turn.round => turn'.round <= turn.round
  BY <1>2
<1>6. CASE Endpoint
  BY <1>1, <1>3, <1>5, <1>6
     DEF Endpoint, ReplyWithCalls, ReplyWithText, ReplyBroken, ReplyError, End, Shaped
<1>7. CASE Summarizer
  BY <1>1, <1>3, <1>5, <1>7 DEF Summarizer, Compacted, CompactionFailed, End, Shaped
<1>8. CASE CallReturns
  BY <1>1, <1>4, <1>8 DEF CallReturns
<1>9. CASE RequestCancelled \/ LoopCancelled \/ FinishTurn
  BY <1>3, <1>9 DEF RequestCancelled, LoopCancelled, FinishTurn, End
<1>10. CASE SkipRepeated \/ StartCall \/ DenyCall \/ AskUser
  <2>1. turn.pc = "calls"
    BY <1>10 DEF SkipRepeated, StartCall, DenyCall, AskUser, Gate
  <2>2. Shaped(Noted) /\ Shaped([Noted EXCEPT !.force_text = TRUE])
    BY <2>1, NotedIsShaped DEF IInv, Types, Shaped, CallInHand, Call
  <2>3. /\ Noted.round = turn.round
        /\ [Noted EXCEPT !.force_text = TRUE].round = turn.round
    BY <1>1 DEF Noted, Shaped
  <2>4. CASE SkipRepeated
    BY <1>4, <2>2, <2>3, <2>4 DEF SkipRepeated
  <2>5. CASE DenyCall
    BY <1>4, <2>2, <2>3, <2>5 DEF DenyCall
  <2>6. CASE StartCall \/ AskUser
    BY <1>5, <2>2, <2>3, <2>6 DEF StartCall, AskUser, Shaped
  <2> QED
    BY <1>10, <2>4, <2>5, <2>6
<1>11. CASE QuestionCancelled \/ UserAnswers \/ Cancel
  BY <1>1, <1>5, <1>11 DEF QuestionCancelled, UserAnswers, Cancel, Shaped
<1>12. CASE TakeVerdict
  BY <1>1, <1>3, <1>4, <1>5, <1>12 DEF TakeVerdict, End, Shaped
<1>13. ~StartTurn
  <2>1. ASSUME StartTurn
        PROVE  turn'.n = turn.n + 1
    BY <2>1 DEF StartTurn, NoTurn
  <2> QED
    BY <1>1, <2>1 DEF Shaped
<1>14. CASE UNCHANGED turn
  BY <1>5, <1>14
<1> QED
  BY <1>6, <1>7, <1>8, <1>9, <1>10, <1>11, <1>12, <1>13, <1>14
     DEF Next, Turn, Client, ChangePermissionMode, ClearConversation, SwitchModel, vars

\* A turn in which a call was made for the third time has no further round:
\* whatever was skipped, denied, asked about or cancelled meanwhile, the model
\* gets one more reply without tools (repeated_tool_calls and force_text,
\* main.rs 3630, 3763-3775 and 4034).
THEOREM RepetitionEnds == Spec => RepetitionEndsTheTurn
<1>1. Init => IsStopping(turn)
  <2>1. ASSUME Init
        PROVE  turn = [NoTurn EXCEPT !.n = 0]
    BY <2>1 DEF Init, NoTurn
  <2> QED
    BY <2>1, EndIsStopping
<1>2. IInv /\ IsStopping(turn) /\ [Next]_vars => IsStopping(turn)'
  BY StepIsStopping
<1>3. ASSUME IInv, IsStopping(turn), [Next]_vars, ThirdTime, turn'.n = turn.n
      PROVE  turn'.round <= turn.round
  <2>1. MadeThrice(turn.seen)
    BY <1>3 DEF ThirdTime, MadeThrice, Places
  <2>2. ~NextRound
    BY <1>3, <2>1 DEF IsStopping, LastReply, NextRound, MoreRounds
  <2> QED
    BY <1>3, <2>2, RoundsGoOn
<1>4. IInv /\ IsStopping(turn) /\ [Next]_vars
        => [ThirdTime /\ turn'.n = turn.n => turn'.round <= turn.round]_vars
  BY <1>3
<1> QED
  BY <1>1, <1>2, <1>4, TurnInvariant, PTL DEF RepetitionEndsTheTurn, Spec

-----------------------------------------------------------------------------
(***************************************************************************)
(* What a session sends to the endpoint, for every PromptTurn: the type of *)
(* the conversation, and RequestsAnswerEveryCall.                          *)
(*                                                                         *)
(* Between the model's reply and the last of its tools the conversation    *)
(* ends in calls that have no result, so that the invariant says where the *)
(* turn is (Awaits), and that a request with results has them all: its     *)
(* cancellation records none twice.                                        *)
(*                                                                         *)
(* Once a turn has left calls open, what is known is less (Mended): each   *)
(* call has its own id, and results without a call are behind nothing.     *)
(* That is what a switch to another model needs to put the conversation    *)
(* right.  It does not hold where ids come back, and no switch between     *)
(* HTTP endpoints puts such a conversation right.                          *)
(***************************************************************************)

Messages == MessageType(0..MaxTurns)

\* The model's reply is the last message, and its calls have no result yet.
InHand == \/ turn.pc \in {"compact", "calls", "ask", "answered", "run"}
          \/ turn.pc = "loop" /\ turn.calls # << >>

\* The round that the calls of the turn are of.
Round == IF turn.pc = "loop" THEN turn.round + 1 ELSE turn.round

HandIds == [k \in DOMAIN turn.calls |-> CallId(Round, k)]

Earlier(n, r) == {id \in CallIds : id[1] < n \/ (id[1] = n /\ id[2] <= r)}

KnownIds == IF turn.pc = "idle" THEN Earlier(turn.n + 1, 0) ELSE Earlier(turn.n, Round)

SendsResults == turn.pc = "request" /\ turn.what = "results"

Typed ==
    /\ history \in Seq(Messages)
    /\ turn.n \in 0..MaxTurns
    /\ turn.round \in 0..MaxToolRounds
    /\ turn.before \in Seq(Messages)
    /\ openCalls \in BOOLEAN
    /\ events \in 0..MaxEvents

\* A reply makes calls only where a round is left to run them.
RoundLeft ==
    /\ turn.pc = "request" /\ turn.allow => turn.round < MaxToolRounds
    /\ turn.pc = "loop" /\ turn.calls # << >> => turn.round < MaxToolRounds

Heads == Headed(history) /\ (turn.pc # "idle" => Headed(turn.before))

Whole ==
    /\ InHand => Awaits(history, HandIds)
    /\ ~InHand => Good(history)
    /\ turn.pc # "idle" => Good(turn.before)
    /\ SendsResults => \A k \in DOMAIN HandIds : Recorded(history, HandIds[k])

AsksOrNot(h, ids) == IsReply(h, ids) \/ \A k \in DOMAIN ids : Uncalled(h, ids[k])
RecordedOrNot(h, ids) == \A k \in DOMAIN ids : Recorded(h, ids[k]) \/ Uncalled(h, ids[k])

Mended ==
    /\ Mendable(history) /\ IdsWithin(history, KnownIds)
    /\ turn.pc # "idle" => Mendable(turn.before) /\ IdsWithin(turn.before, Earlier(turn.n, 0))
    /\ InHand => AsksOrNot(history, HandIds)
    /\ SendsResults => RecordedOrNot(history, HandIds)

HInv == /\ Typed /\ RoundLeft /\ Heads
        /\ ~openCalls => Whole
        /\ ~IdsRepeat => Mended

-----------------------------------------------------------------------------
(* Ids *)

LEMMA CallIdIs ==
    ASSUME turn.n \in Nat, NEW r \in Nat
    PROVE  /\ \A k \in Nat : CallId(r, k) \in CallIds
           /\ \A k, l \in Nat : CallId(r, k) = CallId(r, l) => k = l
           /\ ~IdsRepeat => \A k \in Nat : CallId(r, k) = <<turn.n, r, k>>
BY DEF CallId, CallIds

LEMMA HandIdsAre ==
    ASSUME IInv, Typed
    PROVE  /\ HandIds \in Seq(CallIds) /\ Len(HandIds) = Len(turn.calls)
           /\ DOMAIN HandIds = 1..Len(turn.calls) /\ Len(turn.calls) \in Nat
           /\ \A a, b \in 1..Len(turn.calls) : HandIds[a] = HandIds[b] => a = b
           /\ turn.pc # "loop" => Ids = HandIds
           /\ ~IdsRepeat => \A k \in 1..Len(turn.calls) : HandIds[k] \in Earlier(turn.n, Round)
<1> DEFINE N == Len(turn.calls)
<1>1. turn.n \in Nat /\ turn.round \in Nat /\ Round \in Nat
  BY DEF Typed, Round
<1>2. turn.calls \in Seq(CallType) /\ N \in Nat /\ DOMAIN turn.calls = 1..N
  BY DEF IInv, Types, Shaped
<1>3. HandIds = [k \in 1..N |-> CallId(Round, k)]
  BY <1>2 DEF HandIds
<1>4. /\ \A k \in Nat : CallId(Round, k) \in CallIds
      /\ \A k, l \in Nat : CallId(Round, k) = CallId(Round, l) => k = l
      /\ ~IdsRepeat => \A k \in Nat : CallId(Round, k) = <<turn.n, Round, k>>
  BY <1>1, CallIdIs
<1>5. N - 1 + 1 = N /\ \A k \in 1..N : 1 + k - 1 = k /\ k \in Nat
  BY <1>2
<1>6. ASSUME turn.pc # "loop"
      PROVE  Ids = HandIds
  <2>1. Round = turn.round
    BY <1>6 DEF Round
  <2>2. Ids = [k \in 1..(N - 1 + 1) |-> CallId(turn.round, 1 + k - 1)]
    BY DEF Ids, IdsFrom
  <2>3. Ids = [k \in 1..N |-> CallId(turn.round, k)]
    BY <1>5, <2>2
  <2> QED
    BY <1>3, <2>1, <2>3
<1> HIDE DEF N
<1>7. HandIds \in Seq(CallIds) /\ Len(HandIds) = N /\ DOMAIN HandIds = 1..N
  <2>1. HandIds \in [1..N -> CallIds]
    BY <1>3, <1>4, <1>5
  <2> QED
    BY <1>2, <2>1 DEF N
<1>8. \A a, b \in 1..N : HandIds[a] = HandIds[b] => a = b
  BY <1>3, <1>4, <1>5
<1>9. ~IdsRepeat => \A k \in 1..N : HandIds[k] \in Earlier(turn.n, Round)
  BY <1>1, <1>3, <1>4, <1>5 DEF Earlier
<1> QED
  BY <1>2, <1>6, <1>7, <1>8, <1>9 DEF N

LEMMA EarlierGrows ==
    ASSUME NEW n \in Nat, NEW r \in Nat
    PROVE  /\ \A s \in Nat : r <= s => Earlier(n, r) \subseteq Earlier(n, s)
           /\ Earlier(n, r) \subseteq Earlier(n + 1, 0)
BY DEF Earlier, CallIds

LEMMA WithinMore ==
    ASSUME NEW h, NEW ids, NEW more, IdsWithin(h, ids), ids \subseteq more
    PROVE  IdsWithin(h, more)
BY DEF IdsWithin

-----------------------------------------------------------------------------
(* Steps that leave the conversation alone, and ends of a turn *)

LEMMA QuietKeepsHInv ==
    ASSUME IInv, HInv, UNCHANGED <<history, openCalls>>, events' \in 0..MaxEvents,
           turn.pc # "idle", turn'.pc # "idle",
           turn'.n = turn.n, turn'.before = turn.before, turn'.calls = turn.calls,
           turn'.round \in 0..MaxToolRounds, Round' = Round,
           InHand' <=> InHand, SendsResults' => SendsResults, RoundLeft'
    PROVE  HInv'
<1>1. HandIds' = HandIds
  BY DEF HandIds, CallId
<1>2. KnownIds' = KnownIds
  BY DEF KnownIds
<1>3. Typed' /\ Heads'
  BY DEF HInv, Typed, Heads
<1>4. Whole => Whole'
  BY <1>1 DEF Whole
<1>5. Mended => Mended'
  BY <1>1, <1>2 DEF Mended
<1> QED
  BY <1>3, <1>4, <1>5 DEF HInv

LEMMA EndKeepsHInv ==
    ASSUME HInv, turn' = [NoTurn EXCEPT !.n = turn.n], UNCHANGED events,
           history' \in Seq(Messages), Headed(history'), openCalls' \in BOOLEAN,
           ~openCalls' => Good(history'),
           ~IdsRepeat => Mendable(history') /\ IdsWithin(history', Earlier(turn.n + 1, 0))
    PROVE  HInv'
<1>1. /\ turn'.pc = "idle" /\ turn'.n = turn.n /\ turn'.round = 0 /\ turn'.before = << >>
      /\ turn'.calls = << >>
  BY DEF NoTurn
<1>2. ~InHand' /\ ~SendsResults'
  BY <1>1 DEF InHand, SendsResults
<1>3. Typed' /\ RoundLeft' /\ Heads'
  <2>1. << >> \in Seq(Messages) /\ 0 \in 0..MaxToolRounds
    BY TurnAssumption DEF TurnAssumption
  <2> QED
    BY <1>1, <2>1 DEF HInv, Typed, RoundLeft, Heads
<1>4. ~openCalls' => Whole'
  BY <1>1, <1>2 DEF Whole
<1>5. ~IdsRepeat => Mended'
  BY <1>1, <1>2 DEF Mended, KnownIds
<1> QED
  BY <1>3, <1>4, <1>5 DEF HInv

\* What is known while a turn goes on is known when it ends with its
\* conversation as it is, or taken back.
LEMMA KnownAtTheEnd ==
    ASSUME Typed
    PROVE  /\ \A h : turn.pc # "idle" /\ IdsWithin(h, KnownIds) => IdsWithin(h, Earlier(turn.n + 1, 0))
           /\ \A h : IdsWithin(h, Earlier(turn.n, 0)) => IdsWithin(h, Earlier(turn.n + 1, 0))
           /\ \A h : IdsWithin(h, Earlier(turn.n, turn.round)) => IdsWithin(h, Earlier(turn.n + 1, 0))
<1>1. turn.n \in Nat /\ Round \in Nat /\ 0 \in Nat /\ turn.round \in Nat
  BY DEF Typed, Round
<1>2. \A r \in Nat : Earlier(turn.n, r) \subseteq Earlier(turn.n + 1, 0)
  BY <1>1, EarlierGrows
<1> QED
  BY <1>1, <1>2, WithinMore DEF KnownIds

-----------------------------------------------------------------------------
(* The results of a round *)

LEMMA CancelledStaysMended ==
    ASSUME NEW n \in 0..MaxTurns, NEW h \in Seq(Messages), NEW ids \in Seq(CallIds), NEW all,
           Mendable(h), IdsWithin(h, all), \A k \in 1..Len(ids) : ids[k] \in all,
           \A k \in 1..Len(ids) : Recorded(h, ids[k]) \/ Uncalled(h, ids[k])
    PROVE  /\ Mendable(RecordCancelledToolResults(h, n, ids))
           /\ IdsWithin(RecordCancelledToolResults(h, n, ids), all)
<1> DEFINE turns == 0..MaxTurns
           g == RecordCancelledToolResults(h, n, ids)
<1>1. h \in Seq(MessageType(turns)) /\ n \in turns
  BY DEF Messages
<1> HIDE DEF turns
<1> QED
  BY <1>1, CancelledMends

\* A round's results, of calls that ran or of calls that a cancellation never let run.
LEMMA RoundAnswered ==
    ASSUME IInv, HInv, turn.pc \in {"calls", "answered", "run"},
           NEW g \in {AppendResults(history, turn.n, Ids),
                      RecordCancelledToolResults(history, turn.n, Ids)}
    PROVE  /\ g \in Seq(Messages) /\ Headed(g)
           /\ ~openCalls => Good(g) /\ \A k \in DOMAIN HandIds : Recorded(g, HandIds[k])
           /\ ~IdsRepeat => /\ Mendable(g) /\ IdsWithin(g, Earlier(turn.n, turn.round))
                            /\ RecordedOrNot(g, HandIds)
<1> DEFINE N == Len(turn.calls)
           ids == HandIds
<1>1. /\ ids \in Seq(CallIds) /\ DOMAIN ids = 1..N /\ N \in Nat /\ Len(ids) = N
      /\ \A a, b \in 1..N : ids[a] = ids[b] => a = b
      /\ Ids = ids
      /\ ~IdsRepeat => \A k \in 1..N : ids[k] \in Earlier(turn.n, Round)
  BY HandIdsAre DEF HInv
<1>2. /\ history \in Seq(Messages) /\ Headed(history) /\ turn.n \in 0..MaxTurns
      /\ InHand /\ Round = turn.round /\ KnownIds = Earlier(turn.n, turn.round)
  BY DEF HInv, Typed, Heads, InHand, Round, KnownIds
<1> HIDE DEF N, ids
<1>3. g \in Seq(Messages) /\ Headed(g)
  <2>1. AppendResults(history, turn.n, ids) \in Seq(Messages)
    BY <1>1, <1>2, ResultsAreTyped DEF Messages
  <2>2. Headed(AppendResults(history, turn.n, ids))
    BY <1>1, <1>2, ResultsKeepHead
  <2>3. /\ RecordCancelledToolResults(history, turn.n, ids) \in Seq(Messages)
        /\ Headed(RecordCancelledToolResults(history, turn.n, ids))
    <3> DEFINE turns == 0..MaxTurns
    <3>1. turn.n \in turns /\ history \in Seq(MessageType(turns)) /\ Messages = MessageType(turns)
      BY <1>2 DEF Messages
    <3> HIDE DEF turns
    <3> QED
      BY <1>1, <1>2, <3>1, CancelledKeepsHead
  <2> QED
    BY <1>1, <2>1, <2>2, <2>3
<1>4. ASSUME \A k \in 1..N : ~Recorded(history, ids[k])
      PROVE  g = AppendResults(history, turn.n, ids)
  BY <1>1, <1>2, <1>4, NoneRecorded
<1>5. ASSUME IsReply(history, ids)
      PROVE  /\ g = AppendResults(history, turn.n, ids)
             /\ Sound(history) => Sound(g)
             /\ Once(history) => Once(g)
             /\ MetTo(history, Len(history) - 1) => MetTo(g, Len(g))
             /\ \A k \in 1..N : Recorded(g, ids[k])
             /\ Mendable(history) => Mendable(g)
             /\ \A all : IdsWithin(history, all) => IdsWithin(g, all)
  <2>1. \A k \in 1..N : ~Recorded(history, ids[k])
    BY <1>1, <1>2, <1>5, ReplyIsUnrecorded
  <2>2. g = AppendResults(history, turn.n, ids)
    BY <1>4, <2>1
  <2> QED
    BY <1>1, <1>2, <1>3, <1>5, <2>2, ReplyAnswered
<1>6. ASSUME ~openCalls
      PROVE  Good(g) /\ \A k \in 1..N : Recorded(g, ids[k])
  <2>1. Awaits(history, ids)
    BY <1>2, <1>6 DEF HInv, Whole, ids
  <2> QED
    BY <1>5, <2>1 DEF Awaits, Good
<1>7. ASSUME ~IdsRepeat
      PROVE  /\ Mendable(g) /\ IdsWithin(g, Earlier(turn.n, turn.round))
             /\ \A k \in 1..N : Recorded(g, ids[k]) \/ Uncalled(g, ids[k])
  <2>1. /\ Mendable(history) /\ IdsWithin(history, Earlier(turn.n, turn.round))
        /\ AsksOrNot(history, ids)
        /\ \A k \in 1..N : ids[k] \in Earlier(turn.n, turn.round)
    BY <1>1, <1>2, <1>7 DEF HInv, Mended, ids
  <2>2. CASE IsReply(history, ids)
    BY <1>5, <2>1, <2>2
  <2>3. CASE \A k \in 1..N : Uncalled(history, ids[k])
    <3>1. \A k \in 1..N : ~Recorded(history, ids[k])
      BY <1>2, <2>3, UncalledIsUnrecorded
    <3>2. g = AppendResults(history, turn.n, ids)
      BY <1>4, <3>1
    <3> QED
      BY <1>1, <1>2, <1>3, <2>1, <2>3, <3>2, StrayResults
  <2> QED
    BY <1>1, <2>1, <2>2, <2>3 DEF AsksOrNot
<1> QED
  BY <1>1, <1>3, <1>6, <1>7 DEF ids, RecordedOrNot

-----------------------------------------------------------------------------
(* The endpoint's replies *)

\* What holds of the conversation while a request is out.
Ready(h) ==
    /\ h \in Seq(Messages) /\ Headed(h)
    /\ ~openCalls => /\ Good(h)
                     /\ SendsResults => \A k \in DOMAIN HandIds : Recorded(h, HandIds[k])
    /\ ~IdsRepeat => /\ Mendable(h) /\ IdsWithin(h, Earlier(turn.n, turn.round))
                     /\ SendsResults => RecordedOrNot(h, HandIds)

LEMMA RequestIsReady ==
    ASSUME HInv, turn.pc = "request"
    PROVE  Ready(history)
<1>1. ~InHand /\ KnownIds = Earlier(turn.n, turn.round)
  BY DEF InHand, KnownIds, Round
<1> QED
  BY <1>1 DEF HInv, Typed, Heads, Whole, Mended, Ready

LEMMA MessagesAre ==
    ASSUME NEW n \in 0..MaxTurns
    PROVE  /\ Prompt(n) \in Messages /\ Note(n) \in Messages
           /\ Prompt(n).calls = << >> /\ Note(n).calls = << >>
           /\ ~IsTool(Prompt(n)) /\ ~IsSystem(Prompt(n)) /\ ~IsTool(Note(n)) /\ ~IsSystem(Note(n))
           /\ \A kind \in Kinds : \A ids \in Seq(CallIds) :
                /\ Assistant(kind, n, ids) \in Messages /\ Assistant(kind, n, ids).calls = ids
                /\ IsAssistant(Assistant(kind, n, ids)) /\ ~IsTool(Assistant(kind, n, ids))
                /\ ~IsSystem(Assistant(kind, n, ids))
<1>1. << >> \in Seq(CallIds)
  OBVIOUS
<1> QED
  BY <1>1 DEF Messages, MessageType, Prompt, Note, Assistant, Message, Roles, Kinds, SystemKinds,
              IsTool, IsSystem, IsAssistant

LEMMA TextKeepsReady ==
    ASSUME NEW h, Ready(h), NEW m \in Messages, ~IsTool(m), ~IsSystem(m), m.calls = << >>
    PROVE  Ready(Append(h, m))
<1> DEFINE g == Append(h, m)
<1>1. Range(m.calls) = {}
  BY DEF Range
<1>2. h \in Seq(Messages) /\ MakesNewCalls(h, m)
  BY <1>1 DEF Ready, MakesNewCalls
<1>3. g \in Seq(Messages)
  BY <1>2
<1> HIDE DEF g
<1>4. g = Append(h, m)
  BY DEF g
<1>5. /\ Headed(h) => Headed(g)
      /\ Good(h) => Good(g)
  BY <1>2, <1>4, AppendKeeps DEF Good
<1>6. /\ Mendable(h) => Mendable(g)
      /\ \A ids : IdsWithin(h, ids) => IdsWithin(g, ids)
      /\ \A id : Uncalled(h, id) => Uncalled(g, id)
      /\ \A id : Recorded(h, id) => Recorded(g, id)
  BY <1>1, <1>2, <1>4, AppendMends
<1> QED
  BY <1>3, <1>4, <1>5, <1>6 DEF Ready, RecordedOrNot

\* A reply without calls, or the model is asked again.
LEMMA ReadyGoesOn ==
    ASSUME IInv, HInv, turn.pc = "request", Ready(history'), UNCHANGED openCalls, events' \in 0..MaxEvents,
           \/ turn' = [turn EXCEPT !.retried = TRUE]
           \/ /\ turn'.pc = "loop" /\ turn'.n = turn.n /\ turn'.before = turn.before
              /\ turn'.calls = << >> /\ turn'.round = turn.round
    PROVE  HInv'
<1>1. /\ turn'.n = turn.n /\ turn'.before = turn.before /\ turn'.round = turn.round
      /\ \/ turn'.pc = "request" /\ turn'.calls = turn.calls /\ turn'.what = turn.what
                                 /\ turn'.allow = turn.allow
         \/ turn'.pc = "loop" /\ turn'.calls = << >>
  BY DEF IInv, Types, Shaped
<1>2. /\ turn.n \in Nat /\ turn.round \in Nat /\ turn.round + 1 \in Nat /\ turn.round <= turn.round + 1
  BY DEF HInv, Typed
<1>3. ~InHand' /\ turn'.pc # "idle" /\ (SendsResults' => SendsResults /\ HandIds' = HandIds)
  BY <1>1 DEF InHand, SendsResults, HandIds, CallId, Round
<1>4. Typed' /\ RoundLeft' /\ Heads'
  BY <1>1, <1>3 DEF HInv, Typed, RoundLeft, Heads, Ready
<1>5. IdsWithin(history', Earlier(turn.n, turn.round)) => IdsWithin(history', KnownIds')
  <2>1. Earlier(turn.n, turn.round) \subseteq KnownIds'
    <3>1. KnownIds' = Earlier(turn.n, turn.round) \/ KnownIds' = Earlier(turn.n, turn.round + 1)
      BY <1>1 DEF KnownIds, Round
    <3> QED
      BY <1>2, <3>1, EarlierGrows
  <2> QED
    BY <2>1, WithinMore
<1>6. ~openCalls => Whole'
  BY <1>1, <1>3 DEF HInv, Whole, Ready
<1>7. ~IdsRepeat => Mended'
  BY <1>1, <1>3, <1>5 DEF HInv, Mended, Ready
<1> QED
  BY <1>4, <1>6, <1>7 DEF HInv

LEMMA CallsKeepHInv ==
    ASSUME IInv, HInv, turn.pc = "request", turn.allow, NEW list \in Seq(CallType), list # << >>,
           turn' = [turn EXCEPT !.pc = "loop", !.calls = list, !.at = 1, !.finish = "stop"],
           history' = Append(history,
               Assistant("silent", turn.n, [i \in DOMAIN list |-> CallId(turn.round + 1, i)])),
           UNCHANGED <<openCalls, events>>
    PROVE  HInv'
<1> DEFINE N == Len(list)
           ids == [i \in DOMAIN list |-> CallId(turn.round + 1, i)]
           m == Assistant("silent", turn.n, ids)
           g == history'
<1>1. /\ turn'.pc = "loop" /\ turn'.calls = list /\ turn'.n = turn.n /\ turn'.before = turn.before
      /\ turn'.round = turn.round
  BY DEF IInv, Types, Shaped
<1>2. /\ turn.n \in Nat /\ turn.round \in Nat /\ turn.round + 1 \in Nat /\ turn.round < turn.round + 1
      /\ turn.n \in 0..MaxTurns
  BY DEF HInv, Typed
<1>3. DOMAIN list = 1..N /\ N \in Nat
  OBVIOUS
<1>4. /\ \A k \in Nat : CallId(turn.round + 1, k) \in CallIds
      /\ ~IdsRepeat => \A k \in Nat : CallId(turn.round + 1, k) = <<turn.n, turn.round + 1, k>>
  BY <1>2, CallIdIs
<1>5. ids \in Seq(CallIds)
  <2>1. ids \in [1..N -> CallIds]
    BY <1>3, <1>4
  <2> QED
    BY <1>3, <2>1
<1>6. InHand' /\ ~SendsResults' /\ turn'.pc # "idle" /\ HandIds' = ids
  BY <1>1 DEF InHand, SendsResults, HandIds, CallId, Round
<1>7. KnownIds' = Earlier(turn.n, turn.round + 1)
  BY <1>1 DEF KnownIds, Round
<1>8. ~IdsRepeat => \A id \in Range(ids) : id \in Earlier(turn.n, turn.round + 1)
                                           /\ id \notin Earlier(turn.n, turn.round)
  <2>1. ASSUME ~IdsRepeat, NEW k \in 1..N
        PROVE  /\ ids[k] \in Earlier(turn.n, turn.round + 1)
               /\ ids[k] \notin Earlier(turn.n, turn.round)
    <3> DEFINE id == ids[k]
    <3>1. id = <<turn.n, turn.round + 1, k>> /\ id \in CallIds
      BY <1>3, <1>4, <2>1
    <3> HIDE DEF id
    <3>2. id[1] = turn.n /\ id[2] = turn.round + 1
      BY <3>1
    <3>3. id \in Earlier(turn.n, turn.round + 1)
      BY <1>2, <3>1, <3>2 DEF Earlier
    <3>4. id \notin Earlier(turn.n, turn.round)
      BY <1>2, <3>2 DEF Earlier
    <3> QED
      BY <3>3, <3>4 DEF id
  <2> QED
    BY <1>3, <2>1 DEF Range
<1>9. "silent" \in Kinds
  BY DEF Kinds
<1> HIDE DEF ids
<1>10. m \in Messages /\ m.calls = ids /\ IsAssistant(m) /\ ~IsTool(m) /\ ~IsSystem(m)
  BY <1>2, <1>5, <1>9, MessagesAre
<1>11. Ready(history) /\ g = Append(history, m)
  BY RequestIsReady DEF ids
<1> HIDE DEF m, g
<1>12. history \in Seq(Messages) /\ g \in Seq(Messages) /\ Len(g) \in Nat /\ Len(g) >= 1
       /\ g[Len(g)] = m
  BY <1>10, <1>11 DEF Ready
<1>13. /\ Headed(g)
       /\ Sound(history) => Sound(g)
       /\ Once(history) => Once(g)
       /\ MetTo(history, Len(history)) => MetTo(g, Len(g) - 1)
  BY <1>10, <1>11, <1>12, AppendKeeps DEF Ready
<1>14. IsReply(g, ids)
  BY <1>10, <1>12 DEF IsReply, Last
<1>15. Typed' /\ RoundLeft' /\ Heads'
  BY <1>1, <1>12, <1>13 DEF HInv, Typed, RoundLeft, Heads, g
<1>16. ~openCalls => Whole'
  BY <1>1, <1>6, <1>11, <1>13, <1>14 DEF HInv, Whole, Ready, Good, Awaits, g
<1>17. ASSUME ~IdsRepeat
       PROVE  Mended'
  <2>1. IdsWithin(history, Earlier(turn.n, turn.round)) /\ Mendable(history)
    BY <1>11, <1>17 DEF Ready
  <2>2. MakesNewCalls(history, m)
    BY <1>8, <1>10, <1>17, <2>1 DEF MakesNewCalls, Unknown, IdsWithin, Calls
  <2>3. Earlier(turn.n, turn.round) \subseteq Earlier(turn.n, turn.round + 1)
    BY <1>2, EarlierGrows
  <2>4. IdsWithin(history, Earlier(turn.n, turn.round + 1))
    BY <2>1, <2>3, WithinMore
  <2>5. Range(m.calls) \subseteq Earlier(turn.n, turn.round + 1)
    BY <1>8, <1>10, <1>17
  <2>6. Mendable(g) /\ IdsWithin(g, Earlier(turn.n, turn.round + 1))
    <3> DEFINE more == Earlier(turn.n, turn.round + 1)
    <3>1. IdsWithin(history, more) /\ Range(m.calls) \subseteq more
      BY <2>4, <2>5
    <3> HIDE DEF more
    <3>2. Mendable(g) /\ IdsWithin(g, more)
      BY <1>10, <1>11, <1>12, <2>1, <2>2, <3>1, AppendMends
    <3> QED
      BY <3>2 DEF more
  <2> QED
    BY <1>1, <1>6, <1>7, <1>14, <1>17, <2>6 DEF HInv, Mended, AsksOrNot, g
<1> QED
  BY <1>15, <1>16, <1>17 DEF HInv

LEMMA EndpointKeepsHInv == IInv /\ HInv /\ Endpoint => HInv'
<1> SUFFICES ASSUME IInv, HInv, Endpoint
             PROVE  HInv'
  OBVIOUS
<1>1. /\ turn.pc = "request" /\ Ready(history) /\ history \in Seq(Messages)
      /\ turn.n \in 0..MaxTurns /\ events \in 0..MaxEvents /\ MaxEvents \in Nat /\ openCalls \in BOOLEAN
  BY RequestIsReady, TurnAssumption
     DEF Endpoint, ReplyWithCalls, ReplyWithText, ReplyBroken, ReplyError, HInv, Typed, TurnAssumption
<1>2. << >> \in Seq(CallIds) /\ "silent" \in Kinds /\ "text" \in Kinds
  BY DEF Kinds
<1>3. ASSUME NEW h, Ready(h), NEW kind \in {"silent", "text"}
      PROVE  Ready(Append(h, Assistant(kind, turn.n, << >>)))
  BY <1>1, <1>2, <1>3, MessagesAre, TextKeepsReady
<1>4. ASSUME NEW h, Ready(h)
      PROVE  Ready(Append(h, Note(turn.n)))
  BY <1>1, <1>4, MessagesAre, TextKeepsReady
<1>6. CASE ReplyWithCalls
  <2>1. PICK list \in CallLists :
          /\ turn' = [turn EXCEPT !.pc = "loop", !.calls = IF turn.allow THEN list ELSE << >>,
                                  !.at = 1, !.finish = "stop"]
          /\ history' = Append(history,
                 Assistant("silent", turn.n,
                     IF turn.allow THEN [i \in DOMAIN list |-> CallId(turn.round + 1, i)]
                     ELSE << >>))
    BY <1>6 DEF ReplyWithCalls
  <2>2. list \in Seq(CallType) /\ UNCHANGED <<openCalls, events>>
    BY <1>6, TurnAssumption DEF TurnAssumption, ReplyWithCalls
  <2>3. CASE turn.allow /\ list # << >>
    BY <1>1, <2>1, <2>2, <2>3, CallsKeepHInv
  <2>4. CASE ~turn.allow \/ list = << >>
    <3>1. [i \in DOMAIN << >> |-> CallId(turn.round + 1, i)] = << >>
      OBVIOUS
    <3>2. history' = Append(history, Assistant("silent", turn.n, << >>))
      BY <2>1, <2>4, <3>1
    <3>3. Ready(history')
      BY <1>1, <1>3, <3>2
    <3>4. turn' = [turn EXCEPT !.pc = "loop", !.calls = << >>, !.at = 1, !.finish = "stop"]
      BY <2>1, <2>4
    <3>5. /\ turn'.pc = "loop" /\ turn'.n = turn.n /\ turn'.before = turn.before
          /\ turn'.calls = << >> /\ turn'.round = turn.round
      BY <3>4 DEF IInv, Types, Shaped
    <3> QED
      BY <1>1, <2>2, <3>3, <3>5, ReadyGoesOn
  <2> QED
    BY <2>3, <2>4
<1>7. CASE ReplyWithText
  <2>1. PICK finish \in {"stop", "refusal"} :
            turn' = [turn EXCEPT !.pc = "loop", !.calls = << >>, !.finish = finish]
    BY <1>7 DEF ReplyWithText
  <2>2. /\ turn'.pc = "loop" /\ turn'.n = turn.n /\ turn'.before = turn.before
        /\ turn'.calls = << >> /\ turn'.round = turn.round
    BY <2>1 DEF IInv, Types, Shaped
  <2>3. Ready(history')
    BY <1>1, <1>3, <1>7 DEF ReplyWithText
  <2> QED
    BY <1>1, <1>7, <2>2, <2>3, ReadyGoesOn DEF ReplyWithText
<1>8. CASE ReplyBroken
  <2>1. PICK said \in BOOLEAN :
         LET kept == IF said THEN Append(history, Assistant("text", turn.n, << >>)) ELSE history
             again == turn.allow /\ ~turn.retried
         IN  /\ history' = IF again THEN Append(kept, Note(turn.n)) ELSE kept
             /\ turn' = IF again THEN [turn EXCEPT !.retried = TRUE]
                        ELSE [turn EXCEPT !.pc = "loop", !.calls = << >>, !.finish = "stop"]
    BY <1>8 DEF ReplyBroken
  <2> DEFINE kept == IF said THEN Append(history, Assistant("text", turn.n, << >>)) ELSE history
  <2>2. Ready(kept)
    BY <1>1, <1>3
  <2>3. /\ history' = kept \/ history' = Append(kept, Note(turn.n))
        /\ \/ turn' = [turn EXCEPT !.retried = TRUE]
           \/ turn' = [turn EXCEPT !.pc = "loop", !.calls = << >>, !.finish = "stop"]
    BY <2>1
  <2> HIDE DEF kept
  <2>4. Ready(history')
    BY <1>4, <2>2, <2>3
  <2>5. \/ turn' = [turn EXCEPT !.retried = TRUE]
        \/ /\ turn'.pc = "loop" /\ turn'.n = turn.n /\ turn'.before = turn.before
           /\ turn'.calls = << >> /\ turn'.round = turn.round
    BY <2>3 DEF IInv, Types, Shaped
  <2>6. UNCHANGED openCalls /\ events' \in 0..MaxEvents
    BY <1>1, <1>8 DEF ReplyBroken, Event
  <2> QED
    BY <1>1, <2>4, <2>5, <2>6, ReadyGoesOn
<1>9. CASE ReplyError
  <2>1. UNCHANGED <<history, openCalls, events>> /\ turn' = [NoTurn EXCEPT !.n = turn.n]
    BY <1>9 DEF ReplyError, End
  <2>2. /\ Headed(history) /\ (~openCalls => Good(history))
        /\ ~IdsRepeat => Mendable(history) /\ IdsWithin(history, Earlier(turn.n + 1, 0))
    BY <1>1, KnownAtTheEnd DEF Ready, HInv
  <2> QED
    BY <1>1, <2>1, <2>2, EndKeepsHInv
<1> QED
  BY <1>6, <1>7, <1>8, <1>9 DEF Endpoint

-----------------------------------------------------------------------------
(* Compaction *)

LEMMA SummarizerKeepsHInv == IInv /\ HInv /\ Summarizer => HInv'
<1> SUFFICES ASSUME IInv, HInv, Summarizer
             PROVE  HInv'
  OBVIOUS
<1>1. /\ turn.pc = "compact" /\ InHand /\ history \in Seq(Messages) /\ Headed(history)
      /\ KnownIds = Earlier(turn.n, turn.round) /\ openCalls \in BOOLEAN
      /\ ~openCalls => Awaits(history, HandIds)
      /\ ~IdsRepeat => /\ Mendable(history) /\ IdsWithin(history, KnownIds)
                       /\ AsksOrNot(history, HandIds)
  BY DEF Summarizer, Compacted, CompactionFailed, InHand, HInv, Typed, Heads, Whole, Mended,
         KnownIds, Round
<1>2. CASE Compacted
  <2> DEFINE g == history'
  <2>1. PICK summarized \in BOOLEAN : CompactHistory(history, summarized) # NoRebuild
                                      /\ g = CompactHistory(history, summarized)
    BY <1>2 DEF Compacted
  <2>2. g # << >>
    BY <2>1 DEF NoRebuild
  <2>3. 0 \in 0..MaxTurns
    BY TurnAssumption DEF TurnAssumption
  <2>4. IsCompaction(g, history, 0..MaxTurns)
    BY <1>1, <2>1, <2>3, CompactIs DEF Messages
  <2>5. /\ g \in Seq(Messages) /\ Headed(g)
        /\ Sound(history) => Sound(g)
        /\ Once(history) => Once(g)
        /\ MetTo(history, Len(history) - 1) => MetTo(g, Len(g) - 1)
        /\ Mendable(history) => Mendable(g)
        /\ \A ids : IdsWithin(history, ids) => IdsWithin(g, ids)
        /\ \A id : Uncalled(history, id) => Uncalled(g, id)
        /\ \/ g # << >> /\ Last(g) = Last(history)
           \/ \A id : Uncalled(g, id)
    BY <1>1, <2>4, CompactionKeeps DEF Messages
  <2>6. /\ turn'.pc = "calls" /\ turn'.n = turn.n /\ turn'.before = turn.before
        /\ turn'.calls = turn.calls /\ turn'.round = turn.round
        /\ UNCHANGED events /\ openCalls' = (openCalls \/ Last(g) # Last(history))
    BY <1>1, <1>2 DEF Compacted, IInv, Types, Shaped
  <2>7. /\ InHand' /\ ~SendsResults' /\ turn'.pc # "idle" /\ KnownIds' = KnownIds
        /\ HandIds' = HandIds
    BY <1>1, <2>6 DEF InHand, SendsResults, KnownIds, Round, HandIds, CallId
  <2> HIDE DEF g
  <2>8. Typed' /\ RoundLeft' /\ Heads'
    BY <1>1, <2>5, <2>6 DEF HInv, Typed, RoundLeft, Heads, g
  <2>9. ASSUME ~openCalls'
        PROVE  Whole'
    <3>1. ~openCalls /\ Last(g) = Last(history)
      BY <1>1, <2>6, <2>9
    <3>2. IsReply(g, HandIds)
      BY <1>1, <2>2, <3>1 DEF Awaits, IsReply
    <3>3. Awaits(g, HandIds)
      BY <1>1, <2>5, <3>1, <3>2 DEF Awaits
    <3> QED
      BY <1>1, <2>6, <2>7, <3>1, <3>3 DEF HInv, Whole, g
  <2>10. ASSUME ~IdsRepeat
         PROVE  Mended'
    <3>1. AsksOrNot(g, HandIds)
      BY <1>1, <2>2, <2>5, <2>10 DEF AsksOrNot, IsReply
    <3> QED
      BY <1>1, <2>5, <2>6, <2>7, <2>10, <3>1 DEF HInv, Mended, g
  <2> QED
    BY <2>8, <2>9, <2>10 DEF HInv
<1>3. CASE CompactionFailed
  <2>1. /\ turn' = [NoTurn EXCEPT !.n = turn.n] /\ UNCHANGED <<history, events>> /\ openCalls' = TRUE
    BY <1>3 DEF CompactionFailed, End
  <2>2. ~IdsRepeat => Mendable(history) /\ IdsWithin(history, Earlier(turn.n + 1, 0))
    BY <1>1, KnownAtTheEnd DEF HInv
  <2> QED
    BY <1>1, <2>1, <2>2, EndKeepsHInv
<1> QED
  BY <1>2, <1>3 DEF Summarizer

-----------------------------------------------------------------------------
(* The turn's own steps *)

\* A turn that ends with its calls answered.
LEMMA AnsweredEndKeepsHInv ==
    ASSUME IInv, HInv, turn.pc \in {"calls", "answered", "run"}, UNCHANGED <<openCalls, events>>,
           turn' = [NoTurn EXCEPT !.n = turn.n],
           history' = RecordCancelledToolResults(history, turn.n, Ids)
    PROVE  HInv'
<1>1. /\ history' \in Seq(Messages) /\ Headed(history')
      /\ ~openCalls => Good(history')
      /\ ~IdsRepeat => Mendable(history') /\ IdsWithin(history', Earlier(turn.n, turn.round))
  BY RoundAnswered
<1>2. ~IdsRepeat => Mendable(history') /\ IdsWithin(history', Earlier(turn.n + 1, 0))
  BY <1>1, KnownAtTheEnd DEF HInv
<1> QED
  BY <1>1, <1>2, EndKeepsHInv DEF HInv, Typed

LEMMA ContinueKeepsHInv ==
    ASSUME IInv, HInv, turn.pc \in {"calls", "answered", "run"}, UNCHANGED <<openCalls, events>>,
           NEW t, Continue(t),
           t \in {turn, Noted, [Noted EXCEPT !.force_text = TRUE]}
    PROVE  HInv'
<1>1. /\ t.n = turn.n /\ t.before = turn.before /\ t.calls = turn.calls /\ t.round = turn.round
      /\ t.at = turn.at /\ Shaped(t)
  <2>1. Call \in CallType
    BY DEF IInv, Types, Shaped, CallInHand, Call
  <2> QED
    BY <2>1, NotedIsShaped DEF Noted, IInv, Types, Shaped
<1>2. CASE t.cancelled
  BY <1>1, <1>2, AnsweredEndKeepsHInv DEF Continue
<1>3. CASE ~t.cancelled /\ t.at < Len(t.calls)
  <2>1. /\ turn' = [t EXCEPT !.pc = "calls", !.at = t.at + 1, !.verdict = "none"]
        /\ UNCHANGED history
    BY <1>3 DEF Continue, AfterCall, Shaped
  <2>2. /\ turn'.pc = "calls" /\ turn'.n = turn.n /\ turn'.before = turn.before
        /\ turn'.calls = turn.calls /\ turn'.round = turn.round
    BY <1>1, <2>1 DEF Shaped
  <2>3. /\ Round' = Round /\ InHand' /\ InHand /\ ~SendsResults' /\ RoundLeft'
    BY <2>2 DEF Round, InHand, SendsResults, RoundLeft
  <2> QED
    BY <2>1, <2>2, <2>3, QuietKeepsHInv DEF HInv, Typed
<1>4. CASE ~t.cancelled /\ ~(t.at < Len(t.calls))
  <2>1. turn' = [t EXCEPT !.pc = "request", !.what = "results", !.verdict = "none",
                          !.retried = FALSE, !.allow = t.round < MaxToolRounds /\ ~t.force_text]
    BY <1>4 DEF Continue, AfterCall
  <2>2. /\ turn'.pc = "request" /\ turn'.what = "results" /\ turn'.n = turn.n
        /\ turn'.before = turn.before /\ turn'.calls = turn.calls /\ turn'.round = turn.round
        /\ turn'.allow => turn'.round < MaxToolRounds
    BY <1>1, <2>1 DEF Shaped
  <2>3. history' = AppendResults(history, turn.n, Ids)
    BY <1>1, <1>4, <2>1, <2>2 DEF Continue, AfterCall
  <2>4. /\ Round' = Round /\ Round = turn.round /\ ~InHand' /\ SendsResults' /\ RoundLeft'
        /\ turn'.pc # "idle" /\ turn.pc # "idle"
    BY <2>2 DEF Round, InHand, SendsResults, RoundLeft
  <2>5. HandIds' = HandIds /\ KnownIds' = Earlier(turn.n, turn.round)
    BY <2>2, <2>4 DEF HandIds, CallId, KnownIds
  <2>6. /\ history' \in Seq(Messages) /\ Headed(history')
        /\ ~openCalls => Good(history') /\ \A k \in DOMAIN HandIds : Recorded(history', HandIds[k])
        /\ ~IdsRepeat => /\ Mendable(history') /\ IdsWithin(history', Earlier(turn.n, turn.round))
                         /\ RecordedOrNot(history', HandIds)
    BY <2>3, RoundAnswered
  <2>7. Typed' /\ Heads'
    BY <2>2, <2>4, <2>6 DEF HInv, Typed, Heads
  <2>8. ~openCalls => Whole'
    BY <2>2, <2>4, <2>5, <2>6 DEF HInv, Whole
  <2>9. ~IdsRepeat => Mended'
    BY <2>2, <2>4, <2>5, <2>6 DEF HInv, Mended
  <2> QED
    BY <2>4, <2>7, <2>8, <2>9 DEF HInv
<1> QED
  BY <1>2, <1>3, <1>4

LEMMA TurnKeepsHInv == IInv /\ HInv /\ (Turn \/ CallReturns) => HInv'
<1> SUFFICES ASSUME IInv, HInv, Turn \/ CallReturns
             PROVE  HInv'
  OBVIOUS
<1>1. /\ history \in Seq(Messages) /\ Headed(history) /\ openCalls \in BOOLEAN
      /\ turn.n \in 0..MaxTurns /\ turn.round \in 0..MaxToolRounds /\ events \in 0..MaxEvents
      /\ MaxToolRounds \in Nat
  BY TurnAssumption DEF HInv, Typed, Heads, TurnAssumption
<1>2. CASE RequestCancelled
  <2>1. /\ turn.pc = "request" /\ turn' = [NoTurn EXCEPT !.n = turn.n]
        /\ UNCHANGED <<openCalls, events>>
        /\ \/ history' = ForgetTrailingUserMessage(history)
           \/ /\ SendsResults
              /\ history' = RecordCancelledToolResults(history, turn.n, Ids)
    BY <1>2 DEF RequestCancelled, End, SendsResults, IInv, Types, Shaped
  <2>2. Ready(history)
    BY <2>1, RequestIsReady
  <2>3. /\ HandIds \in Seq(CallIds) /\ Ids = HandIds
        /\ Len(HandIds) = Len(turn.calls) /\ DOMAIN HandIds = 1..Len(turn.calls)
        /\ Round = turn.round
        /\ ~IdsRepeat => \A k \in 1..Len(turn.calls) : HandIds[k] \in Earlier(turn.n, Round)
    BY <2>1, HandIdsAre DEF HInv, Round
  <2>4. /\ history' \in Seq(Messages) /\ Headed(history') /\ (~openCalls => Good(history'))
        /\ ~IdsRepeat => /\ Mendable(history')
                         /\ IdsWithin(history', Earlier(turn.n, turn.round))
    <3>1. CASE history' = ForgetTrailingUserMessage(history)
      BY <1>1, <2>2, <3>1, ForgetKeeps DEF Ready
    <3>2. CASE SendsResults /\ history' = RecordCancelledToolResults(history, turn.n, HandIds)
      <4>1. history' \in Seq(Messages) /\ Headed(history')
        BY <1>1, <2>3, <3>2, CancelledKeepsHead DEF Messages
      <4>2. ASSUME ~openCalls
            PROVE  Good(history')
        <5>1. Good(history) /\ \A k \in DOMAIN HandIds : Recorded(history, HandIds[k])
          BY <2>2, <3>2, <4>2 DEF Ready
        <5>2. history' = history
          BY <1>1, <3>2, <5>1, AllRecorded
        <5> QED
          BY <5>1, <5>2
      <4>3. ASSUME ~IdsRepeat
            PROVE  Mendable(history') /\ IdsWithin(history', Earlier(turn.n, turn.round))
        <5>1. /\ Mendable(history) /\ IdsWithin(history, Earlier(turn.n, turn.round))
              /\ \A k \in 1..Len(HandIds) : Recorded(history, HandIds[k])
                                              \/ Uncalled(history, HandIds[k])
              /\ \A k \in 1..Len(HandIds) : HandIds[k] \in Earlier(turn.n, turn.round)
          BY <2>2, <2>3, <3>2, <4>3 DEF Ready, RecordedOrNot
        <5> QED
          BY <1>1, <2>3, <3>2, <5>1, CancelledStaysMended
      <4> QED
        BY <4>1, <4>2, <4>3
    <3> QED
      BY <2>1, <2>3, <3>1, <3>2
  <2>5. ~IdsRepeat => Mendable(history') /\ IdsWithin(history', Earlier(turn.n + 1, 0))
    BY <2>4, KnownAtTheEnd DEF HInv
  <2> QED
    BY <1>1, <2>1, <2>4, <2>5, EndKeepsHInv
<1>3. CASE LoopCancelled
  <2>1. /\ turn.pc = "loop" /\ turn' = [NoTurn EXCEPT !.n = turn.n]
        /\ UNCHANGED <<history, events>> /\ openCalls' = TRUE
    BY <1>3 DEF LoopCancelled, End
  <2>2. ~IdsRepeat => Mendable(history) /\ IdsWithin(history, Earlier(turn.n + 1, 0))
    BY <2>1, KnownAtTheEnd DEF HInv, Mended
  <2> QED
    BY <1>1, <2>1, <2>2, EndKeepsHInv
<1>4. CASE NextRound
  <2>1. /\ turn.pc = "loop" /\ turn.calls # << >> /\ turn.round < MaxToolRounds
        /\ UNCHANGED <<history, openCalls, events>>
        /\ turn'.pc \in {"compact", "calls"} /\ turn'.n = turn.n /\ turn'.before = turn.before
        /\ turn'.calls = turn.calls /\ turn'.round = turn.round + 1
    BY <1>4 DEF NextRound, MoreRounds, IInv, Types, Shaped
  <2>2. turn'.round \in 0..MaxToolRounds
    BY <1>1, <2>1
  <2>3. Round' = Round /\ InHand' /\ InHand /\ ~SendsResults' /\ RoundLeft'
        /\ turn'.pc # "idle" /\ turn.pc # "idle"
    BY <2>1 DEF Round, InHand, SendsResults, RoundLeft
  <2> QED
    BY <1>1, <2>1, <2>2, <2>3, QuietKeepsHInv
<1>5. CASE SkipRepeated
  BY <1>5, ContinueKeepsHInv DEF SkipRepeated
<1>6. CASE StartCall \/ AskUser
  <2>1. /\ turn.pc = "calls" /\ UNCHANGED <<history, openCalls, events>>
        /\ turn'.pc \in {"run", "ask"} /\ turn'.n = turn.n /\ turn'.before = turn.before
        /\ turn'.calls = turn.calls /\ turn'.round = turn.round
    BY <1>6 DEF StartCall, AskUser, Gate, Noted, IInv, Types, Shaped
  <2>2. Round' = Round /\ InHand' /\ InHand /\ ~SendsResults' /\ RoundLeft'
        /\ turn'.pc # "idle" /\ turn.pc # "idle"
    BY <2>1 DEF Round, InHand, SendsResults, RoundLeft
  <2> QED
    BY <1>1, <2>1, <2>2, QuietKeepsHInv
<1>7. CASE DenyCall
  BY <1>7, ContinueKeepsHInv DEF DenyCall, Gate
<1>8. CASE QuestionCancelled
  <2>1. /\ turn.pc = "ask" /\ UNCHANGED <<history, openCalls, events>>
        /\ turn'.pc = "answered" /\ turn'.n = turn.n /\ turn'.before = turn.before
        /\ turn'.calls = turn.calls /\ turn'.round = turn.round
    BY <1>8 DEF QuestionCancelled, IInv, Types, Shaped
  <2>2. Round' = Round /\ InHand' /\ InHand /\ ~SendsResults' /\ RoundLeft'
        /\ turn'.pc # "idle" /\ turn.pc # "idle"
    BY <2>1 DEF Round, InHand, SendsResults, RoundLeft
  <2> QED
    BY <1>1, <2>1, <2>2, QuietKeepsHInv
<1>9. CASE TakeVerdict
  <2>1. turn.pc = "answered" /\ UNCHANGED <<openCalls, events>>
    BY <1>9 DEF TakeVerdict
  <2>2. CASE turn.cancelled \/ turn.verdict = "cancelled"
    BY <1>9, <2>1, <2>2, AnsweredEndKeepsHInv DEF TakeVerdict, End
  <2>3. CASE ~(turn.cancelled \/ turn.verdict = "cancelled") /\ turn.verdict = "approved"
    <3>1. /\ turn' = [turn EXCEPT !.pc = "run"] /\ UNCHANGED history
      BY <1>9, <2>3 DEF TakeVerdict
    <3>2. /\ turn'.pc = "run" /\ turn'.n = turn.n /\ turn'.before = turn.before
          /\ turn'.calls = turn.calls /\ turn'.round = turn.round
      BY <3>1 DEF IInv, Types, Shaped
    <3>3. Round' = Round /\ InHand' /\ InHand /\ ~SendsResults' /\ RoundLeft'
          /\ turn'.pc # "idle" /\ turn.pc # "idle"
      BY <2>1, <3>2 DEF Round, InHand, SendsResults, RoundLeft
    <3> QED
      BY <1>1, <2>1, <3>1, <3>2, <3>3, QuietKeepsHInv
  <2>4. CASE ~(turn.cancelled \/ turn.verdict = "cancelled") /\ turn.verdict # "approved"
    BY <1>9, <2>1, <2>4, ContinueKeepsHInv DEF TakeVerdict
  <2> QED
    BY <2>2, <2>3, <2>4
<1>10. CASE FinishTurn
  <2>1. /\ turn.pc = "loop" /\ turn' = [NoTurn EXCEPT !.n = turn.n]
        /\ UNCHANGED <<openCalls, events>> /\ history' \in {history, turn.before}
    BY <1>10 DEF FinishTurn, End
  <2>2. ~InHand
    BY <1>10 DEF FinishTurn, MoreRounds, InHand, HInv, RoundLeft
  <2>3. /\ turn.before \in Seq(Messages) /\ Headed(turn.before)
        /\ ~openCalls => Good(history) /\ Good(turn.before)
        /\ ~IdsRepeat => /\ Mendable(history) /\ IdsWithin(history, KnownIds)
                         /\ Mendable(turn.before)
                         /\ IdsWithin(turn.before, Earlier(turn.n, 0))
    BY <2>1, <2>2 DEF HInv, Typed, Heads, Whole, Mended
  <2>4. ~IdsRepeat => /\ Mendable(history) /\ IdsWithin(history, Earlier(turn.n + 1, 0))
                      /\ Mendable(turn.before) /\ IdsWithin(turn.before, Earlier(turn.n + 1, 0))
    BY <2>1, <2>3, KnownAtTheEnd DEF HInv
  <2> QED
    BY <1>1, <2>1, <2>3, <2>4, EndKeepsHInv
<1>11. CASE CallReturns
  BY <1>11, ContinueKeepsHInv DEF CallReturns
<1> QED
  BY <1>2, <1>3, <1>4, <1>5, <1>6, <1>7, <1>8, <1>9, <1>10, <1>11 DEF Turn

-----------------------------------------------------------------------------
(* The client's steps *)

LEMMA ClientKeepsHInv == IInv /\ HInv /\ Client => HInv'
<1> SUFFICES ASSUME IInv, HInv, Client
             PROVE  HInv'
  OBVIOUS
<1>1. /\ history \in Seq(Messages) /\ Headed(history) /\ openCalls \in BOOLEAN
      /\ turn.n \in 0..MaxTurns /\ turn.round \in 0..MaxToolRounds /\ events \in 0..MaxEvents
      /\ MaxTurns \in Nat /\ MaxEvents \in Nat
  BY TurnAssumption DEF HInv, Typed, Heads, TurnAssumption
<1>2. CASE StartTurn
  <2> DEFINE g == history'
             m == Prompt(turn.n + 1)
  <2>1. /\ turn.pc = "idle" /\ turn.n < MaxTurns /\ g = Append(history, m)
        /\ turn' = [NoTurn EXCEPT !.pc = "request", !.n = turn.n + 1, !.before = history]
        /\ UNCHANGED <<openCalls, events>>
    BY <1>2 DEF StartTurn
  <2>2. turn.n + 1 \in 0..MaxTurns
    BY <1>1, <2>1
  <2>3. m \in Messages /\ m.calls = << >> /\ ~IsTool(m) /\ ~IsSystem(m)
    BY <2>2, MessagesAre
  <2>4. MakesNewCalls(history, m) /\ Range(m.calls) = {}
    BY <2>3 DEF MakesNewCalls, Range
  <2>5. /\ turn'.pc = "request" /\ turn'.what = "prompt" /\ turn'.n = turn.n + 1
        /\ turn'.round = 0 /\ turn'.before = history
    BY <2>1 DEF NoTurn
  <2>6. /\ ~InHand /\ ~InHand' /\ ~SendsResults' /\ KnownIds = Earlier(turn.n + 1, 0)
        /\ KnownIds' = Earlier(turn.n + 1, 0)
    BY <2>1, <2>5 DEF InHand, SendsResults, KnownIds, Round
  <2>7. /\ ~openCalls => Good(history)
        /\ ~IdsRepeat => Mendable(history) /\ IdsWithin(history, Earlier(turn.n + 1, 0))
    BY <2>6 DEF HInv, Whole, Mended
  <2> HIDE DEF g, m
  <2>8. g \in Seq(Messages) /\ Headed(g) /\ (Good(history) => Good(g))
    <3>1. g \in Seq(Messages)
      BY <1>1, <2>1, <2>3
    <3>2. /\ Headed(history) => Headed(g)
          /\ Sound(history) => Sound(g)
          /\ Once(history) => Once(g)
          /\ MetTo(history, Len(history)) => MetTo(g, Len(g))
      BY <1>1, <2>1, <2>3, AppendKeeps
    <3> QED
      BY <1>1, <3>1, <3>2 DEF Good
  <2>9. /\ Mendable(history) => Mendable(g)
        /\ \A ids : IdsWithin(history, ids) => IdsWithin(g, ids)
    BY <1>1, <2>1, <2>3, <2>4, AppendMends
  <2>10. Typed' /\ RoundLeft' /\ Heads'
    <3>1. 0 \in 0..MaxToolRounds /\ 0 < MaxToolRounds
      BY TurnAssumption DEF TurnAssumption
    <3> QED
      BY <1>1, <2>1, <2>2, <2>5, <2>8, <3>1 DEF HInv, Typed, RoundLeft, Heads, g
  <2>11. ~openCalls => Whole'
    BY <2>5, <2>6, <2>7, <2>8 DEF Whole, g
  <2>12. ~IdsRepeat => Mended'
    BY <2>5, <2>6, <2>7, <2>9 DEF Mended, g
  <2> QED
    BY <2>1, <2>10, <2>11, <2>12 DEF HInv
<1>3. CASE UserAnswers
  <2>1. PICK verdict : turn' = [turn EXCEPT !.pc = "answered", !.verdict = verdict]
    BY <1>3 DEF UserAnswers
  <2>2. /\ turn.pc = "ask" /\ UNCHANGED <<history, openCalls, events>>
        /\ turn'.pc = "answered" /\ turn'.n = turn.n /\ turn'.before = turn.before
        /\ turn'.calls = turn.calls /\ turn'.round = turn.round
    BY <1>3, <2>1 DEF UserAnswers, IInv, Types, Shaped
  <2>3. Round' = Round /\ InHand' /\ InHand /\ ~SendsResults' /\ RoundLeft'
        /\ turn'.pc # "idle" /\ turn.pc # "idle"
    BY <2>2 DEF Round, InHand, SendsResults, RoundLeft
  <2> QED
    BY <1>1, <2>2, <2>3, QuietKeepsHInv
<1>4. CASE Cancel
  <2>1. /\ turn.pc # "idle" /\ UNCHANGED <<history, openCalls>> /\ events' \in 0..MaxEvents
        /\ turn'.pc = turn.pc /\ turn'.n = turn.n /\ turn'.before = turn.before
        /\ turn'.calls = turn.calls /\ turn'.round = turn.round /\ turn'.what = turn.what
        /\ turn'.allow = turn.allow
    BY <1>1, <1>4 DEF Cancel, Event, IInv, Types, Shaped
  <2>2. Round' = Round /\ (InHand' <=> InHand) /\ (SendsResults' => SendsResults) /\ RoundLeft'
    BY <2>1 DEF Round, InHand, SendsResults, RoundLeft, HInv
  <2> QED
    BY <1>1, <2>1, <2>2, QuietKeepsHInv
<1>5. CASE ChangePermissionMode
  <2>1. UNCHANGED <<history, turn, openCalls>> /\ events' \in 0..MaxEvents
    BY <1>1, <1>5 DEF ChangePermissionMode, Event
  <2> QED
    BY <2>1 DEF HInv, Typed, RoundLeft, Heads, Whole, Mended, InHand, HandIds, CallId, Round,
                KnownIds, SendsResults
<1>6. ASSUME turn.pc = "idle", turn' = turn, events' \in 0..MaxEvents,
             history' \in Seq(Messages), Headed(history'), openCalls' \in BOOLEAN,
             ~openCalls' => Good(history'),
             ~IdsRepeat => Mendable(history') /\ IdsWithin(history', Earlier(turn.n + 1, 0))
      PROVE  HInv'
  <2>1. ~InHand' /\ ~SendsResults' /\ turn'.pc = "idle"
    BY <1>6 DEF InHand, SendsResults
  <2>2. Typed' /\ RoundLeft' /\ Heads'
    BY <1>6, <2>1 DEF HInv, Typed, RoundLeft, Heads
  <2> QED
    BY <1>6, <2>1, <2>2 DEF HInv, Whole, Mended, KnownIds
<1> DEFINE m == history[1]
<1>7. m \in Messages /\ IsSystem(m) /\ SubSeq(history, 1, 1) = <<m>>
  <2>1. 1 \in 1..Len(history) /\ IsSystem(history[1])
    BY <1>1 DEF Headed
  <2>2. SubSeq(history, 1, 1) = <<history[1]>>
    BY <1>1, HeadLeads
  <2> QED
    BY <1>1, <2>1, <2>2
<1> HIDE DEF m
<1>8. CASE ClearConversation
  <2>1. /\ turn.pc = "idle" /\ turn' = turn /\ events' \in 0..MaxEvents
        /\ history' = <<m>> /\ openCalls' = FALSE
    BY <1>1, <1>7, <1>8 DEF ClearConversation, Event
  <2>2. /\ history' \in Seq(Messages) /\ Headed(history') /\ Good(history') /\ Mendable(history')
        /\ \A ids : IdsWithin(history', ids)
    BY <1>7, <2>1, AloneIs DEF Messages
  <2> QED
    BY <1>6, <2>1, <2>2
<1>9. CASE SwitchModel
  <2> DEFINE carried == CarryoverHistory(history)
             told == CarryoverHistory(EngineSnapshot(FlattenForEngine(carried)))
             g == history'
  <2>1. PICK onDevice \in BOOLEAN :
          /\ g = AdoptCarryover(SubSeq(history, 1, 1), IF onDevice THEN told ELSE carried)
          /\ openCalls' = (openCalls /\ IdsRepeat /\ ~onDevice)
    BY <1>9 DEF SwitchModel
  <2>2. turn.pc = "idle" /\ turn' = turn /\ events' \in 0..MaxEvents
    BY <1>1, <1>9 DEF SwitchModel, Event
  <2>3. carried \in Seq(Messages)
    BY <1>1, CarryIsTyped DEF Messages
  <2>4. told \in Seq(Messages) /\ NoCalls(told) /\ NoSystem(told)
    <3>1. FlattenForEngine(carried) \in Seq(Messages) /\ NoCalls(FlattenForEngine(carried))
      BY <2>3, FlattenedIs DEF Messages
    <3>2. /\ EngineSnapshot(FlattenForEngine(carried)) \in Seq(Messages)
          /\ NoCalls(EngineSnapshot(FlattenForEngine(carried)))
      BY <3>1, SnapshotIs DEF Messages
    <3> QED
      BY <3>2, CarriedLightly DEF Messages
  <2> HIDE DEF told, g
  <2>5. CASE onDevice
    <3>1. g = <<m>> \o told /\ openCalls' = FALSE
      BY <1>7, <2>1, <2>4, <2>5, AdoptionIs DEF Messages
    <3>2. /\ g \in Seq(Messages) /\ Headed(g) /\ Good(g) /\ Mendable(g)
          /\ \A ids : IdsWithin(g, ids)
      BY <1>7, <2>4, <3>1, LightIs DEF Messages
    <3> QED
      BY <1>6, <2>2, <3>1, <3>2 DEF g
  <2>6. CASE ~onDevice
    <3>1. g = <<m>> \o carried
      BY <1>7, <2>1, <2>3, <2>6, AdoptionIs DEF Messages
    <3>2. g = <<history[1]>> \o CarryoverHistory(history)
      BY <3>1 DEF m
    <3>3. g \in Seq(Messages) /\ \E o : Carries(g, history, o)
      BY <1>1, <3>2, CarriedIs DEF Messages
    <3>4. ~InHand /\ KnownIds = Earlier(turn.n + 1, 0)
      BY <2>2 DEF InHand, KnownIds
    <3>5. ASSUME ~openCalls
          PROVE  g = history /\ Good(history)
      <4>1. Good(history)
        BY <3>4, <3>5 DEF HInv, Whole
      <4> QED
        BY <1>1, <3>2, <4>1, CarryWhole DEF Messages
    <3>6. ASSUME ~IdsRepeat
          PROVE  Headed(g) /\ Good(g) /\ Mendable(g) /\ IdsWithin(g, Earlier(turn.n + 1, 0))
      <4>1. Mendable(history) /\ IdsWithin(history, Earlier(turn.n + 1, 0))
        BY <3>4, <3>6 DEF HInv, Mended
      <4>2. PICK o : Carries(g, history, o)
        BY <3>3
      <4>3. /\ Headed(g) /\ Good(g) /\ Mendable(g)
            /\ \A ids : IdsWithin(history, ids) => IdsWithin(g, ids)
        BY <1>1, <3>3, <4>1, <4>2, CarryMends DEF Messages
      <4> QED
        BY <4>1, <4>3
    <3>7. Headed(g)
      <4>1. PICK o : Carries(g, history, o)
        BY <3>3
      <4> QED
        BY <1>1, <3>3, <4>1, CarriesHead DEF Messages
    <3>8. /\ openCalls' \in BOOLEAN
          /\ ~openCalls' => Good(g)
      BY <2>1, <2>6, <3>5, <3>6, TurnAssumption DEF TurnAssumption
    <3> QED
      BY <1>6, <2>2, <3>3, <3>6, <3>7, <3>8 DEF g
  <2> QED
    BY <2>5, <2>6
<1> QED
  BY <1>2, <1>3, <1>4, <1>5, <1>8, <1>9 DEF Client

-----------------------------------------------------------------------------
(* The theorems *)

LEMMA InitHasHInv == Init => HInv
<1> SUFFICES ASSUME Init
             PROVE  HInv
  OBVIOUS
<1>1. PICK kind \in SystemKinds : history = <<System(kind)>>
  BY DEF Init
<1> DEFINE m == System(kind)
<1>2. 0 \in 0..MaxTurns /\ 0 \in 0..MaxToolRounds /\ 0 \in 0..MaxEvents
  BY TurnAssumption DEF TurnAssumption
<1>3. m \in Messages /\ IsSystem(m)
  <2>1. << >> \in Seq(CallIds)
    OBVIOUS
  <2> QED
    BY <1>2, <2>1 DEF Messages, MessageType, System, Message, Roles, Kinds, IsSystem
<1> HIDE DEF m
<1>4. /\ history \in Seq(Messages) /\ Headed(history) /\ Good(history) /\ Mendable(history)
      /\ \A ids : IdsWithin(history, ids)
  BY <1>1, <1>3, AloneIs DEF Messages, m
<1>5. /\ turn.pc = "idle" /\ turn.n = 0 /\ turn.round = 0 /\ turn.before = << >>
      /\ openCalls = FALSE /\ events = 0
  BY DEF Init, NoTurn
<1>6. ~InHand /\ ~SendsResults
  BY <1>5 DEF InHand, SendsResults
<1>7. << >> \in Seq(Messages)
  OBVIOUS
<1>8. Typed /\ RoundLeft /\ Heads
  BY <1>2, <1>4, <1>5, <1>7 DEF Typed, RoundLeft, Heads
<1> QED
  BY <1>4, <1>5, <1>6, <1>8 DEF HInv, Whole, Mended

\* Where the turn's calls are in the conversation it sends.
THEOREM HistoryInvariant == Spec => [](IInv /\ HInv)
<1>1. IInv /\ HInv /\ [Next]_vars => HInv'
  <2>1. ASSUME HInv, UNCHANGED vars
        PROVE  HInv'
    <3>1. UNCHANGED <<history, turn, openCalls, events>>
      BY <2>1 DEF vars
    <3>2. HandIds' = HandIds /\ KnownIds' = KnownIds /\ InHand' = InHand
          /\ SendsResults' = SendsResults
      BY <3>1 DEF HandIds, CallId, KnownIds, Round, InHand, SendsResults
    <3> QED
      BY <2>1, <3>1, <3>2 DEF HInv, Typed, RoundLeft, Heads, Whole, Mended
  <2> QED
    BY <2>1, EndpointKeepsHInv, SummarizerKeepsHInv, TurnKeepsHInv, ClientKeepsHInv DEF Next
<1>2. Spec => []IInv
  BY TurnInvariant
<1> QED
  BY <1>1, <1>2, InitHasHInv, PTL DEF Spec

\* The type of every variable, the messages of the conversation included.
THEOREM TypeCorrect == Spec => []TypeOK
<1>1. IInv /\ HInv => TypeOK
  <2> SUFFICES ASSUME IInv, HInv
               PROVE  TypeOK
    OBVIOUS
  <2>1. turn \in TurnType
    BY DEF IInv, Types, Shaped, HInv, Typed, TurnType, Messages
  <2> QED
    BY <2>1 DEF IInv, Types, HInv, Typed, TypeOK, Messages
<1> QED
  BY <1>1, HistoryInvariant, PTL

\* A conversation sent to the endpoint answers every call once, right behind
\* the message that makes it, unless a turn left the calls of a reply open.
THEOREM RequestsAreAnswered == Spec => []RequestsAnswerEveryCall
<1>1. HInv => RequestsAnswerEveryCall
  <2> SUFFICES ASSUME HInv, turn.pc = "request", ~openCalls
               PROVE  Paired(history)
    BY DEF RequestsAnswerEveryCall
  <2>1. Good(history) /\ history \in Seq(Messages)
    BY DEF HInv, Whole, InHand, Typed
  <2> QED
    BY <2>1, PairedIs DEF Good, Messages
<1> QED
  BY <1>1, HistoryInvariant, PTL
=============================================================================
