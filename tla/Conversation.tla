---------------------------- MODULE Conversation ----------------------------
(***************************************************************************)
(* The message list of an OpenAI-compatible conversation, and the          *)
(* operations siGit performs on it (crates/cli/src/backend.rs): appending  *)
(* tool results, taking a prompt back, carrying a conversation over to     *)
(* another model, and compacting one that outgrew the context window.      *)
(*                                                                         *)
(* A message is its role, the turn it belongs to, what kind of text it     *)
(* holds and, by id, the tool calls it makes or answers.  Tokens are       *)
(* weights.  Strict endpoints want every call answered, and every result   *)
(* behind its call: Paired says so.                                        *)
(***************************************************************************)
EXTENDS Integers, SequencesExt, Selections

CONSTANTS
    Budget,         \* DEFAULT_CONTEXT_TOKEN_BUDGET
    PinCap,         \* PINNED_MESSAGE_TOKEN_CAP
    KeepLast,       \* COMPACT_KEEP_LAST
    LongTurns,      \* turns whose prompt is LongWeight tokens
    LongWeight,     \* tokens of such a prompt, and of a long system message
    ResultWeight    \* tokens of a tool result; any other message is 1

ASSUME ConversationAssumption ==
    /\ {Budget, PinCap, LongWeight, ResultWeight} \subseteq Nat
    /\ KeepLast \in Nat \ {0}
    /\ LongTurns \subseteq Nat

Roles == {"system", "user", "assistant", "tool"}
SystemKinds == {"system", "longSystem"}
Kinds == SystemKinds \cup {"prompt", "note", "summary", "placeholder", "text", "silent", "result"}

\* An id says of which turn and round a call is, and its place there.
CallIds == Nat \X Nat \X Nat

MessageType(turns) == [role : Roles, kind : Kinds, turn : turns, calls : Seq(CallIds)]

Message(role, kind, turn, calls) ==
    [role |-> role, kind |-> kind, turn |-> turn, calls |-> calls]

System(kind) == Message("system", kind, 0, << >>)
Prompt(turn) == Message("user", "prompt", turn, << >>)
Note(turn)   == Message("user", "note", turn, << >>)
Summary      == Message("user", "summary", 0, << >>)
Placeholder  == Message("user", "placeholder", 0, << >>)
Assistant(kind, turn, ids) == Message("assistant", kind, turn, ids)
ToolMessage(turn, id) == Message("tool", "result", turn, <<id>>)

IsSystem(m)    == m.role = "system"
IsTool(m)      == m.role = "tool"
IsAssistant(m) == m.role = "assistant"

\* Whether message i of h makes the call id.
Calls(h, i, id) == IsAssistant(h[i]) /\ id \in Range(h[i].calls)
Answers(h, i, id) == IsTool(h[i]) /\ h[i].calls[1] = id

-----------------------------------------------------------------------------
(* What an endpoint accepts: the calls of an assistant message are answered, *)
(* each once, by the tool messages right behind it.                          *)

Behind(h, i) == {j \in (i + 1)..Len(h) : \A k \in (i + 1)..j : IsTool(h[k])}

Paired(h) ==
    \A i \in DOMAIN h :
        /\ IsAssistant(h[i]) =>
             \A c \in DOMAIN h[i].calls :
                 Cardinality({j \in Behind(h, i) : Answers(h, j, h[i].calls[c])}) = 1
        /\ IsTool(h[i]) =>
             \E j \in 1..(i - 1) : i \in Behind(h, j) /\ Calls(h, j, h[i].calls[1])

-----------------------------------------------------------------------------
(* Weights *)

Long(m) == m.kind = "longSystem" \/ (m.kind = "prompt" /\ m.turn \in LongTurns)

Weight(m) == IF Long(m) THEN LongWeight ELSE IF m.kind = "result" THEN ResultWeight ELSE 1

EstimateTokens(h) ==
    LET Sent(Test(_)) == Cardinality({i \in DOMAIN h : Test(h[i])})
    IN  Len(h) + Sent(Long) * (LongWeight - 1) + Sent(IsTool) * (ResultWeight - 1)

OverBudget(h) == EstimateTokens(h) > Budget

-----------------------------------------------------------------------------
(* Compaction *)

\* The number of messages at the front of h that Test accepts.
Leading(h, Test(_)) ==
    CHOOSE n \in 0..Len(h) : /\ \A i \in 1..n : Test(h[i])
                             /\ n < Len(h) => ~Test(h[n + 1])

SkipTools(h) == SubSeq(h, Leading(h, IsTool) + 1, Len(h))

\* Derived text is not an opening request, and a long one is summarized too.
IsPinnable(m) == m.role = "user" /\ m.kind \notin {"summary", "placeholder"} /\ Weight(m) <= PinCap

TakePinned(rest) == IF rest # << >> /\ IsPinnable(rest[1]) THEN SubSeq(rest, 1, 1) ELSE << >>

NoRebuild == << >>

\* The newest messages that fit behind prefix and the placeholder.  A call is
\* dropped with its results, so a kept suffix never starts with a result.
TruncateToBudget(prefix, tail) ==
    LET Rebuild(k) == prefix \o <<Placeholder>> \o SubSeq(tail, k, Len(tail))
        fits == {k \in 1..(Len(tail) + 1) :
                    /\ k <= Len(tail) => ~IsTool(tail[k])
                    /\ ~OverBudget(Rebuild(k))}
    IN  IF fits = {} THEN NoRebuild ELSE Rebuild(Min(fits))

TruncateKeepingPin(system, pin, tail) ==
    LET pinned == TruncateToBudget(system \o pin, tail)
    IN  IF pin # << >> /\ pinned # NoRebuild THEN pinned ELSE TruncateToBudget(system, tail)

\* compact_history: what the history becomes, given whether the endpoint wrote
\* the summary.  NoRebuild: it fails, and the history is left as it is.
CompactHistory(h, summarized) ==
    LET system == SubSeq(h, 1, Leading(h, IsSystem))
        rest == Picked(h, {i \in DOMAIN h : ~IsSystem(h[i])})
        pin == TakePinned(rest)
        unpinned == SubSeq(rest, Len(pin) + 1, Len(rest))
        first == Max({1, Len(unpinned) - KeepLast + 1})
        tail == SkipTools(SubSeq(unpinned, first, Len(unpinned)))
        full == system \o pin \o <<Summary>> \o tail
    IN  IF ~summarized THEN TruncateKeepingPin(system, pin, tail)
        ELSE IF OverBudget(full) THEN system \o <<Summary>> \o tail ELSE full

-----------------------------------------------------------------------------
(* Tool results *)

AppendResults(h, turn, ids) == h \o [i \in DOMAIN ids |-> ToolMessage(turn, ids[i])]

\* Mutant: what the request under way has appended is appended again.
RecordCancelledTwice(h, turn, ids) == AppendResults(h, turn, ids)

\* The answers to cancelled calls, except those that the request under way has
\* appended already: an id may be used again in a later round, so its answer is
\* looked for behind the last message that makes the call.
RecordCancelledToolResults(h, turn, ids) ==
    LET Behindmost(j, id) == /\ \E i \in 1..(j - 1) : Calls(h, i, id)
                             /\ \A i \in (j + 1)..Len(h) : ~Calls(h, i, id)
        recorded == {h[j].calls[1] : j \in {k \in DOMAIN h :
                        IsTool(h[k]) /\ Behindmost(k, h[k].calls[1])}}
    IN  AppendResults(h, turn, Picked(ids, {k \in DOMAIN ids : ids[k] \notin recorded}))

ForgetTrailingUserMessage(h) ==
    IF h # << >> /\ Last(h).role = "user" THEN Front(h) ELSE h

-----------------------------------------------------------------------------
(* Carrying a conversation over to another backend *)

HasText(m) == m.kind # "silent"

\* Every non-system message, without the calls nobody answered and the
\* results of calls that are not there.
CarryoverHistory(h) ==
    LET answered == {h[i].calls[1] : i \in {j \in DOMAIN h : IsTool(h[j])}}
        kept == [i \in DOMAIN h |->
                    IF IsAssistant(h[i])
                    THEN [h[i] EXCEPT !.calls =
                             Picked(@, {c \in DOMAIN h[i].calls : h[i].calls[c] \in answered})]
                    ELSE h[i]]
        Carried(i) ==
            CASE IsSystem(h[i]) -> FALSE
              [] IsAssistant(h[i]) -> h[i].calls = << >> \/ kept[i].calls # << >> \/ HasText(h[i])
              [] IsTool(h[i]) -> \E j \in 1..(i - 1) : Calls(kept, j, h[i].calls[1])
              [] OTHER -> TRUE
    IN  Picked(kept, {i \in DOMAIN h : Carried(i)})

\* Behind the system messages the backend seeded for itself.
AdoptCarryover(h, carried) ==
    IF carried = << >> THEN h ELSE SubSeq(h, 1, Leading(h, IsSystem)) \o carried

\* LocalBackend: the engine is given plain text.  An answer that only makes
\* calls is dropped, a result becomes a message of the user's.
FlattenForEngine(h) ==
    LET Plain(m) == IF IsTool(m) THEN Message("user", "result", m.turn, << >>)
                    ELSE [m EXCEPT !.calls = << >>]
        Replayed(m) == ~IsAssistant(m) \/ HasText(m)
        replayed == Picked(h, {i \in DOMAIN h : Replayed(h[i])})
    IN  [i \in DOMAIN replayed |-> Plain(replayed[i])]

\* What LocalBackend reports: its engine keeps no tool messages.
EngineSnapshot(h) ==
    LET told == Picked(h, {i \in DOMAIN h : ~IsTool(h[i])})
    IN  [i \in DOMAIN told |-> [told[i] EXCEPT !.calls = << >>]]

\* LocalBackend::compact_history: the same on the plain text it reports.
CompactEngine(h, summarized) == CompactHistory(EngineSnapshot(h), summarized)
=============================================================================
