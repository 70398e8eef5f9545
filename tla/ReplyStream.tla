----------------------------- MODULE ReplyStream -----------------------------
(***************************************************************************)
(* A reply on its way to the history and to the client: the text deltas of *)
(* consume_stream (crates/cli/src/backend.rs) pass the scanner for tool    *)
(* calls written as text (inline_tool_calls.rs), the filter for made-up    *)
(* harness markup (harness_markup.rs) and the repetition guard             *)
(* (repetition.rs); the client's bubble is main.rs's StreamedReply.        *)
(* Without a sink the reply is one JSON response, which consume_json reads *)
(* with the same scanner and filter.  A reply that was only a broken call, *)
(* or a loop, is asked for once more (complete).                           *)
(*                                                                         *)
(* A reply is a sequence of pieces, and a delta brings one or more of      *)
(* them: an endpoint may cut its stream anywhere.  A tag that can be cut   *)
(* in two is two pieces, of which the first alone is plain text:           *)
(*   o1 o2, c1 c2   <minimax:tool_call> and its closing tag                *)
(*   ok, bad        the inside of a call that parses, or does not          *)
(*   r, R           a wrapper around the answer, its closer                *)
(*   k, K           a wrapper around the model's reasoning, its closer     *)
(*   s1 s2, S       <system_...> and its closing tag                       *)
(*   h1 h2, H       <think> and </think>                                   *)
(*   w              a word of a repetition loop                            *)
(*   t, and anything else: text                                            *)
(* "break" is the paragraph break that the client puts between replies.    *)
(***************************************************************************)
EXTENDS Integers, SequencesExt

CONSTANTS
    Replies,        \* the replies a model may write: sequences of pieces
    MaxReplies,     \* requests of one prompt, with tool rounds in between
    LoopLength      \* words after which the guard calls it a loop

ASSUME StreamAssumption == {MaxReplies, LoopLength} \subseteq Nat \ {0}

VARIABLES
    reply,      \* what the model writes: `whole`, and `left` to arrive, and the
                \* number of calls it makes through the interface, behind the text
    request,    \* complete, see NoRequest
    stream,     \* consume_stream, see NoStream
    bubble,     \* StreamedReply, and what has been sent to the client
    messages,   \* the assistant messages of the history, [text, calls]
    result      \* the TurnResult of the request, [text, calls]

streamVars == <<reply, request, stream, bubble, messages, result>>

NoResult == [text |-> << >>, calls |-> 0]

NoRequest == [asked |-> 0,              \* requests so far
              allow |-> TRUE,           \* allow_tool_calls
              first |-> 1,              \* where its messages begin in `messages`
              again |-> FALSE,          \* the reply is to be asked for once more
              retried |-> FALSE,
              sink |-> TRUE]            \* FALSE: nobody listens to a stream

NoStream == [live |-> FALSE,
             pending |-> << >>,         \* StreamScanner::pending
             tag |-> << >>,             \* MarkupFilter::tag
             dropping |-> FALSE,        \* a system block is open ...
             held |-> << >>,            \* ... and this is its inside
             text |-> << >>, calls |-> 0, malformed |-> 0,
             sunk |-> << >>,            \* text chunks for the client of the last delta
             degenerate |-> FALSE]

NoBubble == [assembled |-> << >>, sent |-> << >>, paragraph |-> FALSE, wire |-> << >>]

-----------------------------------------------------------------------------
(* Pieces *)

PairAt(s, i, a, b) == i \in 1..(Len(s) - 1) /\ s[i] = a /\ s[i + 1] = b
OpensAt(s, i) == PairAt(s, i, "o1", "o2") \/ (i \in DOMAIN s /\ s[i] \in {"r", "k"})
Openers(s) == {i \in DOMAIN s : OpensAt(s, i)}
Closes(s) == {i \in DOMAIN s : PairAt(s, i, "c1", "c2")}
Places(s, piece) == {i \in DOMAIN s : s[i] = piece}

From(s, i) == SubSeq(s, i, Len(s))
Upto(s, i) == SubSeq(s, 1, i)

\* looks_like_xml_call: a name, a tag, or nothing behind the opening tag.
LooksLikeCall(inside) == inside = << >> \/ Head(inside) \notin {"t", "w"}

\* Where the closer of a wrapper is, and 0 if it is not there.
CloserOf(s) ==
    LET at == Places(s, IF s[1] = "r" THEN "R" ELSE "K") IN IF at = {} THEN 0 ELSE Min(at)

Word == "text"
TextEvent(s) == [kind |-> Word, body |-> s]
CallEvent == [kind |-> "call", body |-> << >>]
MalformedEvent == [kind |-> "malformed", body |-> << >>]

BlockEvent(block, inside) ==
    IF inside = <<"ok">> THEN CallEvent
    ELSE IF LooksLikeCall(inside) THEN MalformedEvent ELSE TextEvent(block)

-----------------------------------------------------------------------------
(* The scanner *)

\* finish: what is left when the text has ended.
Finish(pending) ==
    IF pending = << >> THEN << >>
    ELSE IF PairAt(pending, 1, "o1", "o2") /\ LooksLikeCall(From(pending, 3))
    THEN <<MalformedEvent>> ELSE <<TextEvent(pending)>>

\* Mutant: half a tag at the end is text.
KeptNothing(s) == 0

\* Half a tag at the end is kept.
Kept(s) == IF s # << >> /\ Last(s) = "o1" THEN 1 ELSE 0

Scanned(events, pending) == [events |-> events, pending |-> pending]

\* drain: the events of what is pending, and what stays pending.
RECURSIVE Drain(_), DrainBlock(_), DrainWrapper(_)

Prefixed(event, scanned) == [scanned EXCEPT !.events = event \o @]

Drain(s) ==
    IF Openers(s) = {}
    THEN LET n == Len(s) - Kept(s)
         IN  Scanned(IF n = 0 THEN << >> ELSE <<TextEvent(Upto(s, n))>>, From(s, n + 1))
    ELSE LET i == Min(Openers(s))
             rest == IF s[i] = "o1" THEN DrainBlock(From(s, i)) ELSE DrainWrapper(From(s, i))
         IN  Prefixed(IF i = 1 THEN << >> ELSE <<TextEvent(Upto(s, i - 1))>>, rest)

DrainBlock(s) ==
    IF Closes(s) = {} THEN Scanned(<< >>, s)
    ELSE LET c == Min(Closes(s))
         IN  Prefixed(<<BlockEvent(Upto(s, c + 1), SubSeq(s, 3, c - 1))>>, Drain(From(s, c + 2)))

\* The answer's wrapper is taken off, the reasoning's goes with its inside.  A
\* wrapper that is still open does not hold up a call behind it.
DrainWrapper(s) ==
    LET c == CloserOf(s)
        inside == Drain(SubSeq(s, 2, c - 1))
        next == Openers(From(s, 2))
    IN  IF c > 0
        THEN Prefixed(IF s[1] = "r" THEN inside.events \o Finish(inside.pending) ELSE << >>,
                      Drain(From(s, c + 1)))
        ELSE IF next = {} THEN Scanned(<< >>, s)
        ELSE Prefixed(<<TextEvent(Upto(s, Min(next)))>>, Drain(From(s, Min(next) + 1)))

-----------------------------------------------------------------------------
(* The filter for harness markup, piece by piece *)

Passed(st, s) == [st EXCEPT !.text = @ \o s, !.sunk = Append(@, s)]

Marked(f, piece) ==
    IF f.dropping
    THEN IF piece = "S" THEN [f EXCEPT !.dropping = FALSE, !.held = << >>]
         ELSE [f EXCEPT !.held = Append(@, piece)]
    ELSE IF f.tag # << >> /\ piece = "s2" THEN [f EXCEPT !.tag = << >>, !.dropping = TRUE]
    ELSE IF piece = "s1" THEN [f EXCEPT !.out = @ \o f.tag, !.tag = <<piece>>]
    ELSE [f EXCEPT !.out = @ \o f.tag \o (IF piece = "S" THEN << >> ELSE <<piece>>),
                   !.tag = << >>]

\* push: the text of one event.  What comes out is shown at once.
Mark(st, s) ==
    LET f == FoldLeft(Marked, [tag |-> st.tag, dropping |-> st.dropping, held |-> st.held,
                               out |-> << >>], s)
        marked == [st EXCEPT !.tag = f.tag, !.dropping = f.dropping, !.held = f.held]
    IN  IF f.out = << >> THEN marked ELSE Passed(marked, f.out)

\* finish: a block that never closed is given back without its opening tag.
MarkupLeft(st) == st.tag \o st.held

-----------------------------------------------------------------------------
(* The repetition guard *)

LoopsAt(s, i) == i + LoopLength - 1 \in DOMAIN s /\ \A j \in i..(i + LoopLength - 1) : s[j] = "w"
LoopIn(s) == {i \in DOMAIN s : LoopsAt(s, i)}

\* The text before the loop is the reply worth keeping.
CutLoop(s) == IF LoopIn(s) = {} THEN s ELSE Upto(s, Min(LoopIn(s)) - 1)

-----------------------------------------------------------------------------
(* consume_stream *)

\* One event of the scanner.  Nothing behind a loop counts.
Consumed(st, event) ==
    IF st.degenerate THEN st
    ELSE CASE event.kind = "call" -> [st EXCEPT !.calls = @ + 1]
           [] event.kind = "malformed" -> [st EXCEPT !.malformed = @ + 1]
           [] OTHER -> LET m == Mark(st, event.body)
                       IN  [m EXCEPT !.degenerate = LoopIn(m.text) # {}]

Pushed(st, delta) ==
    LET scanned == Drain(st.pending \o delta)
    IN  FoldLeft(Consumed, [st EXCEPT !.pending = scanned.pending, !.sunk = << >>], scanned.events)

\* The stream has ended: what is held back is flushed, or the loop is cut off
\* and a notice shown in its place.
Flushed(st) ==
    IF st.degenerate
    THEN [st EXCEPT !.live = FALSE, !.text = CutLoop(@), !.sunk = << <<"notice">> >>]
    ELSE LET last == FoldLeft(Consumed, [st EXCEPT !.sunk = << >>], Finish(st.pending))
             left == MarkupLeft(last)
         IN  [(IF left = << >> THEN last ELSE Passed(last, left)) EXCEPT !.live = FALSE]

-----------------------------------------------------------------------------
(* StreamedReply *)

RECURSIVE StripThink(_)

ThinkAt(s) == {i \in DOMAIN s : PairAt(s, i, "h1", "h2")}

\* trim, which takes a break at either end away
Trimmed(s) ==
    LET front == IF s # << >> /\ Head(s) = "break" THEN Tail(s) ELSE s
    IN  IF front # << >> /\ Last(front) = "break" THEN Front(front) ELSE front

\* strip_think_blocks, the visible part.  Behind visible text only one block is
\* taken out.
StripThink(s) ==
    IF ThinkAt(s) = {} THEN Trimmed(s)
    ELSE LET i == Min(ThinkAt(s))
             before == Upto(s, i - 1)
             ends == {j \in Places(s, "H") : j > i}
             after == From(s, Min(ends) + 1)
         IN  IF ends = {} THEN Trimmed(before)
             ELSE IF Trimmed(before) # << >> THEN Trimmed(before \o after)
             ELSE StripThink(after)

\* push: the text that this piece reveals.  If the visible text changed behind
\* what was sent, nothing is sent for it.
Revealed(b, s) ==
    LET assembled == b.assembled \o (IF b.paragraph THEN <<"break">> ELSE << >>) \o s
        visible == StripThink(assembled)
        extra == IF IsPrefix(b.sent, visible) THEN From(visible, Len(b.sent) + 1) ELSE << >>
    IN  [assembled |-> assembled, sent |-> visible, paragraph |-> FALSE, wire |-> b.wire \o extra]

-----------------------------------------------------------------------------
StreamInit ==
    /\ reply = [whole |-> << >>, left |-> << >>, structured |-> 0]
    /\ request \in {NoRequest, [NoRequest EXCEPT !.sink = FALSE]}
    /\ stream = NoStream
    /\ bubble = NoBubble
    /\ messages = << >>
    /\ result = NoResult

ModelAnswers ==
    /\ \E s \in Replies, n \in 0..1 : reply' = [whole |-> s, left |-> s, structured |-> n]
    /\ stream' = [NoStream EXCEPT !.live = TRUE]

\* A request goes out: the prompt, or the results of the calls that the reply
\* before it made, which have interrupted the prose.
AskModel ==
    /\ ~stream.live /\ ~request.again /\ request.asked < MaxReplies
    /\ request.asked > 0 => result.calls > 0
    /\ ModelAnswers
    /\ \E allow \in (IF request.asked = 0 THEN {TRUE} ELSE BOOLEAN) :
         request' = [request EXCEPT !.asked = @ + 1, !.allow = allow, !.retried = FALSE,
                                    !.first = Len(messages) + 1]
    /\ bubble' = [bubble EXCEPT !.paragraph = bubble.wire # << >>]
    /\ result' = NoResult
    /\ UNCHANGED messages

\* The model is told what went wrong, and asked again.
AskAgain ==
    /\ request.again
    /\ ModelAnswers
    /\ request' = [request EXCEPT !.again = FALSE, !.retried = TRUE]
    /\ bubble' = IF request.sink /\ result.text # << >> THEN Revealed(bubble, <<"break">>)
                 ELSE bubble
    /\ UNCHANGED <<messages, result>>

\* The assistant message.  A reply of which a broken block or a loop left
\* nothing is skipped.
Remember(text, calls, broken) ==
    IF broken /\ calls = 0 /\ text = << >> THEN messages
    ELSE Append(messages, [text |-> text, calls |-> calls])

JoinReplyText(a, b) == IF a = << >> THEN b ELSE IF b = << >> THEN a ELSE a \o <<"break">> \o b

\* The reply st is in: `structured` calls came with it.
ReplyIsIn(st, structured) ==
    LET calls == IF request.allow THEN st.calls + structured ELSE 0
        broken == st.malformed > 0 \/ st.degenerate
    IN  /\ messages' = Remember(st.text, calls, broken /\ (request.sink \/ request.allow))
        /\ result' = [text |-> JoinReplyText(result.text, st.text), calls |-> calls]
        /\ request' = [request EXCEPT !.again = broken /\ calls = 0 /\ request.allow
                                                /\ ~request.retried]

Bubbled(st) == FoldLeft(Revealed, bubble, st.sunk)

\* The next delta.
Delta ==
    /\ stream.live /\ request.sink /\ ~stream.degenerate
    /\ \E n \in DOMAIN reply.left :
         /\ stream' = Pushed(stream, Upto(reply.left, n))
         /\ reply' = [reply EXCEPT !.left = From(@, n + 1)]
    /\ bubble' = Bubbled(stream')
    /\ UNCHANGED <<request, messages, result>>

\* [DONE], or the connection is closed; a loop is not waited for, nor is any
\* call behind it.
StreamEnds ==
    /\ stream.live /\ request.sink /\ (reply.left = << >> \/ stream.degenerate)
    /\ stream' = Flushed(stream)
    /\ bubble' = Bubbled(stream')
    /\ ReplyIsIn(stream', IF stream.degenerate THEN 0 ELSE reply.structured)
    /\ UNCHANGED reply

\* extract and strip, of the whole text.  No guard looks for a loop.
ReadJson(s) ==
    LET scanned == Drain(s)
        events == scanned.events \o Finish(scanned.pending)
        Of(kind) == SelectSeq(events, LAMBDA event : event.kind = kind)
        texts == Of(Word)
        marked == Mark(NoStream, FlattenSeq([i \in DOMAIN texts |-> texts[i].body]))
    IN  [marked EXCEPT !.text = @ \o MarkupLeft(marked), !.calls = Len(Of("call")),
                       !.malformed = Len(Of("malformed"))]

JsonArrives ==
    /\ stream.live /\ ~request.sink
    /\ stream' = ReadJson(reply.whole)
    /\ ReplyIsIn(stream', reply.structured)
    /\ UNCHANGED <<reply, bubble>>

StreamNext == AskModel \/ AskAgain \/ Delta \/ StreamEnds \/ JsonArrives

StreamSpec == StreamInit /\ [][StreamNext]_streamVars

-----------------------------------------------------------------------------
(* What a reply means, read as a whole *)

RECURSIVE Meaning(_), WithoutSystem(_)

Add(m, n) == [text |-> m.text \o n.text, calls |-> m.calls + n.calls,
              malformed |-> m.malformed + n.malformed]
Means(s, calls, malformed) == [text |-> s, calls |-> calls, malformed |-> malformed]

BlockMeans(event) == CASE event.kind = "call" -> Means(<< >>, 1, 0)
                       [] event.kind = "malformed" -> Means(<< >>, 0, 1)
                       [] OTHER -> Means(event.body, 0, 0)

\* Calls and reasoning are taken out, wrappers taken off.
Meaning(s) ==
    IF s = << >> THEN Means(<< >>, 0, 0)
    ELSE IF PairAt(s, 1, "o1", "o2")
    THEN IF Closes(s) = {} THEN BlockMeans(Finish(s)[1])
         ELSE LET c == Min(Closes(s))
              IN  Add(BlockMeans(BlockEvent(Upto(s, c + 1), SubSeq(s, 3, c - 1))),
                      Meaning(From(s, c + 2)))
    ELSE IF OpensAt(s, 1) /\ CloserOf(s) > 0
    THEN Add(IF s[1] = "r" THEN Meaning(SubSeq(s, 2, CloserOf(s) - 1)) ELSE Means(<< >>, 0, 0),
             Meaning(From(s, CloserOf(s) + 1)))
    ELSE Add(Means(<<Head(s)>>, 0, 0), Meaning(Tail(s)))

\* A system block is taken out, and an open one loses its opening tag.
WithoutSystem(s) ==
    IF s = << >> THEN << >>
    ELSE IF PairAt(s, 1, "s1", "s2")
    THEN LET ends == Places(s, "S")
         IN  IF ends = {} THEN From(s, 3) ELSE WithoutSystem(From(s, Min(ends) + 1))
    ELSE (IF s[1] = "S" THEN << >> ELSE <<s[1]>>) \o WithoutSystem(Tail(s))

\* A wrapper with a call or another wrapper inside.  Whether its closer arrives
\* before what is inside decides what becomes of it.
Nested(s) ==
    \E i \in Openers(s) : s[i] # "o1" /\ \E j \in Openers(s) : j > i /\ j < i + CloserOf(From(s, i))

Whole(s) == [Meaning(s) EXCEPT !.text = WithoutSystem(@)]

Ended == stream.live /\ ~stream'.live

\* Where an endpoint cuts its stream makes no difference: the turn has the text
\* and the calls that the whole reply means, streamed or in one response, and
\* of a reply that fell into a loop what was before it.
ReplyIsChunkBlind ==
    [][Ended /\ ~Nested(reply.whole) =>
         LET m == Whole(reply.whole)
         IN  IF stream'.degenerate THEN stream'.text = CutLoop(m.text)
             ELSE m = [text |-> stream'.text, calls |-> stream'.calls,
                       malformed |-> stream'.malformed]]_streamVars

\* The prompt's replies, as they were kept, where no reasoning is in the way of
\* them: one block of it at most, closed, and its tag was not sent in halves, since
\* half a tag that was shown is taken back with the next text behind it.
Text(ms) == FlattenSeq([i \in DOMAIN ms |-> ms[i].text])
Prose == Text(messages')
PlainThought ==
    /\ Cardinality(ThinkAt(Prose)) <= 1 /\ Range(bubble'.wire) \cap {"h1", "notice"} = {}
    /\ ThinkAt(Prose) # {} => "H" \in Range(Prose)

Hidden(s) ==
    IF ThinkAt(s) = {} THEN s
    ELSE LET i == Min(ThinkAt(s)) IN Upto(s, i - 1) \o From(s, Min({j \in Places(s, "H") : j > i}) + 1)

\* The client is shown every piece of the replies once and in order, over the
\* tool rounds between them, and none of the reasoning.
BubbleShowsTheReplies ==
    [][Ended /\ request.sink /\ PlainThought =>
         SelectSeq(bubble'.wire, LAMBDA p : p # "break") = Hidden(Prose)]_streamVars

\* The history holds what the turn was given, over a retry too: the calls whose
\* results will be sent are made by its last message, and no other text is
\* remembered than the turn's.
HistoryHoldsTheResult ==
    [][Ended =>
         LET mine == From(messages', request.first)
         IN  /\ Text(mine) = SelectSeq(result'.text, LAMBDA p : p # "break")
             /\ result'.calls = FoldLeft(LAMBDA n, m : n + m.calls, 0, mine)
             /\ result'.calls > 0 => Last(mine).calls = result'.calls]_streamVars

StreamedRepliesAreWhole ==
    ReplyIsChunkBlind /\ BubbleShowsTheReplies /\ HistoryHoldsTheResult
=============================================================================
