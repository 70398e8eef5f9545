------------------------- MODULE ConversationProofs -------------------------
(***************************************************************************)
(* What the operations of Conversation do to the pairing of tool calls and *)
(* results, for conversations of any length.                               *)
(*                                                                         *)
(* Paired counts.  The lemmas are about three facts instead that no count  *)
(* is needed for: a result follows the message that makes its call with    *)
(* nothing but results in between (Sound), no call has two (Once), and the *)
(* calls of a message have theirs (Met).                                   *)
(***************************************************************************)
EXTENDS Conversation, SelectionProofs, SequenceTheorems

\* i is a result right behind j, or behind results right behind j.
Follows(h, j, i) == j < i /\ \A k \in (j + 1)..i : IsTool(h[k])

\* The conversation has one system message, the first.
Headed(h) == Len(h) >= 1 /\ \A i \in 1..Len(h) : IsSystem(h[i]) <=> i = 1

Sound(h) ==
    \A i \in 1..Len(h) : IsTool(h[i]) =>
        \E j \in 1..Len(h) : Follows(h, j, i) /\ Calls(h, j, h[i].calls[1])

Once(h) ==
    \A j, i, k \in 1..Len(h) :
        /\ Follows(h, j, i) /\ Follows(h, j, k)
        /\ h[i].calls[1] = h[k].calls[1] /\ Calls(h, j, h[i].calls[1])
        => i = k

Met(h, j) ==
    \A id \in Range(h[j].calls) : \E i \in 1..Len(h) : Follows(h, j, i) /\ h[i].calls[1] = id

\* The calls of the first n messages are met.
MetTo(h, n) == \A j \in 1..n : IsAssistant(h[j]) => Met(h, j)

\* Sound, but for results whose call is not there.
Loose(h) ==
    \A i, j \in 1..Len(h) : IsTool(h[i]) /\ Calls(h, j, h[i].calls[1]) => Follows(h, j, i)

\* No two messages make the same call.
OwnIds(h) ==
    \A j, k \in 1..Len(h) : \A id \in Range(h[j].calls) : Calls(h, j, id) /\ Calls(h, k, id) => j = k

\* The calls and the results of h are of ids.
IdsWithin(h, ids) ==
    \A j \in 1..Len(h) : /\ IsAssistant(h[j]) => Range(h[j].calls) \subseteq ids
                         /\ IsTool(h[j]) => h[j].calls[1] \in ids

\* What an endpoint accepts once the last n messages have their calls met, and
\* what a carryover makes acceptable.
Good(h) == Sound(h) /\ Once(h) /\ MetTo(h, Len(h))
Mendable(h) == Loose(h) /\ Once(h) /\ OwnIds(h)

\* Nobody makes the call id.
Uncalled(h, id) == \A i \in 1..Len(h) : ~Calls(h, i, id)

\* The result of the call id is there, behind the last message that makes it.
Recorded(h, id) ==
    \E j \in 1..Len(h) : /\ IsTool(h[j]) /\ h[j].calls[1] = id
                         /\ \E i \in 1..(j - 1) : Calls(h, i, id)
                         /\ \A i \in (j + 1)..Len(h) : ~Calls(h, i, id)

\* The last message makes the calls ids.
IsReply(h, ids) == h # << >> /\ IsAssistant(Last(h)) /\ Last(h).calls = ids

\* All but the last message have their calls met.
Awaits(h, ids) == Sound(h) /\ Once(h) /\ IsReply(h, ids) /\ MetTo(h, Len(h) - 1)

-----------------------------------------------------------------------------
(* What the facts are good for *)

LEMMA OneOf ==
    ASSUME NEW S, NEW x \in S, \A y \in S : y = x
    PROVE  Cardinality(S) = 1
<1>1. S = {x}
  OBVIOUS
<1> QED
  BY <1>1, FS_Singleton

LEMMA PairedIs ==
    ASSUME NEW turns, NEW h \in Seq(MessageType(turns)), Sound(h), Once(h), MetTo(h, Len(h))
    PROVE  Paired(h)
<1>1. \A i, j \in 1..Len(h) : j \in Behind(h, i) <=> Follows(h, i, j)
  BY DEF Behind, Follows
<1>2. ASSUME NEW i \in 1..Len(h), IsAssistant(h[i]), NEW c \in DOMAIN h[i].calls
      PROVE  Cardinality({j \in Behind(h, i) : Answers(h, j, h[i].calls[c])}) = 1
  <2> DEFINE id == h[i].calls[c]
             S == {j \in Behind(h, i) : Answers(h, j, id)}
  <2>1. id \in Range(h[i].calls)
    BY DEF Range
  <2>2. PICK j \in 1..Len(h) : Follows(h, i, j) /\ h[j].calls[1] = id
    BY <1>2, <2>1 DEF MetTo, Met
  <2>3. IsTool(h[j])
    BY <2>2 DEF Follows
  <2>4. j \in S
    BY <1>1, <2>2, <2>3 DEF Answers
  <2>5. ASSUME NEW k \in S
        PROVE  k = j
    <3>1. k \in 1..Len(h)
      BY DEF Behind
    <3>2. Follows(h, i, k) /\ h[k].calls[1] = id
      BY <1>1, <3>1 DEF Answers
    <3> QED
      BY <1>2, <2>1, <2>2, <3>1, <3>2 DEF Once, Calls
  <2> QED
    BY <2>4, <2>5, OneOf
<1>3. ASSUME NEW i \in 1..Len(h), IsTool(h[i])
      PROVE  \E j \in 1..(i - 1) : i \in Behind(h, j) /\ Calls(h, j, h[i].calls[1])
  <2>1. PICK j \in 1..Len(h) : Follows(h, j, i) /\ Calls(h, j, h[i].calls[1])
    BY <1>3 DEF Sound
  <2>2. j \in 1..(i - 1)
    BY <2>1 DEF Follows
  <2> QED
    BY <1>1, <2>1, <2>2
<1>4. DOMAIN h = 1..Len(h)
  OBVIOUS
<1> QED
  BY <1>2, <1>3, <1>4 DEF Paired

\* A result follows one message that makes calls.
LEMMA FollowsOne ==
    ASSUME NEW h, NEW i \in Nat, NEW j \in Nat, NEW k \in Nat,
           Follows(h, j, i), Follows(h, k, i), ~IsTool(h[j]), ~IsTool(h[k])
    PROVE  j = k
<1>1. CASE j < k
  <2>1. k \in (j + 1)..i
    BY <1>1 DEF Follows
  <2> QED
    BY <2>1 DEF Follows
<1>2. CASE k < j
  <2>1. j \in (k + 1)..i
    BY <1>2 DEF Follows
  <2> QED
    BY <2>1 DEF Follows
<1> QED
  BY <1>1, <1>2

LEMMA RolesDiffer ==
    ASSUME NEW m
    PROVE  /\ IsAssistant(m) => ~IsTool(m) /\ ~IsSystem(m)
           /\ IsSystem(m) => ~IsTool(m)
BY DEF IsAssistant, IsTool, IsSystem

-----------------------------------------------------------------------------
(* More messages *)

\* g is h and more.
Extends(g, h) == Len(h) <= Len(g) /\ \A i \in 1..Len(h) : g[i] = h[i]

LEMMA ExtendedIs ==
    ASSUME NEW T, NEW h \in Seq(T), NEW g \in Seq(T), Extends(g, h)
    PROVE  /\ \A j, i \in 1..Len(h) : Follows(g, j, i) <=> Follows(h, j, i)
           /\ \A j \in 1..Len(h) : \A id : Calls(g, j, id) <=> Calls(h, j, id)
           /\ \A n \in 0..Len(h) : MetTo(h, n) => MetTo(g, n)
<1>0. Len(h) \in Nat /\ Len(g) \in Nat /\ Len(h) <= Len(g) /\ \A i \in 1..Len(h) : g[i] = h[i]
  BY DEF Extends
<1>1. ASSUME NEW j \in 1..Len(h), NEW i \in 1..Len(h)
      PROVE  Follows(g, j, i) <=> Follows(h, j, i)
  <2>1. \A k \in (j + 1)..i : k \in 1..Len(h) /\ g[k] = h[k]
    BY <1>0
  <2> QED
    BY <2>1 DEF Follows
<1>2. \A j \in 1..Len(h) : \A id : Calls(g, j, id) <=> Calls(h, j, id)
  BY <1>0 DEF Calls
<1>3. ASSUME NEW n \in 0..Len(h), MetTo(h, n)
      PROVE  MetTo(g, n)
  <2>1. ASSUME NEW j \in 1..n, IsAssistant(g[j]), NEW id \in Range(g[j].calls)
        PROVE  \E i \in 1..Len(g) : Follows(g, j, i) /\ g[i].calls[1] = id
    <3>1. j \in 1..Len(h) /\ g[j] = h[j]
      BY <1>0
    <3>2. PICK i \in 1..Len(h) : Follows(h, j, i) /\ h[i].calls[1] = id
      BY <1>3, <2>1, <3>1 DEF MetTo, Met
    <3>3. i \in 1..Len(g) /\ g[i] = h[i] /\ Follows(g, j, i)
      BY <1>0, <1>1, <3>1, <3>2
    <3> QED
      BY <3>2, <3>3
  <2> QED
    BY <2>1 DEF MetTo, Met
<1> QED
  BY <1>1, <1>2, <1>3

\* Nobody makes the call id, and it has no result.
Unknown(h, id) ==
    \A i \in 1..Len(h) : ~Calls(h, i, id) /\ ~(IsTool(h[i]) /\ h[i].calls[1] = id)

\* m makes no call that h knows of.
MakesNewCalls(h, m) == IsAssistant(m) => \A id \in Range(m.calls) : Unknown(h, id)

\* One message more, that is not a result.
LEMMA AppendKeeps ==
    ASSUME NEW T, NEW h \in Seq(T), NEW m \in T, ~IsTool(m), NEW g, g = Append(h, m)
    PROVE  /\ Headed(h) /\ ~IsSystem(m) => Headed(g)
           /\ Sound(h) => Sound(g)
           /\ Once(h) => Once(g)
           /\ MetTo(h, Len(h)) => MetTo(g, Len(g) - 1)
           /\ MetTo(h, Len(h)) /\ m.calls = << >> => MetTo(g, Len(g))
<1>0. /\ g \in Seq(T) /\ Len(h) \in Nat /\ Len(g) = Len(h) + 1 /\ g[Len(g)] = m
      /\ \A i \in 1..Len(h) : g[i] = h[i]
  OBVIOUS
<1>1. Extends(g, h)
  BY <1>0 DEF Extends
<1>2. /\ \A j, i \in 1..Len(h) : Follows(g, j, i) <=> Follows(h, j, i)
      /\ \A j \in 1..Len(h) : \A id : Calls(g, j, id) <=> Calls(h, j, id)
      /\ \A n \in 0..Len(h) : MetTo(h, n) => MetTo(g, n)
  BY <1>0, <1>1, ExtendedIs
<1>3. ASSUME NEW j \in 1..Len(g), NEW i \in 1..Len(g), Follows(g, j, i)
      PROVE  i \in 1..Len(h) /\ j \in 1..Len(h)
  BY <1>0, <1>3 DEF Follows
<1>4. Headed(h) /\ ~IsSystem(m) => Headed(g)
  BY <1>0 DEF Headed
<1>5. ASSUME Sound(h), NEW i \in 1..Len(g), IsTool(g[i])
      PROVE  \E j \in 1..Len(g) : Follows(g, j, i) /\ Calls(g, j, g[i].calls[1])
  <2>1. i \in 1..Len(h)
    BY <1>0, <1>5
  <2>2. PICK j \in 1..Len(h) : Follows(h, j, i) /\ Calls(h, j, h[i].calls[1])
    BY <1>0, <1>5, <2>1 DEF Sound
  <2> QED
    BY <1>0, <1>2, <2>1, <2>2
<1>6. ASSUME Once(h), NEW j \in 1..Len(g), NEW i \in 1..Len(g), NEW k \in 1..Len(g),
             Follows(g, j, i), Follows(g, j, k), g[i].calls[1] = g[k].calls[1],
             Calls(g, j, g[i].calls[1])
      PROVE  i = k
  <2>1. j \in 1..Len(h) /\ i \in 1..Len(h) /\ k \in 1..Len(h)
    BY <1>3, <1>6
  <2> QED
    BY <1>0, <1>2, <1>6, <2>1 DEF Once
<1>7. MetTo(h, Len(h)) => MetTo(g, Len(g) - 1)
  BY <1>0, <1>2
<1>8. ASSUME MetTo(h, Len(h)), m.calls = << >>
      PROVE  MetTo(g, Len(g))
  <2>1. Range(m.calls) = {}
    BY <1>8 DEF Range
  <2>2. Met(g, Len(g))
    BY <1>0, <2>1 DEF Met
  <2>3. \A j \in 1..Len(g) : j \in 1..(Len(g) - 1) \/ j = Len(g)
    BY <1>0
  <2> QED
    BY <1>7, <1>8, <2>2, <2>3 DEF MetTo
<1> QED
  BY <1>4, <1>5, <1>6, <1>7, <1>8 DEF Sound, Once

LEMMA AppendMends ==
    ASSUME NEW T, NEW h \in Seq(T), NEW m \in T, ~IsTool(m), NEW g, g = Append(h, m),
           MakesNewCalls(h, m)
    PROVE  /\ Mendable(h) => Mendable(g)
           /\ \A ids : IdsWithin(h, ids) /\ (IsAssistant(m) => Range(m.calls) \subseteq ids)
                         => IdsWithin(g, ids)
           /\ \A id : Uncalled(h, id) /\ (IsAssistant(m) => id \notin Range(m.calls))
                         => Uncalled(g, id)
           /\ \A id : Recorded(h, id) /\ (IsAssistant(m) => id \notin Range(m.calls))
                         => Recorded(g, id)
<1>0. /\ g \in Seq(T) /\ Len(h) \in Nat /\ Len(g) = Len(h) + 1 /\ g[Len(g)] = m
      /\ \A i \in 1..Len(h) : g[i] = h[i]
  OBVIOUS
<1>1. Extends(g, h)
  BY <1>0 DEF Extends
<1>2. /\ \A j, i \in 1..Len(h) : Follows(g, j, i) <=> Follows(h, j, i)
      /\ \A j \in 1..Len(h) : \A id : Calls(g, j, id) <=> Calls(h, j, id)
  BY <1>0, <1>1, ExtendedIs
<1>3. \A id : Calls(g, Len(g), id) <=> IsAssistant(m) /\ id \in Range(m.calls)
  BY <1>0 DEF Calls
<1>4. ASSUME Loose(h), NEW i \in 1..Len(g), NEW j \in 1..Len(g), IsTool(g[i]),
             Calls(g, j, g[i].calls[1])
      PROVE  Follows(g, j, i)
  <2>1. i \in 1..Len(h)
    BY <1>0, <1>4
  <2>2. j \in 1..Len(h)
    BY <1>0, <1>3, <1>4, <2>1 DEF MakesNewCalls, Unknown
  <2> QED
    BY <1>0, <1>2, <1>4, <2>1, <2>2 DEF Loose
<1>5. ASSUME OwnIds(h), NEW j \in 1..Len(g), NEW k \in 1..Len(g), NEW id,
             Calls(g, j, id), Calls(g, k, id)
      PROVE  j = k
  <2>1. CASE j \in 1..Len(h) /\ k \in 1..Len(h)
    BY <1>2, <1>5, <2>1 DEF OwnIds, Calls
  <2>2. CASE j = Len(g) /\ k \in 1..Len(h)
    BY <1>2, <1>3, <1>5, <2>2 DEF MakesNewCalls, Unknown
  <2>3. CASE j \in 1..Len(h) /\ k = Len(g)
    BY <1>2, <1>3, <1>5, <2>3 DEF MakesNewCalls, Unknown
  <2> QED
    BY <1>0, <2>1, <2>2, <2>3
<1>6. Once(h) => Once(g)
  BY AppendKeeps
<1>7. Mendable(h) => Mendable(g)
  BY <1>4, <1>5, <1>6 DEF Mendable, Loose, OwnIds
<1>8. ASSUME NEW ids, IdsWithin(h, ids), IsAssistant(m) => Range(m.calls) \subseteq ids
      PROVE  IdsWithin(g, ids)
  BY <1>0, <1>8 DEF IdsWithin
<1>9. ASSUME NEW id, Uncalled(h, id), IsAssistant(m) => id \notin Range(m.calls)
      PROVE  Uncalled(g, id)
  BY <1>0, <1>2, <1>3, <1>9 DEF Uncalled
<1>10. ASSUME NEW id, Recorded(h, id), IsAssistant(m) => id \notin Range(m.calls)
       PROVE  Recorded(g, id)
  <2>1. PICK j \in 1..Len(h) : /\ IsTool(h[j]) /\ h[j].calls[1] = id
                               /\ \E i \in 1..(j - 1) : Calls(h, i, id)
                               /\ \A i \in (j + 1)..Len(h) : ~Calls(h, i, id)
    BY <1>10 DEF Recorded
  <2>2. PICK i \in 1..(j - 1) : Calls(h, i, id)
    BY <2>1
  <2>3. j \in 1..Len(g) /\ g[j] = h[j] /\ i \in 1..Len(h) /\ Calls(g, i, id)
    BY <1>0, <1>2, <2>2
  <2>4. \A k \in (j + 1)..Len(g) : ~Calls(g, k, id)
    BY <1>0, <1>2, <1>3, <1>10, <2>1
  <2> QED
    BY <2>1, <2>2, <2>3, <2>4 DEF Recorded
<1> QED
  BY <1>7, <1>8, <1>9, <1>10

-----------------------------------------------------------------------------
(* The results of a reply *)

\* g is h and N results behind it, of the calls ids.
HasResults(g, h, ids, N) ==
    /\ Len(g) = Len(h) + N /\ Len(g) \in Nat /\ Len(h) \in Nat
    /\ \A i \in 1..Len(h) : g[i] = h[i]
    /\ \A i \in 1..Len(g) : i \in 1..Len(h) \/ \E k \in 1..N : i = Len(h) + k
    /\ \A k \in 1..N : IsTool(g[Len(h) + k]) /\ g[Len(h) + k].calls[1] = ids[k]

LEMMA ResultsAre ==
    ASSUME NEW T, NEW h \in Seq(T), NEW turn, NEW ids, NEW N \in Nat, DOMAIN ids = 1..N
    PROVE  HasResults(AppendResults(h, turn, ids), h, ids, N)
<1> DEFINE R == {ToolMessage(turn, ids[i]) : i \in 1..N}
           t == [i \in 1..N |-> ToolMessage(turn, ids[i])]
           g == AppendResults(h, turn, ids)
<1>1. g = h \o t
  BY DEF AppendResults
<1> HIDE DEF g
<1>2. t \in Seq(R) /\ Len(t) = N
  <2>1. \A i \in 1..N : ToolMessage(turn, ids[i]) \in R
    OBVIOUS
  <2> HIDE DEF R
  <2> QED
    BY <2>1
<1>3. \A k \in 1..N : t[k] = ToolMessage(turn, ids[k])
  OBVIOUS
<1>4. \A x : IsTool(ToolMessage(turn, x)) /\ ToolMessage(turn, x).calls[1] = x
  BY DEF IsTool, ToolMessage, Message
<1> HIDE DEF t, R
<1>5. /\ Len(g) = Len(h) + N /\ Len(g) \in Nat /\ Len(h) \in Nat
      /\ \A i \in 1..Len(h) : g[i] = h[i]
      /\ \A k \in 1..N : g[Len(h) + k] = t[k]
  <2>1. Len(h) \in Nat /\ Len(h \o t) = Len(h) + Len(t)
    BY <1>2
  <2>2. ASSUME NEW i \in 1..Len(h)
        PROVE  (h \o t)[i] = h[i]
    BY <1>2
  <2>3. ASSUME NEW k \in 1..N
        PROVE  (h \o t)[Len(h) + k] = t[k]
    BY <1>2
  <2> QED
    BY <1>1, <1>2, <2>1, <2>2, <2>3
<1>6. ASSUME NEW i \in 1..Len(g), i \notin 1..Len(h)
      PROVE  \E k \in 1..N : i = Len(h) + k
  <2>1. i - Len(h) \in 1..N /\ i = Len(h) + (i - Len(h))
    BY <1>5, <1>6
  <2> QED
    BY <2>1
<1>7. ASSUME NEW k \in 1..N
      PROVE  IsTool(g[Len(h) + k]) /\ g[Len(h) + k].calls[1] = ids[k]
  <2>1. g[Len(h) + k] = ToolMessage(turn, ids[k])
    BY <1>3, <1>5
  <2> QED
    BY <1>4, <2>1
<1>8. HasResults(g, h, ids, N)
  BY <1>5, <1>6, <1>7 DEF HasResults
<1> QED
  BY <1>8 DEF g

LEMMA ResultsAreTyped ==
    ASSUME NEW turns, NEW h \in Seq(MessageType(turns)), NEW turn \in turns,
           NEW ids \in Seq(CallIds)
    PROVE  AppendResults(h, turn, ids) \in Seq(MessageType(turns))
<1>1. \A i \in 1..Len(ids) : ids[i] \in CallIds /\ <<ids[i]>> \in Seq(CallIds)
  OBVIOUS
<1>2. \A i \in 1..Len(ids) : ToolMessage(turn, ids[i]) \in MessageType(turns)
  BY <1>1 DEF ToolMessage, Message, MessageType, Roles, Kinds
<1>3. [i \in 1..Len(ids) |-> ToolMessage(turn, ids[i])] \in Seq(MessageType(turns))
  <2> DEFINE n == Len(ids)
             T == MessageType(turns)
             t == [i \in 1..n |-> ToolMessage(turn, ids[i])]
  <2>1. n \in Nat /\ \A i \in 1..n : ToolMessage(turn, ids[i]) \in T
    BY <1>2
  <2> HIDE DEF n, T
  <2>2. t \in [1..n -> T]
    BY <2>1
  <2> HIDE DEF t
  <2>3. t \in Seq(T)
    BY <2>1, <2>2
  <2> QED
    BY <2>3 DEF t, n, T
<1>4. AppendResults(h, turn, ids) = h \o [i \in 1..Len(ids) |-> ToolMessage(turn, ids[i])]
  BY DEF AppendResults
<1> QED
  BY <1>3, <1>4

LEMMA ResultsKeepHead ==
    ASSUME NEW T, NEW h \in Seq(T), NEW turn, NEW ids, NEW N \in Nat, DOMAIN ids = 1..N, Headed(h)
    PROVE  Headed(AppendResults(h, turn, ids))
<1> DEFINE g == AppendResults(h, turn, ids)
<1>1. /\ Len(g) = Len(h) + N /\ Len(g) \in Nat /\ Len(h) \in Nat
      /\ \A i \in 1..Len(h) : g[i] = h[i]
      /\ \A i \in 1..Len(g) : i \in 1..Len(h) \/ \E k \in 1..N : i = Len(h) + k
      /\ \A k \in 1..N : IsTool(g[Len(h) + k])
  <2>1. HasResults(g, h, ids, N)
    BY ResultsAre
  <2> HIDE DEF g
  <2> QED
    BY <2>1 DEF HasResults
<1> HIDE DEF g
<1>2. Len(h) >= 1 /\ \A i \in 1..Len(h) : IsSystem(h[i]) <=> i = 1
  BY DEF Headed
<1>3. ASSUME NEW k \in 1..N
      PROVE  ~IsSystem(g[Len(h) + k]) /\ Len(h) + k # 1
  <2>1. IsTool(g[Len(h) + k])
    BY <1>1
  <2>2. ~IsSystem(g[Len(h) + k])
    BY <2>1 DEF IsTool, IsSystem
  <2>3. Len(h) + k # 1
    BY <1>1, <1>2
  <2> QED
    BY <2>2, <2>3
<1>4. \A i \in 1..Len(g) : IsSystem(g[i]) <=> i = 1
  BY <1>1, <1>2, <1>3
<1> QED
  BY <1>1, <1>2, <1>4 DEF Headed, g

\* Every call of the last message gets its result behind it.
LEMMA ReplyAnswered ==
    ASSUME NEW T, NEW h \in Seq(T), NEW turn, NEW ids, NEW N \in Nat, DOMAIN ids = 1..N,
           IsReply(h, ids), \A a, b \in 1..N : ids[a] = ids[b] => a = b,
           NEW g, g \in Seq(T), g = AppendResults(h, turn, ids)
    PROVE  /\ Sound(h) => Sound(g)
           /\ Once(h) => Once(g)
           /\ MetTo(h, Len(h) - 1) => MetTo(g, Len(g))
           /\ \A k \in 1..N : Recorded(g, ids[k])
           /\ Mendable(h) => Mendable(g)
           /\ \A all : IdsWithin(h, all) => IdsWithin(g, all)
<1> DEFINE n == Len(h)
<1>0. /\ n \in Nat /\ n >= 1 /\ Len(g) = n + N
      /\ IsAssistant(h[n]) /\ h[n].calls = ids
      /\ \A k \in 1..N : ids[k] \in Range(ids)
      /\ \A id \in Range(ids) : \E k \in 1..N : id = ids[k]
  <2>1. Len(g) = n + N
    BY ResultsAre DEF HasResults
  <2> QED
    BY <2>1 DEF IsReply, Last, Range
<1>1. /\ \A i \in 1..n : g[i] = h[i]
      /\ \A i \in 1..Len(g) : i \in 1..n \/ \E k \in 1..N : i = n + k
      /\ \A k \in 1..N : IsTool(g[n + k]) /\ g[n + k].calls[1] = ids[k]
  <2>1. HasResults(g, h, ids, N)
    BY ResultsAre
  <2> QED
    BY <2>1 DEF HasResults
<1>2. Extends(g, h)
  BY <1>0, <1>1 DEF Extends
<1> HIDE DEF n
<1>3. /\ \A j, i \in 1..n : Follows(g, j, i) <=> Follows(h, j, i)
      /\ \A j \in 1..n : \A id : Calls(g, j, id) <=> Calls(h, j, id)
      /\ \A m \in 0..n : MetTo(h, m) => MetTo(g, m)
  BY <1>2, ExtendedIs DEF n
<1>4. \A k \in 1..N : n + k \in 1..Len(g) /\ ~IsAssistant(g[n + k])
  <2>1. \A m : IsTool(m) => ~IsAssistant(m)
    BY RolesDiffer
  <2>2. \A k \in 1..N : n + k \in 1..Len(g)
    BY <1>0
  <2> QED
    BY <1>1, <2>1, <2>2
<1>5. \A j \in 1..Len(g) : \A id : Calls(g, j, id) => j \in 1..n
  BY <1>1, <1>4 DEF Calls
<1>6. \A k \in 1..N : Follows(g, n, n + k) /\ Calls(g, n, ids[k])
  <2>1. ASSUME NEW k \in 1..N, NEW i \in (n + 1)..(n + k)
        PROVE  IsTool(g[i])
    <3>1. i - n \in 1..N /\ i = n + (i - n)
      BY <1>0
    <3> QED
      BY <1>1, <3>1
  <2>2. \A k \in 1..N : Follows(g, n, n + k)
    BY <1>0, <2>1 DEF Follows
  <2>3. \A k \in 1..N : Calls(g, n, ids[k])
    BY <1>0, <1>1 DEF Calls
  <2> QED
    BY <2>2, <2>3
<1>7. ASSUME NEW j \in 1..n, NEW k \in 1..N, Follows(g, j, n + k)
      PROVE  j = n
  <2>1. ~IsTool(g[n])
    BY <1>0, <1>1, RolesDiffer
  <2>2. j < n => n \in (j + 1)..(n + k)
    BY <1>0
  <2> QED
    BY <1>0, <1>7, <2>1, <2>2 DEF Follows
<1>8. ASSUME NEW i \in 1..n
      PROVE  ~Follows(g, n, i)
  BY <1>0 DEF Follows
<1>9. ASSUME Sound(h), NEW i \in 1..Len(g), IsTool(g[i])
      PROVE  \E j \in 1..Len(g) : Follows(g, j, i) /\ Calls(g, j, g[i].calls[1])
  <2>1. CASE i \in 1..n
    <3>1. PICK j \in 1..n : Follows(h, j, i) /\ Calls(h, j, h[i].calls[1])
      BY <1>1, <1>9, <2>1 DEF Sound, n
    <3>2. j \in 1..Len(g) /\ g[i] = h[i]
      BY <1>0, <1>1, <2>1
    <3> QED
      BY <1>3, <2>1, <3>1, <3>2
  <2>2. ASSUME NEW k \in 1..N, i = n + k
        PROVE  \E j \in 1..Len(g) : Follows(g, j, i) /\ Calls(g, j, g[i].calls[1])
    <3>1. n \in 1..Len(g)
      BY <1>0
    <3> QED
      BY <1>1, <1>6, <2>2, <3>1
  <2> QED
    BY <1>1, <2>1, <2>2
<1>10. ASSUME Once(h), NEW j \in 1..Len(g), NEW i \in 1..Len(g), NEW k \in 1..Len(g),
              Follows(g, j, i), Follows(g, j, k), g[i].calls[1] = g[k].calls[1],
              Calls(g, j, g[i].calls[1])
       PROVE  i = k
  <2>1. j \in 1..n
    BY <1>5, <1>10
  <2>2. CASE i \in 1..n /\ k \in 1..n
    <3>1. Follows(h, j, i) /\ Follows(h, j, k) /\ g[i] = h[i] /\ g[k] = h[k]
      BY <1>1, <1>3, <1>10, <2>1, <2>2
    <3>2. h[i].calls[1] = h[k].calls[1] /\ Calls(h, j, h[i].calls[1])
      BY <1>3, <1>10, <2>1, <3>1
    <3> QED
      BY <1>10, <2>1, <2>2, <3>1, <3>2 DEF Once, n
  <2>3. ASSUME NEW a \in 1..N, i = n + a
        PROVE  i = k
    <3>1. j = n
      BY <1>7, <1>10, <2>1, <2>3
    <3>2. k \notin 1..n
      BY <1>8, <1>10, <3>1
    <3>3. PICK b \in 1..N : k = n + b
      BY <1>1, <3>2
    <3>4. ids[a] = ids[b]
      BY <1>1, <1>10, <2>3, <3>3
    <3> QED
      BY <2>3, <3>3, <3>4
  <2>4. ASSUME NEW b \in 1..N, k = n + b
        PROVE  i = k
    <3>1. j = n
      BY <1>7, <1>10, <2>1, <2>4
    <3>2. i \notin 1..n
      BY <1>8, <1>10, <3>1
    <3> QED
      BY <1>1, <2>3, <3>2
  <2> QED
    BY <1>1, <2>2, <2>3, <2>4
<1>11. ASSUME MetTo(h, n - 1)
       PROVE  MetTo(g, Len(g))
  <2>1. MetTo(g, n - 1)
    BY <1>0, <1>3, <1>11
  <2>2. Met(g, n)
    <3>1. g[n].calls = ids
      BY <1>0, <1>1
    <3>2. ASSUME NEW k \in 1..N
          PROVE  n + k \in 1..Len(g) /\ Follows(g, n, n + k) /\ g[n + k].calls[1] = ids[k]
      BY <1>1, <1>4, <1>6
    <3>3. ASSUME NEW id \in Range(g[n].calls)
          PROVE  \E i \in 1..Len(g) : Follows(g, n, i) /\ g[i].calls[1] = id
      <4>1. PICK k \in 1..N : id = ids[k]
        BY <1>0, <3>1, <3>3
      <4> QED
        BY <3>2, <4>1
    <3> QED
      BY <3>3 DEF Met
  <2>3. \A j \in 1..Len(g) : IsAssistant(g[j]) => j \in 1..(n - 1) \/ j = n
    <3>1. \A j \in 1..n : j \in 1..(n - 1) \/ j = n
      BY <1>0
    <3> QED
      BY <1>1, <1>4, <3>1
  <2> QED
    BY <2>1, <2>2, <2>3 DEF MetTo
<1>12. ASSUME NEW k \in 1..N
       PROVE  Recorded(g, ids[k])
  <2>1. n + k \in 1..Len(g) /\ n \in 1..((n + k) - 1)
    BY <1>0
  <2>2. \A i \in ((n + k) + 1)..Len(g) : i \in 1..Len(g) /\ i \notin 1..n
    BY <1>0
  <2>3. \A i \in ((n + k) + 1)..Len(g) : ~Calls(g, i, ids[k])
    BY <1>5, <2>2
  <2> QED
    BY <1>1, <1>6, <2>1, <2>3 DEF Recorded
<1>13. ASSUME OwnIds(h), NEW j \in 1..Len(g), NEW k \in 1..Len(g), NEW id,
              Calls(g, j, id), Calls(g, k, id)
       PROVE  j = k
  <2>1. j \in 1..n /\ k \in 1..n
    BY <1>5, <1>13
  <2>2. Calls(h, j, id) /\ Calls(h, k, id)
    BY <1>3, <1>13, <2>1
  <2> QED
    BY <1>13, <2>1, <2>2 DEF OwnIds, Calls, n
<1>14. ASSUME Loose(h), OwnIds(h), NEW i \in 1..Len(g), NEW j \in 1..Len(g), IsTool(g[i]),
              Calls(g, j, g[i].calls[1])
       PROVE  Follows(g, j, i)
  <2>1. j \in 1..n
    BY <1>5, <1>14
  <2>2. CASE i \in 1..n
    BY <1>1, <1>3, <1>14, <2>1, <2>2 DEF Loose, n
  <2>3. ASSUME NEW k \in 1..N, i = n + k
        PROVE  Follows(g, j, i)
    <3>1. Calls(g, j, ids[k])
      BY <1>1, <1>14, <2>3
    <3>2. n \in 1..Len(g) /\ Calls(g, n, ids[k])
      BY <1>0, <1>6
    <3>3. j = n
      BY <1>13, <1>14, <3>1, <3>2
    <3> QED
      BY <1>6, <2>3, <3>3
  <2> QED
    BY <1>1, <2>2, <2>3
<1>15. ASSUME NEW all, IdsWithin(h, all)
       PROVE  IdsWithin(g, all)
  <2>1. Range(ids) \subseteq all
    BY <1>0, <1>15 DEF IdsWithin, n
  <2>2. ASSUME NEW i \in 1..n
        PROVE  /\ IsAssistant(g[i]) => Range(g[i].calls) \subseteq all
               /\ IsTool(g[i]) => g[i].calls[1] \in all
    BY <1>1, <1>15 DEF IdsWithin, n
  <2>3. \A k \in 1..N : ~IsAssistant(g[n + k]) /\ g[n + k].calls[1] \in all
    BY <1>0, <1>1, <1>4, <2>1
  <2> QED
    BY <1>1, <2>2, <2>3 DEF IdsWithin
<1> QED
  BY <1>9, <1>10, <1>11, <1>12, <1>13, <1>14, <1>15 DEF Sound, Once, Mendable, Loose, OwnIds, n

\* Results of calls that are not there: of a reply that a compaction dropped.
LEMMA StrayResults ==
    ASSUME NEW T, NEW h \in Seq(T), NEW turn, NEW ids, NEW N \in Nat, DOMAIN ids = 1..N,
           \A k \in 1..N : Uncalled(h, ids[k]),
           NEW g, g \in Seq(T), g = AppendResults(h, turn, ids)
    PROVE  /\ Mendable(h) => Mendable(g)
           /\ \A all : IdsWithin(h, all) /\ (\A k \in 1..N : ids[k] \in all) => IdsWithin(g, all)
           /\ \A id : Uncalled(h, id) => Uncalled(g, id)
<1> DEFINE n == Len(h)
<1>1. /\ n \in Nat /\ Len(g) = n + N
      /\ \A i \in 1..n : g[i] = h[i]
      /\ \A i \in 1..Len(g) : i \in 1..n \/ \E k \in 1..N : i = n + k
      /\ \A k \in 1..N : IsTool(g[n + k]) /\ g[n + k].calls[1] = ids[k]
  <2>1. HasResults(g, h, ids, N)
    BY ResultsAre
  <2> QED
    BY <2>1 DEF HasResults
<1>2. Extends(g, h)
  BY <1>1 DEF Extends
<1> HIDE DEF n
<1>3. /\ \A j, i \in 1..n : Follows(g, j, i) <=> Follows(h, j, i)
      /\ \A j \in 1..n : \A id : Calls(g, j, id) <=> Calls(h, j, id)
  BY <1>2, ExtendedIs DEF n
<1>4. \A k \in 1..N : ~IsAssistant(g[n + k])
  <2>1. \A m : IsTool(m) => ~IsAssistant(m)
    BY RolesDiffer
  <2> QED
    BY <1>1, <2>1
<1>5. \A j \in 1..Len(g) : \A id : Calls(g, j, id) => j \in 1..n /\ Calls(h, j, id)
  BY <1>1, <1>3, <1>4 DEF Calls
<1>6. \A id : Uncalled(h, id) => Uncalled(g, id)
  BY <1>5 DEF Uncalled, n
<1>7. ASSUME NEW i \in 1..Len(g), NEW j \in 1..Len(g), Calls(g, j, g[i].calls[1])
      PROVE  i \in 1..n /\ j \in 1..n /\ g[i] = h[i] /\ Calls(h, j, h[i].calls[1])
  <2>1. ASSUME NEW k \in 1..N, i = n + k
        PROVE  FALSE
    <3>1. j \in 1..n /\ Calls(h, j, ids[k])
      BY <1>1, <1>5, <1>7, <2>1
    <3> QED
      BY <3>1 DEF Uncalled, n
  <2> QED
    BY <1>1, <1>5, <1>7, <2>1
<1>8. ASSUME Loose(h), NEW i \in 1..Len(g), NEW j \in 1..Len(g), IsTool(g[i]),
             Calls(g, j, g[i].calls[1])
      PROVE  Follows(g, j, i)
  BY <1>3, <1>7, <1>8 DEF Loose, n
<1>9. ASSUME Once(h), NEW j \in 1..Len(g), NEW i \in 1..Len(g), NEW k \in 1..Len(g),
             Follows(g, j, i), Follows(g, j, k), g[i].calls[1] = g[k].calls[1],
             Calls(g, j, g[i].calls[1])
      PROVE  i = k
  <2>1. i \in 1..n /\ j \in 1..n /\ g[i] = h[i] /\ Calls(h, j, h[i].calls[1])
    BY <1>7, <1>9
  <2>2. k \in 1..n /\ g[k] = h[k]
    BY <1>7, <1>9
  <2> QED
    BY <1>3, <1>9, <2>1, <2>2 DEF Once, n
<1>10. ASSUME OwnIds(h), NEW j \in 1..Len(g), NEW k \in 1..Len(g), NEW id,
              Calls(g, j, id), Calls(g, k, id)
       PROVE  j = k
  BY <1>5, <1>10 DEF OwnIds, Calls, n
<1>11. ASSUME NEW all, IdsWithin(h, all), \A k \in 1..N : ids[k] \in all
       PROVE  IdsWithin(g, all)
  <2>1. ASSUME NEW i \in 1..n
        PROVE  /\ IsAssistant(g[i]) => Range(g[i].calls) \subseteq all
               /\ IsTool(g[i]) => g[i].calls[1] \in all
    BY <1>1, <1>11 DEF IdsWithin, n
  <2>2. \A k \in 1..N : ~IsAssistant(g[n + k]) /\ g[n + k].calls[1] \in all
    BY <1>1, <1>4, <1>11
  <2> QED
    BY <1>1, <2>1, <2>2 DEF IdsWithin
<1> QED
  BY <1>6, <1>8, <1>9, <1>10, <1>11 DEF Mendable, Loose, Once, OwnIds

-----------------------------------------------------------------------------
(* record_cancelled_tool_results *)

Missing(h, ids) == {k \in DOMAIN ids : ~Recorded(h, ids[k])}

LEMMA RecordCancelledIs ==
    ASSUME NEW T, NEW h \in Seq(T), NEW turn, NEW ids
    PROVE  RecordCancelledToolResults(h, turn, ids)
             = AppendResults(h, turn, Picked(ids, Missing(h, ids)))
<1> DEFINE Behindmost(j, id) == /\ \E i \in 1..(j - 1) : Calls(h, i, id)
                                /\ \A i \in (j + 1)..Len(h) : ~Calls(h, i, id)
           recorded == {h[j].calls[1] : j \in {k \in DOMAIN h :
                           IsTool(h[k]) /\ Behindmost(k, h[k].calls[1])}}
<1>1. RecordCancelledToolResults(h, turn, ids)
        = AppendResults(h, turn, Picked(ids, {k \in DOMAIN ids : ids[k] \notin recorded}))
  BY DEF RecordCancelledToolResults
<1>2. ASSUME NEW id
      PROVE  id \in recorded <=> Recorded(h, id)
  <2>1. DOMAIN h = 1..Len(h)
    OBVIOUS
  <2>2. ASSUME id \in recorded
        PROVE  Recorded(h, id)
    <3>1. PICK j \in DOMAIN h : id = h[j].calls[1] /\ IsTool(h[j]) /\ Behindmost(j, h[j].calls[1])
      BY <2>2
    <3> QED
      BY <2>1, <3>1 DEF Recorded
  <2>3. ASSUME Recorded(h, id)
        PROVE  id \in recorded
    <3>1. PICK j \in 1..Len(h) : /\ IsTool(h[j]) /\ h[j].calls[1] = id
                                 /\ Behindmost(j, id)
      BY <2>3 DEF Recorded
    <3> HIDE DEF Behindmost
    <3> QED
      BY <2>1, <3>1
  <2> QED
    BY <2>2, <2>3
<1> HIDE DEF recorded
<1>3. {k \in DOMAIN ids : ids[k] \notin recorded} = Missing(h, ids)
  BY <1>2 DEF Missing
<1> QED
  BY <1>1, <1>3

\* Nothing is said twice.
LEMMA AllRecorded ==
    ASSUME NEW T, NEW h \in Seq(T), NEW turn, NEW ids, \A k \in DOMAIN ids : Recorded(h, ids[k])
    PROVE  RecordCancelledToolResults(h, turn, ids) = h
<1>1. Missing(h, ids) = {}
  BY DEF Missing
<1>2. RecordCancelledToolResults(h, turn, ids) = AppendResults(h, turn, << >>)
  BY <1>1, RecordCancelledIs, PickNone
<1>3. [i \in DOMAIN << >> |-> ToolMessage(turn, << >>[i])] = << >>
  OBVIOUS
<1>4. h \o << >> = h
  OBVIOUS
<1> QED
  BY <1>2, <1>3, <1>4 DEF AppendResults

LEMMA NoneRecorded ==
    ASSUME NEW T, NEW h \in Seq(T), NEW turn, NEW I, NEW ids \in Seq(I),
           \A k \in 1..Len(ids) : ~Recorded(h, ids[k])
    PROVE  RecordCancelledToolResults(h, turn, ids) = AppendResults(h, turn, ids)
<1>1. Missing(h, ids) = 1..Len(ids)
  BY DEF Missing
<1> QED
  BY <1>1, RecordCancelledIs, PickAll

\* The calls of the last message have no result yet, even where an older call
\* has the same id.
LEMMA ReplyIsUnrecorded ==
    ASSUME NEW T, NEW h \in Seq(T), NEW ids, IsReply(h, ids), NEW k \in DOMAIN ids
    PROVE  ~Recorded(h, ids[k])
<1>1. Len(h) \in Nat /\ Len(h) >= 1 /\ IsAssistant(h[Len(h)]) /\ h[Len(h)].calls = ids
  BY DEF IsReply, Last
<1>2. Calls(h, Len(h), ids[k])
  BY <1>1 DEF Calls, Range
<1>3. ASSUME Recorded(h, ids[k])
      PROVE  FALSE
  <2>1. PICK j \in 1..Len(h) : /\ IsTool(h[j])
                               /\ \A i \in (j + 1)..Len(h) : ~Calls(h, i, ids[k])
    BY <1>3 DEF Recorded
  <2>2. j # Len(h)
    BY <1>1, <2>1, RolesDiffer
  <2>3. Len(h) \in (j + 1)..Len(h)
    BY <1>1, <2>2
  <2> QED
    BY <1>2, <2>1, <2>3
<1> QED
  BY <1>3

LEMMA UncalledIsUnrecorded ==
    ASSUME NEW T, NEW h \in Seq(T), NEW id, Uncalled(h, id)
    PROVE  ~Recorded(h, id)
<1>1. ASSUME NEW j \in 1..Len(h), NEW i \in 1..(j - 1)
      PROVE  ~Calls(h, i, id)
  <2>1. i \in 1..Len(h)
    OBVIOUS
  <2> QED
    BY <2>1 DEF Uncalled
<1> QED
  BY <1>1 DEF Recorded

LEMMA RecordCancelledIsTyped ==
    ASSUME NEW turns, NEW h \in Seq(MessageType(turns)), NEW turn \in turns,
           NEW ids \in Seq(CallIds)
    PROVE  RecordCancelledToolResults(h, turn, ids) \in Seq(MessageType(turns))
<1>1. Missing(h, ids) \in SUBSET (1..Len(ids))
  BY DEF Missing
<1>2. Picked(ids, Missing(h, ids)) \in Seq(CallIds)
  BY <1>1, PickedIs
<1> QED
  BY <1>2, RecordCancelledIs, ResultsAreTyped

LEMMA CancelledKeepsHead ==
    ASSUME NEW turns, NEW n \in turns, NEW h \in Seq(MessageType(turns)), Headed(h),
           NEW ids \in Seq(CallIds)
    PROVE  /\ RecordCancelledToolResults(h, n, ids) \in Seq(MessageType(turns))
           /\ Headed(RecordCancelledToolResults(h, n, ids))
<1>1. RecordCancelledToolResults(h, n, ids) \in Seq(MessageType(turns))
  BY RecordCancelledIsTyped
<1> DEFINE missing == Picked(ids, Missing(h, ids))
<1>2. Missing(h, ids) \in SUBSET (1..Len(ids))
  BY DEF Missing
<1>3. missing \in Seq(CallIds)
  BY <1>2, PickedIs
<1>4. RecordCancelledToolResults(h, n, ids) = AppendResults(h, n, missing)
  BY RecordCancelledIs
<1> HIDE DEF missing
<1>5. Len(missing) \in Nat /\ DOMAIN missing = 1..Len(missing)
  BY <1>3
<1>6. Headed(AppendResults(h, n, missing))
  BY <1>5, ResultsKeepHead
<1> QED
  BY <1>1, <1>4, <1>6

\* What has no result yet, if it is asked for at all, gets one.
LEMMA CancelledMends ==
    ASSUME NEW turns, NEW h \in Seq(MessageType(turns)), NEW turn \in turns,
           NEW ids \in Seq(CallIds),
           \A k \in 1..Len(ids) : Recorded(h, ids[k]) \/ Uncalled(h, ids[k]),
           NEW g, g = RecordCancelledToolResults(h, turn, ids)
    PROVE  /\ Mendable(h) => Mendable(g)
           /\ \A all : IdsWithin(h, all) /\ (\A k \in 1..Len(ids) : ids[k] \in all)
                         => IdsWithin(g, all)
           /\ Headed(h) => Headed(g)
<1> DEFINE S == Missing(h, ids)
           missing == Picked(ids, S)
           N == Cardinality(S)
<1>1. S \in SUBSET (1..Len(ids))
  BY DEF Missing
<1>2. /\ N \in Nat /\ missing \in Seq(CallIds) /\ Len(missing) = N
      /\ Lists(Ascending(S), S)
      /\ \A k \in 1..N : missing[k] = ids[Ascending(S)[k]]
  BY <1>1, PickedIs
<1>3. DOMAIN missing = 1..N
  BY <1>2
<1>4. g = AppendResults(h, turn, missing) /\ g \in Seq(MessageType(turns))
  BY RecordCancelledIs, RecordCancelledIsTyped
<1>5. ASSUME NEW k \in 1..N
      PROVE  \E l \in 1..Len(ids) : missing[k] = ids[l] /\ Uncalled(h, ids[l])
  <2>1. Ascending(S)[k] \in S
    BY <1>2 DEF Lists
  <2>2. Ascending(S)[k] \in 1..Len(ids) /\ ~Recorded(h, ids[Ascending(S)[k]])
    BY <2>1 DEF Missing
  <2> QED
    BY <1>2, <2>2
<1> HIDE DEF S, missing, N
<1>6. \A k \in 1..N : Uncalled(h, missing[k])
  BY <1>5
<1>7. /\ Mendable(h) => Mendable(g)
      /\ \A all : IdsWithin(h, all) /\ (\A k \in 1..N : missing[k] \in all) => IdsWithin(g, all)
  BY <1>2, <1>3, <1>4, <1>6, StrayResults
<1>8. Headed(h) => Headed(g)
  BY <1>2, <1>3, <1>4, ResultsKeepHead
<1> QED
  BY <1>5, <1>7, <1>8

-----------------------------------------------------------------------------
(* Fewer messages *)

\* The last message is taken back, and is not a result.
LEMMA TakenBack ==
    ASSUME NEW T, NEW h \in Seq(T), NEW g \in Seq(T), Extends(h, g), Len(h) = Len(g) + 1,
           ~IsTool(h[Len(h)])
    PROVE  /\ Sound(h) => Sound(g)
           /\ Once(h) => Once(g)
           /\ MetTo(h, Len(h)) => MetTo(g, Len(g))
           /\ Mendable(h) => Mendable(g)
           /\ \A ids : IdsWithin(h, ids) => IdsWithin(g, ids)
<1>0. Len(h) \in Nat /\ Len(g) \in Nat /\ \A i \in 1..Len(g) : i \in 1..Len(h) /\ h[i] = g[i]
  BY DEF Extends
<1>1. /\ \A j, i \in 1..Len(g) : Follows(h, j, i) <=> Follows(g, j, i)
      /\ \A j \in 1..Len(g) : \A id : Calls(h, j, id) <=> Calls(g, j, id)
  BY ExtendedIs
<1>2. ASSUME NEW j \in 1..Len(h), NEW i \in 1..Len(h), Follows(h, j, i)
      PROVE  i \in 1..Len(g) /\ j \in 1..Len(g)
  BY <1>0, <1>2 DEF Follows
<1>3. ASSUME Sound(h), NEW i \in 1..Len(g), IsTool(g[i])
      PROVE  \E j \in 1..Len(g) : Follows(g, j, i) /\ Calls(g, j, g[i].calls[1])
  <2>1. PICK j \in 1..Len(h) : Follows(h, j, i) /\ Calls(h, j, h[i].calls[1])
    BY <1>0, <1>3 DEF Sound
  <2> QED
    BY <1>0, <1>1, <1>2, <2>1
<1>4. Once(h) => Once(g)
  BY <1>0, <1>1 DEF Once
<1>5. ASSUME MetTo(h, Len(h))
      PROVE  MetTo(g, Len(g))
  <2>1. ASSUME NEW j \in 1..Len(g), IsAssistant(g[j]), NEW id \in Range(g[j].calls)
        PROVE  \E i \in 1..Len(g) : Follows(g, j, i) /\ g[i].calls[1] = id
    <3>1. PICK i \in 1..Len(h) : Follows(h, j, i) /\ h[i].calls[1] = id
      BY <1>0, <1>5, <2>1 DEF MetTo, Met
    <3> QED
      BY <1>0, <1>1, <1>2, <3>1
  <2> QED
    BY <2>1 DEF MetTo, Met
<1>6. Loose(h) => Loose(g)
  BY <1>0, <1>1 DEF Loose
<1>7. OwnIds(h) => OwnIds(g)
  BY <1>0, <1>1 DEF OwnIds
<1>8. \A ids : IdsWithin(h, ids) => IdsWithin(g, ids)
  BY <1>0 DEF IdsWithin
<1> QED
  BY <1>3, <1>4, <1>5, <1>6, <1>7, <1>8 DEF Sound, Mendable

LEMMA ForgetKeeps ==
    ASSUME NEW T, NEW h \in Seq(T), Headed(h), NEW g, g = ForgetTrailingUserMessage(h)
    PROVE  /\ g \in Seq(T) /\ Headed(g)
           /\ Good(h) => Good(g)
           /\ Mendable(h) => Mendable(g)
           /\ \A ids : IdsWithin(h, ids) => IdsWithin(g, ids)
<1>1. CASE Last(h).role = "user"
  <2>0. /\ Len(h) \in Nat /\ Len(h) >= 1 /\ IsSystem(h[1])
        /\ \A i \in 1..Len(h) : IsSystem(h[i]) <=> i = 1
    BY DEF Headed
  <2>1. h[Len(h)].role = "user"
    BY <1>1 DEF Last
  <2>2. Len(h) > 1
    BY <2>0, <2>1 DEF IsSystem
  <2>3. g = SubSeq(h, 1, Len(h) - 1)
    BY <1>1, <2>0 DEF ForgetTrailingUserMessage, Front
  <2>4. g \in Seq(T) /\ Len(g) = Len(h) - 1 /\ \A i \in 1..Len(g) : g[i] = h[i]
    <3> DEFINE k == Len(h) - 1
    <3>1. k \in Nat /\ k <= Len(h) /\ g = SubSeq(h, 1, k)
      BY <2>0, <2>3
    <3> HIDE DEF k
    <3>2. g \in Seq(T) /\ Len(g) = k /\ \A i \in 1..Len(g) : g[i] = h[i]
      BY <3>1
    <3> QED
      BY <3>2 DEF k
  <2>5. Extends(h, g) /\ Len(h) = Len(g) + 1 /\ ~IsTool(h[Len(h)])
    BY <2>0, <2>1, <2>4 DEF Extends, IsTool
  <2>6. Headed(g)
    BY <2>0, <2>2, <2>4 DEF Headed
  <2> QED
    BY <2>4, <2>5, <2>6, TakenBack DEF Good
<1>2. CASE Last(h).role # "user"
  BY <1>2 DEF ForgetTrailingUserMessage
<1> QED
  BY <1>1, <1>2

\* What is true of h, and of g that has the messages of h from k on.
Keeps(g, h, k) ==
    /\ Sound(h) => Sound(g)
    /\ Once(h) => Once(g)
    /\ MetTo(h, Len(h) - 1) => MetTo(g, Len(g) - 1)
    /\ Mendable(h) => Mendable(g)
    /\ \A ids : IdsWithin(h, ids) => IdsWithin(g, ids)
    /\ \A id : k = Len(h) + 1 \/ Uncalled(h, id) => Uncalled(g, id)
    /\ k <= Len(h) => g # << >> /\ Last(g) = Last(h)

\* Messages without calls and results, and behind them what h has from k on.
LEMMA SuffixKeeps ==
    ASSUME NEW T, NEW h \in Seq(T), NEW p \in Seq(T), NEW k \in 1..(Len(h) + 1),
           k <= Len(h) => ~IsTool(h[k]),
           \A i \in 1..Len(p) : ~IsTool(p[i]) /\ ~IsAssistant(p[i]),
           NEW g, g = p \o SubSeq(h, k, Len(h))
    PROVE  Keeps(g, h, k)
<1> DEFINE n == Len(h)
           m == Len(p)
           d == m + 1 - k
           s == SubSeq(h, k, n)
<1>0. n \in Nat /\ m \in Nat /\ d \in Int /\ k \in Nat /\ k >= 1 /\ k <= n + 1 /\ d = m + 1 - k
  OBVIOUS
<1>1. s \in Seq(T) /\ Len(s) = n - k + 1 /\ \A i \in 1..(n - k + 1) : s[i] = h[i + k - 1]
  BY <1>0
<1> HIDE DEF s
<1>2. /\ Len(g) = m + Len(s)
      /\ \A i \in 1..m : g[i] = p[i]
      /\ \A i \in 1..Len(s) : g[m + i] = s[i]
  <2>1. g = p \o s
    BY DEF s
  <2>2. Len(p \o s) = m + Len(s)
    BY <1>1, ConcatProperties
  <2>3. ASSUME NEW i \in 1..m
        PROVE  (p \o s)[i] = p[i]
    BY <1>1
  <2>4. ASSUME NEW i \in 1..Len(s)
        PROVE  (p \o s)[m + i] = s[i]
    BY <1>1
  <2> QED
    BY <2>1, <2>2, <2>3, <2>4
<1>3. Len(g) = n + d /\ Len(g) \in Nat
  BY <1>0, <1>1, <1>2
<1>4. ASSUME NEW i \in 1..Len(g)
      PROVE  \/ i \in 1..m /\ ~IsTool(g[i]) /\ ~IsAssistant(g[i])
             \/ i - d \in k..n /\ g[i] = h[i - d]
  <2>1. CASE i <= m
    <3>1. i \in 1..m
      BY <1>0, <2>1
    <3> QED
      BY <1>2, <3>1
  <2>2. CASE i > m
    <3>1. i - d \in k..n /\ i - m \in 1..Len(s) /\ i = m + (i - m) /\ (i - m) + k - 1 = i - d
      BY <1>0, <1>1, <1>3, <2>2
    <3> QED
      BY <1>1, <1>2, <3>1
  <2> QED
    BY <1>0, <2>1, <2>2
<1>5. ASSUME NEW i \in k..n
      PROVE  i + d \in 1..Len(g) /\ i \in 1..n /\ g[i + d] = h[i]
  <2>1. i + d \in (m + 1)..Len(g) /\ i + d \in 1..Len(g) /\ (i + d) - d = i /\ i + d \notin 1..m
    BY <1>0, <1>3
  <2>2. i \in 1..n
    BY <1>0
  <2> QED
    BY <1>4, <2>1, <2>2
<1>6. /\ n \in Nat /\ m \in Nat /\ d \in Int /\ k \in Nat
      /\ \A i \in k..n : i \in Int
      /\ \A i \in 1..Len(g) : i \in Int /\ (i - d) + d = i
  BY <1>0, <1>3
<1> HIDE DEF n, m, d
\* Following is the same in both.
<1>7. ASSUME NEW j \in k..n, NEW i \in k..n, Follows(h, j, i)
      PROVE  Follows(g, j + d, i + d)
  <2>1. ASSUME NEW x \in ((j + d) + 1)..(i + d)
        PROVE  IsTool(g[x])
    <3>1. x - d \in (j + 1)..i /\ x - d \in k..n /\ (x - d) + d = x
      BY <1>6
    <3>2. g[x] = h[x - d]
      BY <1>5, <3>1
    <3> QED
      BY <1>7, <3>1, <3>2 DEF Follows
  <2>2. j + d < i + d
    BY <1>6, <1>7 DEF Follows
  <2> QED
    BY <2>1, <2>2 DEF Follows
<1>8. ASSUME NEW j \in 1..Len(g), NEW i \in 1..Len(g), Follows(g, j, i)
      PROVE  j - d \in k..n /\ i - d \in k..n /\ Follows(h, j - d, i - d)
  <2>1. IsTool(g[i]) /\ j < i
    BY <1>8, <1>3 DEF Follows
  <2>2. i - d \in k..n /\ g[i] = h[i - d]
    BY <1>4, <2>1
  <2>3. j - d \in k..n
    <3>1. ASSUME j \in 1..m
          PROVE  FALSE
      <4>1. k \in k..n
        BY <1>6, <2>2
      <4>2. k + d = m + 1 /\ k <= n
        BY <1>0, <1>6, <4>1
      <4>5. g[m + 1] = h[k]
        BY <1>5, <4>1, <4>2
      <4>3. m + 1 \in (j + 1)..i
        BY <1>0, <1>6, <2>2, <3>1
      <4>4. IsTool(g[m + 1])
        BY <1>8, <4>3 DEF Follows
      <4> QED
        BY <4>2, <4>4, <4>5 DEF n
    <3> QED
      BY <1>4, <3>1
  <2>4. ASSUME NEW x \in ((j - d) + 1)..(i - d)
        PROVE  IsTool(h[x])
    <3>1. x + d \in (j + 1)..i /\ x \in k..n
      BY <1>6, <2>2, <2>3
    <3>2. g[x + d] = h[x]
      BY <1>5, <3>1
    <3> QED
      BY <1>8, <3>1, <3>2 DEF Follows
  <2>5. j - d < i - d
    BY <1>6, <2>1
  <2> QED
    BY <2>2, <2>3, <2>4, <2>5 DEF Follows
<1>9. \A j \in k..n : \A id : Calls(h, j, id) => Calls(g, j + d, id)
  BY <1>5 DEF Calls
<1>10. ASSUME NEW j \in 1..Len(g), NEW id, Calls(g, j, id)
       PROVE  j - d \in k..n /\ g[j] = h[j - d] /\ Calls(h, j - d, id)
  BY <1>4, <1>10 DEF Calls
<1>11. \A j \in k..n : j \in 1..n /\ j + d \in 1..Len(g)
  BY <1>5
<1>12. ASSUME Sound(h), NEW i \in 1..Len(g), IsTool(g[i])
       PROVE  \E j \in 1..Len(g) : Follows(g, j, i) /\ Calls(g, j, g[i].calls[1])
  <2>1. i - d \in k..n /\ i - d \in 1..n /\ g[i] = h[i - d] /\ (i - d) + d = i
    <3>1. i - d \in k..n /\ g[i] = h[i - d]
      BY <1>4, <1>12
    <3> QED
      BY <1>6, <1>11, <3>1
  <2>2. PICK j \in 1..n : Follows(h, j, i - d) /\ Calls(h, j, h[i - d].calls[1])
    BY <1>12, <2>1 DEF Sound, n
  <2>3. j \in k..n
    <3>1. ASSUME j < k
          PROVE  FALSE
      <4>1. k \in (j + 1)..(i - d) /\ k <= n
        BY <1>6, <2>1, <3>1
      <4> QED
        BY <2>2, <4>1 DEF Follows, n
    <3> QED
      BY <1>6, <3>1
  <2> QED
    BY <1>7, <1>9, <1>11, <2>1, <2>2, <2>3
<1>13. ASSUME Once(h), NEW j \in 1..Len(g), NEW i \in 1..Len(g), NEW l \in 1..Len(g),
              Follows(g, j, i), Follows(g, j, l), g[i].calls[1] = g[l].calls[1],
              Calls(g, j, g[i].calls[1])
       PROVE  i = l
  <2>1. /\ j - d \in 1..n /\ i - d \in 1..n /\ l - d \in 1..n
        /\ Follows(h, j - d, i - d) /\ Follows(h, j - d, l - d)
    BY <1>8, <1>11, <1>13
  <2>2. g[i] = h[i - d] /\ g[l] = h[l - d]
    <3>1. i - d \in k..n /\ l - d \in k..n /\ (i - d) + d = i /\ (l - d) + d = l
      BY <1>6, <1>8, <1>13
    <3> QED
      BY <1>5, <3>1
  <2>3. Calls(h, j - d, h[i - d].calls[1])
    BY <1>10, <1>13, <2>2
  <2>4. i - d = l - d
    BY <1>13, <2>1, <2>2, <2>3 DEF Once, n
  <2> QED
    BY <1>6, <2>4
<1>14. ASSUME MetTo(h, n - 1), NEW j \in 1..(Len(g) - 1), IsAssistant(g[j]),
              NEW id \in Range(g[j].calls)
       PROVE  \E i \in 1..Len(g) : Follows(g, j, i) /\ g[i].calls[1] = id
  <2>1. j \in 1..Len(g)
    BY <1>3
  <2>2. j - d \in k..n /\ g[j] = h[j - d]
    BY <1>4, <1>14, <2>1
  <2>3. j - d \in 1..(n - 1) /\ (j - d) + d = j
    BY <1>3, <1>6, <1>11, <2>2
  <2>4. PICK i \in 1..n : Follows(h, j - d, i) /\ h[i].calls[1] = id
    BY <1>14, <2>2, <2>3 DEF MetTo, Met, n
  <2>5. i \in k..n
    BY <1>6, <2>2, <2>4 DEF Follows
  <2> QED
    BY <1>5, <1>7, <1>11, <2>2, <2>3, <2>4, <2>5
<1>15. ASSUME Loose(h), NEW i \in 1..Len(g), NEW j \in 1..Len(g), IsTool(g[i]),
              Calls(g, j, g[i].calls[1])
       PROVE  Follows(g, j, i)
  <2>1. i - d \in k..n /\ g[i] = h[i - d] /\ (i - d) + d = i
    <3>1. i - d \in k..n /\ g[i] = h[i - d]
      BY <1>4, <1>15
    <3> QED
      BY <1>6, <3>1
  <2>2. j - d \in k..n /\ Calls(h, j - d, h[i - d].calls[1]) /\ (j - d) + d = j
    BY <1>6, <1>10, <1>15, <2>1
  <2>3. Follows(h, j - d, i - d)
    BY <1>11, <1>15, <2>1, <2>2 DEF Loose, n
  <2> QED
    BY <1>7, <2>1, <2>2, <2>3
<1>16. ASSUME OwnIds(h), NEW j \in 1..Len(g), NEW l \in 1..Len(g), NEW id,
              Calls(g, j, id), Calls(g, l, id)
       PROVE  j = l
  <2>1. /\ j - d \in 1..n /\ l - d \in 1..n
        /\ Calls(h, j - d, id) /\ Calls(h, l - d, id)
    BY <1>10, <1>11, <1>16
  <2>2. j - d = l - d
    BY <1>16, <2>1 DEF OwnIds, Calls, n
  <2> QED
    BY <1>6, <2>2
<1>17. ASSUME NEW ids, IdsWithin(h, ids), NEW i \in 1..Len(g)
       PROVE  /\ IsAssistant(g[i]) => Range(g[i].calls) \subseteq ids
              /\ IsTool(g[i]) => g[i].calls[1] \in ids
  BY <1>4, <1>11, <1>17 DEF IdsWithin, n
<1>18. ASSUME NEW id, k = n + 1 \/ Uncalled(h, id), NEW j \in 1..Len(g), Calls(g, j, id)
       PROVE  FALSE
  <2>1. j - d \in k..n /\ Calls(h, j - d, id)
    BY <1>10, <1>18
  <2>2. k <= n
    BY <1>6, <2>1
  <2> QED
    BY <1>6, <1>11, <1>18, <2>1, <2>2 DEF Uncalled, n
<1>19. ASSUME k <= n
       PROVE  g # << >> /\ Last(g) = Last(h)
  <2>1. n \in k..n
    BY <1>6, <1>19
  <2>2. n + d \in 1..Len(g) /\ g[n + d] = h[n]
    BY <1>5, <2>1
  <2>3. n + d = Len(g)
    BY <1>3, <1>6
  <2>4. g[Len(g)] = h[n]
    BY <2>2, <2>3
  <2>5. g # << >>
    BY <2>2
  <2> QED
    BY <2>4, <2>5 DEF Last, n
<1>20. Sound(h) => Sound(g)
  BY <1>12 DEF Sound
<1>21. Once(h) => Once(g)
  BY <1>13 DEF Once
<1>22. MetTo(h, Len(h) - 1) => MetTo(g, Len(g) - 1)
  BY <1>14 DEF MetTo, Met, n
<1>23. Loose(h) => Loose(g)
  BY <1>15 DEF Loose
<1>24. OwnIds(h) => OwnIds(g)
  BY <1>16 DEF OwnIds
<1>25. \A ids : IdsWithin(h, ids) => IdsWithin(g, ids)
  BY <1>17 DEF IdsWithin
<1>26. \A id : k = Len(h) + 1 \/ Uncalled(h, id) => Uncalled(g, id)
  BY <1>18 DEF Uncalled, n
<1>27. k <= Len(h) => g # << >> /\ Last(g) = Last(h)
  BY <1>19 DEF n
<1> QED
  BY <1>20, <1>21, <1>22, <1>23, <1>24, <1>25, <1>26, <1>27 DEF Keeps, Mendable

-----------------------------------------------------------------------------
(* Compaction *)

\* The messages of h from a on.
Rest(h, a) == SubSeq(h, a, Len(h))

LEMMA RestIs ==
    ASSUME NEW T, NEW h \in Seq(T), NEW a \in 1..(Len(h) + 1)
    PROVE  /\ Rest(h, a) \in Seq(T)
           /\ Len(Rest(h, a)) = Len(h) - a + 1
           /\ \A i \in 1..(Len(h) - a + 1) : Rest(h, a)[i] = h[a + i - 1]
<1>1. Len(h) \in Nat /\ a \in Nat /\ a >= 1 /\ a <= Len(h) + 1 /\ \A i \in a..Len(h) : h[i] \in T
  OBVIOUS
<1> QED
  BY <1>1, SubSeqProperties DEF Rest

LEMMA RestOfRest ==
    ASSUME NEW T, NEW h \in Seq(T), NEW a \in 1..(Len(h) + 1), NEW b \in 1..(Len(h) - a + 2)
    PROVE  Rest(Rest(h, a), b) = Rest(h, a + b - 1)
<1> DEFINE r == Rest(h, a)
           c == a + b - 1
<1>0. Len(h) \in Nat /\ a \in Nat /\ b \in Nat /\ c \in 1..(Len(h) + 1)
  OBVIOUS
<1>1. /\ r \in Seq(T) /\ Len(r) = Len(h) - a + 1
      /\ \A i \in 1..(Len(h) - a + 1) : r[i] = h[a + i - 1]
  BY RestIs
<1> HIDE DEF r
<1>2. r \in Seq(T) /\ b \in 1..(Len(r) + 1)
  BY <1>0, <1>1
<1>3. /\ Rest(r, b) \in Seq(T) /\ Len(Rest(r, b)) = Len(r) - b + 1
      /\ \A i \in 1..(Len(r) - b + 1) : Rest(r, b)[i] = r[b + i - 1]
  BY <1>2, RestIs
<1> HIDE DEF c
<1>4. /\ Rest(h, c) \in Seq(T) /\ Len(Rest(h, c)) = Len(h) - c + 1
      /\ \A i \in 1..(Len(h) - c + 1) : Rest(h, c)[i] = h[c + i - 1]
  BY <1>0, RestIs
<1>5. Len(r) - b + 1 = Len(h) - c + 1
  BY <1>0, <1>1 DEF c
<1>6. ASSUME NEW i \in 1..Len(Rest(r, b))
      PROVE  Rest(r, b)[i] = Rest(h, c)[i]
  <2>1. i \in 1..(Len(r) - b + 1) /\ i \in 1..(Len(h) - c + 1)
    BY <1>3, <1>5
  <2>2. b + i - 1 \in 1..(Len(h) - a + 1) /\ a + (b + i - 1) - 1 = c + i - 1
    BY <1>0, <1>1, <2>1 DEF c
  <2> QED
    BY <1>1, <1>3, <1>4, <2>1, <2>2
<1>7. Rest(r, b) = Rest(h, c)
  BY <1>3, <1>4, <1>5, <1>6, SeqEqual
<1> QED
  BY <1>7 DEF r, c

LEMMA ToolsLead ==
    ASSUME NEW T, NEW h \in Seq(T)
    PROVE  /\ Leading(h, IsTool) \in 0..Len(h)
           /\ Leading(h, IsTool) < Len(h) => ~IsTool(h[Leading(h, IsTool) + 1])
<1> DEFINE n == Len(h)
           ends == {k \in 0..n : k < n => ~IsTool(h[k + 1])}
<1>1. n \in Nat /\ n \in ends /\ ends \subseteq Nat
  OBVIOUS
<1>2. PICK k \in ends : \A l \in ends : k <= l
  BY <1>1, SmallestExists
<1>3. ASSUME NEW i \in 1..k
      PROVE  IsTool(h[i])
  <2> DEFINE l == i - 1
  <2>1. k \in 0..n /\ i \in Int
    BY <1>1, <1>2
  <2>2. l \in 0..n /\ l + 1 = i /\ ~(k <= l)
    BY <1>1, <2>1
  <2>3. l \notin ends
    BY <1>2, <2>2
  <2> QED
    BY <2>2, <2>3
<1>4. \E m \in 0..n : (\A i \in 1..m : IsTool(h[i])) /\ (m < n => ~IsTool(h[m + 1]))
  BY <1>2, <1>3
<1> QED
  BY <1>4 DEF Leading

LEMMA HeadLeads ==
    ASSUME NEW T, NEW h \in Seq(T), Headed(h)
    PROVE  Leading(h, IsSystem) = 1 /\ SubSeq(h, 1, 1) = <<h[1]>>
<1>1. /\ Len(h) \in Nat /\ Len(h) >= 1
      /\ \A i \in 1..Len(h) : IsSystem(h[i]) <=> i = 1
  BY DEF Headed
<1>2. /\ \A i \in 1..1 : IsSystem(h[i])
      /\ 1 < Len(h) => ~IsSystem(h[1 + 1])
      /\ 1 \in 0..Len(h)
  BY <1>1
<1>3. ASSUME NEW n \in 0..Len(h), \A i \in 1..n : IsSystem(h[i]),
             n < Len(h) => ~IsSystem(h[n + 1])
      PROVE  n = 1
  <2>1. n # 0
    BY <1>1, <1>3
  <2>2. ~(n >= 2)
    <3>1. n >= 2 => 2 \in 1..n /\ 2 \in 1..Len(h)
      BY <1>1
    <3> QED
      BY <1>1, <1>3, <3>1
  <2> QED
    BY <1>1, <2>1, <2>2
<1>4. Leading(h, IsSystem) = 1
  BY <1>2, <1>3 DEF Leading
<1>5. SubSeq(h, 1, 1) = <<h[1]>>
  <2> DEFINE s == SubSeq(h, 1, 1)
             one == <<h[1]>>
  <2>1. h[1] \in T /\ \A i \in 1..1 : h[i] \in T
    BY <1>1
  <2>2. s \in Seq(T) /\ Len(s) = 1 /\ s[1] = h[1]
    <3>1. /\ s \in Seq(T) /\ Len(s) = IF 1 <= 1 THEN 1 - 1 + 1 ELSE 0
          /\ \A i \in 1..(1 - 1 + 1) : s[i] = h[1 + i - 1]
      BY <2>1, SubSeqProperties
    <3>2. 1 \in 1..(1 - 1 + 1) /\ 1 + 1 - 1 = 1
      OBVIOUS
    <3>3. s[1] = h[1 + 1 - 1]
      BY <3>1, <3>2
    <3> QED
      BY <3>1, <3>2, <3>3
  <2>3. one \in Seq(T) /\ Len(one) = 1 /\ one[1] = h[1]
    BY <2>1
  <2> HIDE DEF s, one
  <2>4. s = one
    BY <2>2, <2>3, SeqEqual
  <2> QED
    BY <2>4 DEF s, one
<1> QED
  BY <1>4, <1>5

\* What a compaction puts in front: the system message and the user's.
InFront(p, h, turns) ==
    /\ p \in Seq(MessageType(turns)) /\ Len(p) >= 1
    /\ p[1] = h[1] /\ \A i \in 2..Len(p) : p[i].role = "user"

LEMMA FrontGrows ==
    ASSUME NEW turns, NEW h, NEW p, InFront(p, h, turns),
           NEW m \in MessageType(turns), m.role = "user"
    PROVE  InFront(p \o <<m>>, h, turns)
<1>1. p \in Seq(MessageType(turns)) /\ <<m>> \in Seq(MessageType(turns)) /\ Len(<<m>>) = 1
  BY DEF InFront
<1>2. /\ p \o <<m>> \in Seq(MessageType(turns)) /\ Len(p \o <<m>>) = Len(p) + 1
      /\ \A i \in 1..(Len(p) + 1) : (p \o <<m>>)[i] = IF i <= Len(p) THEN p[i] ELSE <<m>>[i - Len(p)]
  BY <1>1, ConcatProperties
<1>3. Len(p) \in Nat /\ Len(p) >= 1
  BY <1>1 DEF InFront
<1>4. (p \o <<m>>)[Len(p) + 1] = m
  BY <1>2, <1>3
<1>5. \A i \in 1..Len(p) : (p \o <<m>>)[i] = p[i]
  BY <1>2, <1>3
<1> QED
  BY <1>2, <1>3, <1>4, <1>5 DEF InFront

\* g is such a front and the messages of h from a place on that is no result's.
IsCompaction(g, h, turns) ==
    \E p \in Seq(MessageType(turns)), k \in 2..(Len(h) + 1) :
        /\ InFront(p, h, turns)
        /\ k <= Len(h) => ~IsTool(h[k])
        /\ g = p \o Rest(h, k)

LEMMA MadeUpMessages ==
    ASSUME NEW turns, 0 \in turns
    PROVE  /\ Summary \in MessageType(turns) /\ Summary.role = "user"
           /\ Placeholder \in MessageType(turns) /\ Placeholder.role = "user"
<1>1. << >> \in Seq(CallIds)
  OBVIOUS
<1> QED
  BY <1>1 DEF Summary, Placeholder, Message, MessageType, Roles, Kinds

LEMMA TruncationIs ==
    ASSUME NEW turns, 0 \in turns, NEW h \in Seq(MessageType(turns)), NEW a \in 2..(Len(h) + 1),
           NEW p, InFront(p, h, turns), TruncateToBudget(p, Rest(h, a)) # NoRebuild
    PROVE  IsCompaction(TruncateToBudget(p, Rest(h, a)), h, turns)
<1> DEFINE tail == Rest(h, a)
           Rebuild(k) == p \o <<Placeholder>> \o SubSeq(tail, k, Len(tail))
           fits == {k \in 1..(Len(tail) + 1) :
                      /\ k <= Len(tail) => ~IsTool(tail[k])
                      /\ ~OverBudget(Rebuild(k))}
<1>1. fits # {} /\ TruncateToBudget(p, tail) = Rebuild(Min(fits))
  BY DEF TruncateToBudget
<1>2. /\ tail \in Seq(MessageType(turns)) /\ Len(tail) = Len(h) - a + 1
      /\ \A i \in 1..(Len(h) - a + 1) : tail[i] = h[a + i - 1]
  BY RestIs
<1>3. Len(h) \in Nat /\ a \in Nat /\ a >= 2
  OBVIOUS
<1> HIDE DEF tail
<1>4. fits \subseteq 1..(Len(tail) + 1) /\ fits \subseteq Nat
  BY <1>2
<1> DEFINE k == Min(fits)
<1>5. k \in fits
  <2> HIDE DEF fits
  <2>1. \E x \in fits : \A y \in fits : x =< y
    BY <1>1, <1>4, SmallestExists
  <2> QED
    BY <2>1 DEF Min
<1>6. /\ k \in 1..(Len(tail) + 1)
      /\ k <= Len(tail) => ~IsTool(tail[k])
  BY <1>5
<1>7. TruncateToBudget(p, tail) = p \o <<Placeholder>> \o Rest(tail, k)
  BY <1>1 DEF Rest
<1> HIDE DEF k, fits
<1> DEFINE c == a + k - 1
<1>8. c \in 2..(Len(h) + 1) /\ k \in 1..(Len(h) - a + 2)
  BY <1>2, <1>3, <1>6
<1>9. c <= Len(h) => ~IsTool(h[c])
  <2>1. c <= Len(h) => k \in 1..(Len(h) - a + 1) /\ k <= Len(tail)
    BY <1>2, <1>3, <1>6
  <2> QED
    BY <1>2, <1>6, <2>1
<1>10. Rest(tail, k) = Rest(h, c)
  BY <1>3, <1>8, RestOfRest DEF tail
<1>11. InFront(p \o <<Placeholder>>, h, turns)
  BY FrontGrows, MadeUpMessages
<1>12. p \o <<Placeholder>> \in Seq(MessageType(turns))
  BY <1>11 DEF InFront
<1> HIDE DEF c
<1>13. TruncateToBudget(p, tail) = (p \o <<Placeholder>>) \o Rest(h, c)
  BY <1>7, <1>10
<1>14. IsCompaction(TruncateToBudget(p, tail), h, turns)
  BY <1>8, <1>9, <1>11, <1>12, <1>13 DEF IsCompaction
<1> QED
  BY <1>14 DEF tail

\* s is what h has from a place on that is no result's.
IsRest(s, h) == \E a \in 2..(Len(h) + 1) : s = Rest(h, a) /\ (a <= Len(h) => ~IsTool(h[a]))

LEMMA SkippedIs ==
    ASSUME NEW T, NEW h \in Seq(T), NEW b \in 2..(Len(h) + 1)
    PROVE  IsRest(SkipTools(Rest(h, b)), h)
<1> DEFINE s == Rest(h, b)
           l == Leading(s, IsTool)
           a == b + l
<1>0. b \in 1..(Len(h) + 1) /\ b \in Nat /\ Len(h) \in Nat /\ b >= 2
  OBVIOUS
<1>1. /\ s \in Seq(T) /\ Len(s) = Len(h) - b + 1
      /\ \A i \in 1..(Len(h) - b + 1) : s[i] = h[b + i - 1]
  BY <1>0, RestIs
<1> HIDE DEF s
<1>2. l \in 0..Len(s) /\ (l < Len(s) => ~IsTool(s[l + 1]))
  BY <1>1, ToolsLead
<1>3. SkipTools(s) = Rest(s, l + 1)
  BY DEF SkipTools, Rest
<1> HIDE DEF l
<1>4. l + 1 \in 1..(Len(h) - b + 2) /\ a = b + (l + 1) - 1 /\ a \in 2..(Len(h) + 1)
  BY <1>0, <1>1, <1>2
<1>5. Rest(s, l + 1) = Rest(h, a)
  BY <1>0, <1>4, RestOfRest DEF s
<1>6. a <= Len(h) => ~IsTool(h[a])
  <2>1. a <= Len(h) => l < Len(s) /\ l + 1 \in 1..(Len(h) - b + 1) /\ a = b + (l + 1) - 1
    BY <1>0, <1>1, <1>2
  <2> QED
    BY <1>1, <1>2, <2>1
<1> HIDE DEF a
<1>7. IsRest(SkipTools(s), h)
  BY <1>3, <1>4, <1>5, <1>6 DEF IsRest
<1> QED
  BY <1>7 DEF s

LEMMA CompactIs ==
    ASSUME NEW turns, 0 \in turns, NEW h \in Seq(MessageType(turns)), Headed(h),
           NEW summarized, CompactHistory(h, summarized) # NoRebuild
    PROVE  IsCompaction(CompactHistory(h, summarized), h, turns)
<1> DEFINE T == MessageType(turns)
           system == SubSeq(h, 1, Leading(h, IsSystem))
           rest == Picked(h, {i \in DOMAIN h : ~IsSystem(h[i])})
           pin == TakePinned(rest)
           unpinned == SubSeq(rest, Len(pin) + 1, Len(rest))
           first == Max({1, Len(unpinned) - KeepLast + 1})
           tail == SkipTools(SubSeq(unpinned, first, Len(unpinned)))
           full == system \o pin \o <<Summary>> \o tail
           g == CompactHistory(h, summarized)
<1>1. g = IF ~summarized THEN TruncateKeepingPin(system, pin, tail)
          ELSE IF OverBudget(full) THEN system \o <<Summary>> \o tail ELSE full
  BY DEF CompactHistory
<1>2. /\ Len(h) \in Nat /\ Len(h) >= 1 /\ h[1] \in T
      /\ \A i \in 1..Len(h) : IsSystem(h[i]) <=> i = 1
  BY DEF Headed
<1>3. system = <<h[1]>>
  BY HeadLeads
<1>4. rest = Rest(h, 2)
  <2>1. {i \in DOMAIN h : ~IsSystem(h[i])} = 2..Len(h)
    BY <1>2
  <2>2. 2 \in 1..(Len(h) + 1)
    BY <1>2
  <2> QED
    BY <2>1, <2>2, PickFrom DEF Rest
<1>5. /\ rest \in Seq(T) /\ Len(rest) = Len(h) - 2 + 1
      /\ \A i \in 1..(Len(h) - 2 + 1) : rest[i] = h[2 + i - 1]
  <2>1. 2 \in 1..(Len(h) + 1)
    BY <1>2
  <2>2. /\ Rest(h, 2) \in Seq(T) /\ Len(Rest(h, 2)) = Len(h) - 2 + 1
        /\ \A i \in 1..(Len(h) - 2 + 1) : Rest(h, 2)[i] = h[2 + i - 1]
    BY <2>1, RestIs
  <2> QED
    BY <1>4, <2>2
<1> HIDE DEF system, rest, g
<1>6. \/ pin = << >> /\ Len(pin) = 0
      \/ Len(rest) >= 1 /\ pin = <<rest[1]>> /\ Len(pin) = 1 /\ rest[1].role = "user" /\ rest[1] \in T
  <2>1. CASE rest # << >> /\ IsPinnable(rest[1])
    <3>1. pin = SubSeq(rest, 1, 1) /\ rest[1].role = "user"
      BY <2>1 DEF TakePinned, IsPinnable
    <3>2. Len(rest) >= 1 /\ rest[1] \in T
      BY <1>5, <2>1
    <3>3. SubSeq(rest, 1, 1) \in Seq(T) /\ Len(SubSeq(rest, 1, 1)) = 1 /\ SubSeq(rest, 1, 1)[1] = rest[1]
      <4>1. \A i \in 1..1 : rest[i] \in T
        BY <3>2
      <4>2. /\ SubSeq(rest, 1, 1) \in Seq(T)
            /\ Len(SubSeq(rest, 1, 1)) = IF 1 <= 1 THEN 1 - 1 + 1 ELSE 0
            /\ \A i \in 1..(1 - 1 + 1) : SubSeq(rest, 1, 1)[i] = rest[1 + i - 1]
        BY <4>1, SubSeqProperties
      <4>3. 1 \in 1..(1 - 1 + 1) /\ 1 + 1 - 1 = 1
        OBVIOUS
      <4>4. SubSeq(rest, 1, 1)[1] = rest[1 + 1 - 1]
        BY <4>2, <4>3
      <4> QED
        BY <4>2, <4>3, <4>4
    <3> DEFINE one == <<rest[1]>>
    <3>4. one \in Seq(T) /\ Len(one) = 1 /\ one[1] = rest[1]
      BY <3>2
    <3> HIDE DEF one, pin
    <3>5. pin = one
      BY <3>1, <3>3, <3>4, SeqEqual
    <3> QED
      BY <3>1, <3>2, <3>4, <3>5 DEF one
  <2>2. CASE ~(rest # << >> /\ IsPinnable(rest[1]))
    BY <2>2 DEF TakePinned
  <2> QED
    BY <2>1, <2>2
<1> HIDE DEF pin
<1> DEFINE a == Len(pin) + 2
<1>7. a \in 2..(Len(h) + 1) /\ Len(pin) + 1 \in 1..(Len(h) - 2 + 2) /\ 2 + (Len(pin) + 1) - 1 = a
  <2>1. Len(pin) = 0 \/ (Len(pin) = 1 /\ Len(rest) >= 1)
    BY <1>6
  <2> DEFINE n == Len(h)
             l == Len(pin)
  <2>2. n \in Nat /\ n >= 1 /\ l \in {0, 1} /\ (l = 1 => n >= 2)
    BY <1>2, <1>5, <2>1
  <2> HIDE DEF n, l
  <2>3. l + 2 \in 2..(n + 1) /\ l + 1 \in 1..(n - 2 + 2) /\ 2 + (l + 1) - 1 = l + 2
    BY <2>2
  <2> QED
    BY <2>3 DEF n, l
<1> HIDE DEF a
<1>8. unpinned = Rest(h, a)
  <2>1. Rest(Rest(h, 2), Len(pin) + 1) = Rest(h, a)
    BY <1>2, <1>7, RestOfRest
  <2> QED
    BY <1>4, <2>1 DEF Rest
<1>9. Len(unpinned) = Len(h) - a + 1 /\ Len(unpinned) \in Nat
  <2>1. a \in 1..(Len(h) + 1) /\ a \in Nat
    BY <1>7
  <2>2. Len(Rest(h, a)) = Len(h) - a + 1
    BY <2>1, RestIs
  <2> DEFINE n == Len(h)
  <2>3. n \in Nat /\ a \in 2..(n + 1)
    BY <1>2, <1>7
  <2> HIDE DEF n
  <2>4. n - a + 1 \in Nat
    BY <2>3
  <2> QED
    BY <1>8, <2>2, <2>4 DEF n
<1> HIDE DEF unpinned
<1>10. first \in 1..(Len(unpinned) + 1)
  <2> DEFINE x == Len(unpinned) - KeepLast + 1
             m == IF x > 1 THEN x ELSE 1
  <2>1. KeepLast \in Nat /\ KeepLast >= 1
    BY ConversationAssumption DEF ConversationAssumption
  <2>2. x \in Int /\ x <= Len(unpinned)
    BY <1>9, <2>1
  <2> HIDE DEF x
  <2>3. m \in {1, x} /\ \A y \in {1, x} : m >= y
    BY <2>2
  <2>4. ASSUME NEW z \in {1, x}, \A y \in {1, x} : z >= y
        PROVE  z = m
    BY <2>2, <2>4
  <2>5. Max({1, x}) = m
    BY <2>3, <2>4 DEF Max
  <2>6. first = Max({1, x})
    BY DEF x
  <2> QED
    BY <1>9, <2>2, <2>5, <2>6
<1> HIDE DEF first
<1> DEFINE b == a + first - 1
<1>11. b \in 2..(Len(h) + 1) /\ first \in 1..(Len(h) - a + 2) /\ a \in 1..(Len(h) + 1)
  BY <1>2, <1>7, <1>9, <1>10
<1> HIDE DEF b
<1>12. SubSeq(unpinned, first, Len(unpinned)) = Rest(h, b)
  <2>1. Rest(Rest(h, a), first) = Rest(h, b)
    BY <1>11, RestOfRest DEF b
  <2> QED
    BY <1>8, <2>1 DEF Rest
<1>13. PICK c \in 2..(Len(h) + 1) : tail = Rest(h, c) /\ (c <= Len(h) => ~IsTool(h[c]))
  <2>1. tail = SkipTools(Rest(h, b))
    BY <1>12
  <2> HIDE DEF tail
  <2>2. IsRest(tail, h)
    BY <1>11, <2>1, SkippedIs
  <2> QED
    BY <2>2 DEF IsRest
<1> HIDE DEF tail
<1>14. InFront(system, h, turns)
  <2>1. <<h[1]>> \in Seq(T) /\ Len(<<h[1]>>) = 1 /\ <<h[1]>>[1] = h[1]
    BY <1>2
  <2>2. 2..1 = {}
    OBVIOUS
  <2> QED
    BY <1>3, <2>1, <2>2 DEF InFront
<1>15. InFront(system \o pin, h, turns)
  <2>1. CASE pin = << >>
    <3>1. system \in Seq(T)
      BY <1>14 DEF InFront
    <3>2. system \o << >> = system
      BY <3>1, ConcatEmptySeq
    <3> QED
      BY <1>14, <2>1, <3>2
  <2>2. CASE pin = <<rest[1]>> /\ rest[1].role = "user" /\ rest[1] \in T
    BY <1>14, <2>2, FrontGrows
  <2> QED
    BY <1>6, <2>1, <2>2
<1>16. \A p : InFront(p, h, turns) => p \in Seq(T)
  BY DEF InFront
<1>17. CASE ~summarized
  <2>1. g = TruncateToBudget(system \o pin, tail) \/ g = TruncateToBudget(system, tail)
    BY <1>1, <1>17 DEF TruncateKeepingPin
  <2>2. g # NoRebuild
    BY DEF g
  <2> QED
    BY <1>13, <1>14, <1>15, <2>1, <2>2, TruncationIs DEF g
<1>18. CASE summarized
  <2>1. InFront(system \o <<Summary>>, h, turns) /\ InFront(system \o pin \o <<Summary>>, h, turns)
    BY <1>14, <1>15, FrontGrows, MadeUpMessages
  <2>2. g = (system \o <<Summary>>) \o tail \/ g = (system \o pin \o <<Summary>>) \o tail
    BY <1>1, <1>18
  <2>3. IsCompaction(g, h, turns)
    BY <1>13, <1>16, <2>1, <2>2 DEF IsCompaction
  <2> QED
    BY <2>3 DEF g
<1> QED
  BY <1>17, <1>18

\* A compaction keeps a pairing: it drops a reply with its results, or the
\* reply whose calls are about to run.
LEMMA CompactionKeeps ==
    ASSUME NEW turns, NEW h \in Seq(MessageType(turns)), Headed(h), NEW g,
           IsCompaction(g, h, turns)
    PROVE  /\ g \in Seq(MessageType(turns)) /\ Headed(g)
           /\ Sound(h) => Sound(g)
           /\ Once(h) => Once(g)
           /\ MetTo(h, Len(h) - 1) => MetTo(g, Len(g) - 1)
           /\ Mendable(h) => Mendable(g)
           /\ \A ids : IdsWithin(h, ids) => IdsWithin(g, ids)
           /\ \A id : Uncalled(h, id) => Uncalled(g, id)
           /\ \/ g # << >> /\ Last(g) = Last(h)
              \/ \A id : Uncalled(g, id)
<1> DEFINE T == MessageType(turns)
<1>1. PICK p \in Seq(T), k \in 2..(Len(h) + 1) :
        /\ InFront(p, h, turns)
        /\ k <= Len(h) => ~IsTool(h[k])
        /\ g = p \o SubSeq(h, k, Len(h))
  BY DEF IsCompaction, Rest
<1>2. /\ Len(h) \in Nat /\ Len(h) >= 1 /\ IsSystem(h[1])
      /\ \A i \in 1..Len(h) : IsSystem(h[i]) <=> i = 1
  BY DEF Headed
<1>3. /\ Len(p) \in Nat /\ Len(p) >= 1 /\ p[1] = h[1]
      /\ \A i \in 2..Len(p) : p[i].role = "user"
  BY <1>1 DEF InFront
<1>4. \A i \in 1..Len(p) : ~IsTool(p[i]) /\ ~IsAssistant(p[i]) /\ (IsSystem(p[i]) <=> i = 1)
  <2>1. \A i \in 1..Len(p) : i = 1 \/ i \in 2..Len(p)
    BY <1>3
  <2> QED
    BY <1>2, <1>3, <2>1 DEF IsTool, IsAssistant, IsSystem
<1>5. k \in 1..(Len(h) + 1) /\ k \in Nat /\ k >= 2 /\ k <= Len(h) + 1
  BY <1>2
<1>6. Keeps(g, h, k)
  <2>1. k \in 1..(Len(h) + 1) /\ g = p \o SubSeq(h, k, Len(h)) /\ (k <= Len(h) => ~IsTool(h[k]))
    BY <1>1, <1>5
  <2>2. h \in Seq(T) /\ p \in Seq(T)
    BY <1>1
  <2>3. \A i \in 1..Len(p) : ~IsTool(p[i]) /\ ~IsAssistant(p[i])
    BY <1>4
  <2> HIDE DEF T
  <2> QED
    BY <2>1, <2>2, <2>3, SuffixKeeps
<1> DEFINE s == Rest(h, k)
<1>7. /\ s \in Seq(T) /\ Len(s) = Len(h) - k + 1
      /\ \A i \in 1..(Len(h) - k + 1) : s[i] = h[k + i - 1]
  BY <1>5, RestIs
<1>8. g = p \o s
  BY <1>1 DEF Rest
<1> HIDE DEF s
<1>9. /\ g \in Seq(T) /\ Len(g) = Len(p) + Len(s)
      /\ \A i \in 1..(Len(p) + Len(s)) : g[i] = IF i <= Len(p) THEN p[i] ELSE s[i - Len(p)]
  BY <1>7, <1>8, ConcatProperties
<1>10. Headed(g)
  <2>1. ASSUME NEW i \in 1..Len(g)
        PROVE  IsSystem(g[i]) <=> i = 1
    <3>1. CASE i <= Len(p)
      <4>1. i \in 1..Len(p) /\ g[i] = p[i]
        BY <1>3, <1>7, <1>9, <3>1
      <4> QED
        BY <1>4, <4>1
    <3>2. CASE ~(i <= Len(p))
      <4> DEFINE l == i - Len(p)
      <4>1. l \in 1..(Len(h) - k + 1) /\ i # 1 /\ g[i] = s[l]
        BY <1>2, <1>3, <1>5, <1>7, <1>9, <3>2
      <4>2. k + l - 1 \in 1..Len(h) /\ k + l - 1 # 1
        BY <1>2, <1>5, <4>1
      <4>3. g[i] = h[k + l - 1]
        BY <1>7, <4>1
      <4> QED
        BY <1>2, <4>1, <4>2, <4>3
    <3> QED
      BY <3>1, <3>2
  <2>2. Len(g) >= 1
    BY <1>2, <1>3, <1>5, <1>7, <1>9
  <2> QED
    BY <2>1, <2>2 DEF Headed
<1>11. k = Len(h) + 1 \/ k <= Len(h)
  BY <1>2, <1>5
<1> QED
  BY <1>6, <1>9, <1>10, <1>11 DEF Keeps

-----------------------------------------------------------------------------
(* Carrying a conversation over *)

Answered(h) == {h[i].calls[1] : i \in {j \in DOMAIN h : IsTool(h[j])}}

Kept(h) ==
    [i \in DOMAIN h |->
        IF IsAssistant(h[i])
        THEN [h[i] EXCEPT !.calls =
                 Picked(h[i].calls, {c \in DOMAIN h[i].calls : h[i].calls[c] \in Answered(h)})]
        ELSE h[i]]

IsCarried(h, i) ==
    CASE IsSystem(h[i]) -> FALSE
      [] IsAssistant(h[i]) -> h[i].calls = << >> \/ Kept(h)[i].calls # << >> \/ HasText(h[i])
      [] IsTool(h[i]) -> \E j \in 1..(i - 1) : Calls(Kept(h), j, h[i].calls[1])
      [] OTHER -> TRUE

CarriedPlaces(h) == {i \in DOMAIN h : IsCarried(h, i)}

LEMMA CarryIs ==
    ASSUME NEW h
    PROVE  CarryoverHistory(h) = Picked(Kept(h), CarriedPlaces(h))
BY DEF CarryoverHistory, Kept, CarriedPlaces, IsCarried, Answered

LEMMA PlaceIs ==
    ASSUME NEW h, NEW i
    PROVE  /\ IsSystem(h[i]) => ~IsCarried(h, i)
           /\ IsAssistant(h[i]) =>
                (IsCarried(h, i) <=> h[i].calls = << >> \/ Kept(h)[i].calls # << >> \/ HasText(h[i]))
           /\ IsTool(h[i]) =>
                (IsCarried(h, i) <=> \E j \in 1..(i - 1) : Calls(Kept(h), j, h[i].calls[1]))
           /\ ~IsSystem(h[i]) /\ ~IsAssistant(h[i]) /\ ~IsTool(h[i]) => IsCarried(h, i)
<1>1. /\ IsAssistant(h[i]) => ~IsTool(h[i]) /\ ~IsSystem(h[i])
      /\ IsSystem(h[i]) => ~IsTool(h[i])
  BY RolesDiffer
<1>2. CASE IsSystem(h[i])
  BY <1>1, <1>2 DEF IsCarried
<1>3. CASE IsAssistant(h[i])
  BY <1>1, <1>3 DEF IsCarried
<1>4. CASE IsTool(h[i])
  BY <1>1, <1>4 DEF IsCarried
<1>5. CASE ~IsSystem(h[i]) /\ ~IsAssistant(h[i]) /\ ~IsTool(h[i])
  BY <1>5 DEF IsCarried
<1> QED
  BY <1>1, <1>2, <1>3, <1>4, <1>5

KeepsOf(h, i) ==
    /\ Kept(h)[i].role = h[i].role
    /\ ~IsAssistant(h[i]) => Kept(h)[i] = h[i]
    /\ IsAssistant(h[i]) => Range(Kept(h)[i].calls) = Range(h[i].calls) \cap Answered(h)

LEMMA KeptIs ==
    ASSUME NEW turns, NEW h \in Seq(MessageType(turns))
    PROVE  /\ Kept(h) \in Seq(MessageType(turns)) /\ Len(Kept(h)) = Len(h)
           /\ CarriedPlaces(h) \in SUBSET (1..Len(h))
           /\ \A i \in 1..Len(h) : KeepsOf(h, i)
<1> DEFINE T == MessageType(turns)
           S(i) == {c \in DOMAIN h[i].calls : h[i].calls[c] \in Answered(h)}
<1>1. DOMAIN h = 1..Len(h) /\ Len(h) \in Nat
  OBVIOUS
<1>2. ASSUME NEW i \in 1..Len(h), IsAssistant(h[i])
      PROVE  /\ Kept(h)[i] \in T
             /\ Kept(h)[i].role = h[i].role
             /\ Range(Kept(h)[i].calls) = Range(h[i].calls) \cap Answered(h)
  <2> DEFINE calls == h[i].calls
             picked == Picked(calls, S(i))
  <2>1. h[i] \in T
    OBVIOUS
  <2>2. calls \in Seq(CallIds)
    BY <2>1 DEF MessageType
  <2>3. S(i) \in SUBSET (1..Len(calls)) /\ DOMAIN calls = 1..Len(calls)
    BY <2>2
  <2>4. picked \in Seq(CallIds)
    BY <2>2, <2>3, PickedIs
  <2>5. Kept(h)[i] = [h[i] EXCEPT !.calls = picked]
    BY <1>1, <1>2 DEF Kept
  <2> HIDE DEF picked
  <2>6. Kept(h)[i] \in T /\ Kept(h)[i].role = h[i].role /\ Kept(h)[i].calls = picked
    BY <2>1, <2>4, <2>5 DEF MessageType
  <2>7. /\ \A k \in 1..Len(picked) : \E c \in S(i) : picked[k] = calls[c]
        /\ \A c \in S(i) : \E k \in 1..Len(picked) : picked[k] = calls[c]
    BY <2>2, <2>3, PickedValues DEF picked
  <2>8. Range(picked) = Range(calls) \cap Answered(h)
    <3>1. DOMAIN picked = 1..Len(picked)
      BY <2>4
    <3>2. ASSUME NEW x \in Range(picked)
          PROVE  x \in Range(calls) \cap Answered(h)
      <4>1. PICK k \in 1..Len(picked) : x = picked[k]
        BY <3>1 DEF Range
      <4> QED
        BY <2>7, <4>1 DEF Range
    <3>3. ASSUME NEW x \in Range(calls) \cap Answered(h)
          PROVE  x \in Range(picked)
      <4>1. PICK c \in DOMAIN calls : x = calls[c]
        BY DEF Range
      <4>2. c \in S(i)
        BY <4>1
      <4> QED
        BY <2>7, <3>1, <4>1, <4>2 DEF Range
    <3> QED
      BY <3>2, <3>3
  <2> QED
    BY <2>6, <2>8
<1>3. ASSUME NEW i \in 1..Len(h), ~IsAssistant(h[i])
      PROVE  Kept(h)[i] \in T /\ Kept(h)[i] = h[i]
  BY <1>1, <1>3 DEF Kept
<1>4. Kept(h) = [i \in 1..Len(h) |-> Kept(h)[i]]
  BY <1>1 DEF Kept
<1>5. Kept(h) \in Seq(T) /\ Len(Kept(h)) = Len(h)
  <2>1. \A i \in 1..Len(h) : Kept(h)[i] \in T
    BY <1>2, <1>3
  <2>2. Kept(h) \in [1..Len(h) -> T]
    BY <1>4, <2>1
  <2> QED
    BY <1>1, <2>2, IsASeq
<1>6. CarriedPlaces(h) \in SUBSET (1..Len(h))
  BY <1>1 DEF CarriedPlaces
<1> QED
  BY <1>2, <1>3, <1>5, <1>6 DEF KeepsOf

\* f is the system message of h and what is carried over of h, in h's order.
Carries(f, h, o) ==
    /\ Len(f) \in Nat /\ Len(f) >= 1
    /\ o \in [1..Len(f) -> 1..Len(h)]
    /\ \A k, l \in 1..Len(f) : k < l => o[k] < o[l]
    /\ \A k \in 1..Len(f) : f[k] = Kept(h)[o[k]] /\ (o[k] = 1 <=> k = 1)
    /\ \A k \in 1..Len(f) : o[k] \in {1} \cup CarriedPlaces(h)
    /\ \A i \in {1} \cup CarriedPlaces(h) : \E k \in 1..Len(f) : o[k] = i

LEMMA CarriedIs ==
    ASSUME NEW turns, NEW h \in Seq(MessageType(turns)), Headed(h),
           NEW f, f = <<h[1]>> \o CarryoverHistory(h)
    PROVE  f \in Seq(MessageType(turns)) /\ \E o : Carries(f, h, o)
<1> DEFINE T == MessageType(turns)
           C == CarriedPlaces(h)
           m == Cardinality(C)
           rest == Picked(Kept(h), C)
           order == Ascending(C)
           o == [k \in 1..(m + 1) |-> IF k = 1 THEN 1 ELSE order[k - 1]]
<1>1. /\ Len(h) \in Nat /\ Len(h) >= 1 /\ h[1] \in T /\ IsSystem(h[1])
      /\ \A i \in 1..Len(h) : IsSystem(h[i]) <=> i = 1
  BY DEF Headed
<1>2. /\ Kept(h) \in Seq(T) /\ Len(Kept(h)) = Len(h)
      /\ C \in SUBSET (1..Len(h)) /\ C \in SUBSET (1..Len(Kept(h)))
      /\ Kept(h)[1] = h[1]
  <2>1. ~IsAssistant(h[1])
    BY <1>1, RolesDiffer
  <2>2. /\ Kept(h) \in Seq(T) /\ Len(Kept(h)) = Len(h) /\ C \in SUBSET (1..Len(h))
        /\ \A i \in 1..Len(h) : KeepsOf(h, i)
    BY KeptIs
  <2>3. KeepsOf(h, 1)
    BY <1>1, <2>2
  <2> QED
    BY <2>1, <2>2, <2>3 DEF KeepsOf
<1>3. 1 \notin C
  BY <1>1, PlaceIs DEF CarriedPlaces
<1>4. /\ m \in Nat /\ Lists(order, C) /\ rest \in Seq(T) /\ Len(rest) = m
      /\ \A k \in 1..m : rest[k] = Kept(h)[order[k]]
  BY <1>2, PickedIs
<1>5. /\ order \in [1..m -> C]
      /\ \A k, l \in 1..m : k < l => order[k] < order[l]
      /\ \A i \in C : \E k \in 1..m : order[k] = i
  BY <1>4 DEF Lists
<1>6. f = <<h[1]>> \o rest
  BY CarryIs
<1> HIDE DEF C, m, rest, order
<1>7. /\ f \in Seq(T) /\ Len(f) = m + 1
      /\ f[1] = h[1] /\ \A k \in 2..(m + 1) : f[k] = rest[k - 1]
  <2>1. <<h[1]>> \in Seq(T) /\ Len(<<h[1]>>) = 1 /\ <<h[1]>>[1] = h[1]
    BY <1>1
  <2> DEFINE one == <<h[1]>>
  <2>2. one \in Seq(T) /\ Len(one) = 1 /\ one[1] = h[1]
    BY <2>1
  <2> HIDE DEF one
  <2>4. f = one \o rest
    BY <1>6 DEF one
  <2> DEFINE joined == one \o rest
  <2>3. /\ joined \in Seq(T) /\ Len(joined) = Len(one) + Len(rest)
        /\ \A i \in 1..(Len(one) + Len(rest)) :
             joined[i] = IF i <= Len(one) THEN one[i] ELSE rest[i - Len(one)]
    BY <1>4, <2>2, ConcatProperties
  <2>7. f = joined
    BY <2>4
  <2> HIDE DEF joined
  <2>5. joined \in Seq(T) /\ Len(joined) = m + 1
    BY <1>4, <2>2, <2>3
  <2>6. \A i \in 1..(m + 1) : joined[i] = IF i <= 1 THEN one[i] ELSE rest[i - 1]
    BY <1>4, <2>2, <2>3
  <2>8. 1 \in 1..(m + 1) /\ \A k \in 2..(m + 1) : k \in 1..(m + 1) /\ ~(k <= 1)
    BY <1>4
  <2>9. joined[1] = h[1] /\ \A k \in 2..(m + 1) : joined[k] = rest[k - 1]
    BY <2>2, <2>6, <2>8
  <2> QED
    BY <2>5, <2>7, <2>9
<1>8. \A k \in 2..(m + 1) : k - 1 \in 1..m
  BY <1>4
<1>9. ASSUME NEW k \in 1..(m + 1)
      PROVE  /\ o[k] \in {1} \cup C /\ o[k] \in 1..Len(h) /\ f[k] = Kept(h)[o[k]]
             /\ o[k] = 1 <=> k = 1
             /\ k # 1 => o[k] = order[k - 1] /\ k - 1 \in 1..m /\ o[k] \in C
             /\ k = 1 => o[k] = 1
  <2>1. CASE k = 1
    BY <1>1, <1>2, <1>7, <2>1
  <2>2. CASE k # 1
    <3>1. k \in 2..(m + 1) /\ k - 1 \in 1..m
      BY <1>4, <2>2
    <3>2. o[k] = order[k - 1] /\ order[k - 1] \in C
      BY <1>5, <2>2, <3>1
    <3>3. f[k] = Kept(h)[order[k - 1]]
      BY <1>4, <1>7, <3>1
    <3> QED
      BY <1>2, <1>3, <2>2, <3>1, <3>2, <3>3
  <2> QED
    BY <2>1, <2>2
<1>10. o \in [1..(m + 1) -> 1..Len(h)]
  BY <1>9
<1> HIDE DEF o
<1>11. ASSUME NEW k \in 1..(m + 1), NEW l \in 1..(m + 1), k < l
       PROVE  o[k] < o[l]
  <2>1. l # 1 /\ o[l] = order[l - 1] /\ l - 1 \in 1..m /\ o[l] \in C /\ o[l] \in 1..Len(h)
    BY <1>4, <1>9, <1>11
  <2>2. CASE k = 1
    BY <1>1, <1>3, <1>9, <2>1, <2>2
  <2>3. CASE k # 1
    <3>1. o[k] = order[k - 1] /\ k - 1 \in 1..m /\ k - 1 < l - 1
      BY <1>4, <1>9, <1>11, <2>3
    <3> QED
      BY <1>5, <2>1, <3>1
  <2> QED
    BY <2>2, <2>3
<1>12. ASSUME NEW i \in {1} \cup C
       PROVE  \E k \in 1..(m + 1) : o[k] = i
  <2>1. CASE i = 1
    <3>1. 1 \in 1..(m + 1)
      BY <1>4
    <3> QED
      BY <1>9, <2>1, <3>1
  <2>2. CASE i \in C
    <3>1. PICK k \in 1..m : order[k] = i
      BY <1>5, <2>2
    <3>2. k + 1 \in 1..(m + 1) /\ k + 1 # 1 /\ (k + 1) - 1 = k
      BY <1>4
    <3>3. o[k + 1] = order[(k + 1) - 1]
      BY <1>9, <3>2
    <3> QED
      BY <3>1, <3>2, <3>3
  <2> QED
    BY <2>1, <2>2
<1>13. Carries(f, h, o)
  <2>1. Len(f) = m + 1 /\ Len(f) \in Nat /\ Len(f) >= 1
    BY <1>4, <1>7
  <2>2. o \in [1..Len(f) -> 1..Len(h)]
    BY <1>10, <2>1
  <2>3. \A k, l \in 1..Len(f) : k < l => o[k] < o[l]
    BY <1>11, <2>1
  <2>4. /\ \A k \in 1..Len(f) : f[k] = Kept(h)[o[k]] /\ (o[k] = 1 <=> k = 1)
        /\ \A k \in 1..Len(f) : o[k] \in {1} \cup C
    BY <1>9, <2>1
  <2>5. \A i \in {1} \cup C : \E k \in 1..Len(f) : o[k] = i
    BY <1>12, <2>1
  <2> QED
    BY <2>1, <2>2, <2>3, <2>4, <2>5 DEF Carries, C
<1> QED
  BY <1>7, <1>13

\* Where ids are not used again: what follows a call in h follows it in f.
LEMMA CarriesHead ==
    ASSUME NEW turns, NEW h \in Seq(MessageType(turns)), Headed(h),
           NEW f \in Seq(MessageType(turns)), NEW o, Carries(f, h, o)
    PROVE  Headed(f)
<1>1. /\ Len(f) \in Nat /\ Len(f) >= 1
      /\ \A k \in 1..Len(f) : o[k] \in 1..Len(h)
      /\ \A k \in 1..Len(f) : f[k] = Kept(h)[o[k]] /\ (o[k] = 1 <=> k = 1)
  BY DEF Carries
<1>2. \A i \in 1..Len(h) : KeepsOf(h, i)
  BY KeptIs
<1>3. ASSUME NEW k \in 1..Len(f)
      PROVE  IsSystem(f[k]) <=> k = 1
  <2>1. f[k].role = h[o[k]].role
    BY <1>1, <1>2 DEF KeepsOf
  <2> QED
    BY <1>1, <2>1 DEF Headed, IsSystem
<1> QED
  BY <1>1, <1>3 DEF Headed

LEMMA CarryMends ==
    ASSUME NEW turns, NEW h \in Seq(MessageType(turns)), Headed(h), Mendable(h),
           NEW f \in Seq(MessageType(turns)), NEW o, Carries(f, h, o)
    PROVE  /\ Headed(f) /\ Good(f) /\ Mendable(f)
           /\ \A ids : IdsWithin(h, ids) => IdsWithin(f, ids)
<1> DEFINE n == Len(f)
           N == Len(h)
<1>1. /\ n \in Nat /\ n >= 1 /\ N \in Nat
      /\ \A k \in 1..n : o[k] \in 1..N
      /\ \A k, l \in 1..n : k < l => o[k] < o[l]
      /\ \A k \in 1..n : f[k] = Kept(h)[o[k]] /\ (o[k] = 1 <=> k = 1)
      /\ \A k \in 1..n : o[k] \in {1} \cup CarriedPlaces(h)
      /\ \A i \in {1} \cup CarriedPlaces(h) : \E k \in 1..n : o[k] = i
  BY DEF Carries
<1>2. \A i \in 1..N : KeepsOf(h, i)
  BY KeptIs
<1>3. Len(h) \in Nat /\ \A i \in 1..N : IsSystem(h[i]) <=> i = 1
  BY DEF Headed
<1> HIDE DEF n, N
<1>4. ASSUME NEW k \in 1..n
      PROVE  /\ IsTool(f[k]) <=> IsTool(h[o[k]])
             /\ IsAssistant(f[k]) <=> IsAssistant(h[o[k]])
             /\ IsSystem(f[k]) <=> IsSystem(h[o[k]])
             /\ IsTool(f[k]) => f[k] = h[o[k]]
             /\ IsAssistant(f[k]) => Range(f[k].calls) = Range(h[o[k]].calls) \cap Answered(h)
  <2>1. f[k] = Kept(h)[o[k]] /\ KeepsOf(h, o[k])
    BY <1>1, <1>2
  <2>2. IsTool(h[o[k]]) => ~IsAssistant(h[o[k]])
    BY RolesDiffer
  <2> QED
    BY <2>1, <2>2 DEF KeepsOf, IsTool, IsAssistant, IsSystem
<1>5. \A i \in 1..N : IsTool(h[i]) => h[i].calls[1] \in Answered(h)
  <2>1. DOMAIN h = 1..N
    BY DEF N
  <2> QED
    BY <2>1 DEF Answered
<1>6. \A id \in Answered(h) : \E i \in 1..N : IsTool(h[i]) /\ h[i].calls[1] = id
  <2>1. DOMAIN h = 1..N
    BY DEF N
  <2> QED
    BY <2>1 DEF Answered
\* A call that is answered is carried, and the answer as well.
<1>7. ASSUME NEW i \in 1..N, NEW j \in 1..N, IsTool(h[i]), Calls(h, j, h[i].calls[1])
      PROVE  Follows(h, j, i) /\ i \in CarriedPlaces(h) /\ j \in CarriedPlaces(h)
  <2>1. Follows(h, j, i) /\ j < i
    BY <1>7 DEF Mendable, Loose, Follows, N
  <2>2. Calls(Kept(h), j, h[i].calls[1])
    BY <1>2, <1>5, <1>7 DEF Calls, KeepsOf, IsAssistant
  <2>3. DOMAIN h = 1..N /\ j \in 1..(i - 1)
    BY <2>1 DEF N
  <2>4. IsCarried(h, i)
    BY <1>7, <2>2, <2>3, PlaceIs
  <2>5. Kept(h)[j].calls # << >>
    BY <2>2 DEF Calls, Range
  <2>6. IsAssistant(h[j])
    BY <1>7 DEF Calls
  <2>7. IsCarried(h, j)
    BY <2>5, <2>6, PlaceIs
  <2> QED
    BY <2>1, <2>3, <2>4, <2>7 DEF CarriedPlaces
<1>8. ASSUME NEW k \in 1..n, NEW l \in 1..n, Follows(h, o[l], o[k])
      PROVE  Follows(f, l, k)
  <2>1. o[l] < o[k] /\ o[l] \in Int /\ o[k] \in Int
    BY <1>1, <1>8 DEF Follows
  <2>2. l < k
    <3>1. CASE k < l
      <4>1. o[k] < o[l]
        BY <1>1, <3>1
      <4> QED
        BY <2>1, <4>1
    <3>2. CASE k = l
      BY <2>1, <3>2
    <3> QED
      BY <3>1, <3>2
  <2>3. ASSUME NEW x \in (l + 1)..k
        PROVE  IsTool(f[x])
    <3>1. x \in 1..n /\ l < x /\ (x < k \/ x = k)
      BY <1>1
    <3>2. o[x] \in Int /\ o[l] < o[x] /\ (o[x] < o[k] \/ o[x] = o[k])
      BY <1>1, <3>1
    <3>3. o[x] \in (o[l] + 1)..o[k]
      BY <2>1, <3>2
    <3>4. IsTool(h[o[x]])
      BY <1>8, <3>3 DEF Follows
    <3> QED
      BY <1>4, <3>1, <3>4
  <2> QED
    BY <2>2, <2>3 DEF Follows
<1>9. ASSUME NEW k \in 1..n, NEW id, Calls(f, k, id)
      PROVE  Calls(h, o[k], id) /\ id \in Answered(h)
  BY <1>4, <1>9 DEF Calls
<1>10. ASSUME NEW k \in 1..n, NEW id, Calls(h, o[k], id), id \in Answered(h)
       PROVE  Calls(f, k, id)
  BY <1>4, <1>10 DEF Calls
\* A result of f whose call is in f follows it, in h and in f.
<1>11. ASSUME NEW k \in 1..n, NEW l \in 1..n, IsTool(f[k]), Calls(f, l, f[k].calls[1])
       PROVE  Follows(h, o[l], o[k]) /\ Follows(f, l, k)
  <2>1. o[k] \in 1..N /\ o[l] \in 1..N /\ IsTool(h[o[k]]) /\ f[k] = h[o[k]]
    BY <1>1, <1>4, <1>11
  <2>2. Calls(h, o[l], h[o[k]].calls[1])
    BY <1>9, <1>11, <2>1
  <2>3. Follows(h, o[l], o[k])
    BY <1>7, <2>1, <2>2
  <2> QED
    BY <1>8, <2>3
<1>12. Headed(f)
  BY <1>1, <1>3, <1>4 DEF Headed, n
<1>13. ASSUME NEW k \in 1..n, IsTool(f[k])
       PROVE  \E l \in 1..n : Follows(f, l, k) /\ Calls(f, l, f[k].calls[1])
  <2>1. o[k] \in 1..N /\ IsTool(h[o[k]]) /\ f[k] = h[o[k]]
    BY <1>1, <1>4, <1>13
  <2> DEFINE id == h[o[k]].calls[1]
  <2>2. PICK j \in 1..N : Calls(h, j, id)
    <3>1. o[k] # 1
      BY <1>3, <2>1, RolesDiffer
    <3>2. o[k] \in CarriedPlaces(h)
      BY <1>1, <3>1
    <3>3. IsCarried(h, o[k])
      BY <3>2 DEF CarriedPlaces
    <3>4. PICK j \in 1..(o[k] - 1) : Calls(Kept(h), j, id)
      BY <2>1, <3>3, PlaceIs
    <3>5. j \in 1..N
      BY <2>1, <1>1
    <3> QED
      BY <1>2, <3>4, <3>5 DEF Calls, KeepsOf, IsAssistant
  <2>3. Follows(h, j, o[k]) /\ j \in CarriedPlaces(h)
    BY <1>7, <2>1, <2>2
  <2>4. PICK l \in 1..n : o[l] = j
    BY <1>1, <2>3
  <2>5. id \in Answered(h)
    BY <1>5, <2>1
  <2> QED
    BY <1>8, <1>10, <2>1, <2>2, <2>3, <2>4, <2>5
<1>14. ASSUME NEW j \in 1..n, NEW i \in 1..n, NEW k \in 1..n,
              Follows(f, j, i), Follows(f, j, k), f[i].calls[1] = f[k].calls[1],
              Calls(f, j, f[i].calls[1])
       PROVE  i = k
  <2>1. IsTool(f[i]) /\ IsTool(f[k])
    <3>1. i \in (j + 1)..i /\ k \in (j + 1)..k
      BY <1>14 DEF Follows
    <3> QED
      BY <1>14, <3>1 DEF Follows
  <2>2. Follows(h, o[j], o[i]) /\ Follows(h, o[j], o[k])
    BY <1>11, <1>14, <2>1
  <2>3. f[i] = h[o[i]] /\ f[k] = h[o[k]] /\ o[i] \in 1..N /\ o[k] \in 1..N /\ o[j] \in 1..N
    BY <1>1, <1>4, <2>1
  <2>4. Calls(h, o[j], h[o[i]].calls[1])
    BY <1>9, <1>14, <2>3
  <2>5. o[i] = o[k]
    BY <1>14, <2>2, <2>3, <2>4 DEF Mendable, Once, N
  <2>6. ~(i < k) /\ ~(k < i)
    BY <1>1, <2>3, <2>5
  <2> QED
    BY <2>6
<1>15. ASSUME NEW l \in 1..n, IsAssistant(f[l]), NEW id \in Range(f[l].calls)
       PROVE  \E k \in 1..n : Follows(f, l, k) /\ f[k].calls[1] = id
  <2>1. Calls(h, o[l], id) /\ id \in Answered(h) /\ o[l] \in 1..N
    BY <1>1, <1>9, <1>15 DEF Calls
  <2>2. PICK i \in 1..N : IsTool(h[i]) /\ h[i].calls[1] = id
    BY <1>6, <2>1
  <2>3. Follows(h, o[l], i) /\ i \in CarriedPlaces(h)
    BY <1>7, <2>1, <2>2
  <2>4. PICK k \in 1..n : o[k] = i
    BY <1>1, <2>3
  <2>5. Follows(f, l, k) /\ f[k] = h[i]
    BY <1>4, <1>8, <2>2, <2>3, <2>4
  <2> QED
    BY <2>2, <2>5
<1>16. ASSUME NEW j \in 1..n, NEW k \in 1..n, NEW id, Calls(f, j, id), Calls(f, k, id)
       PROVE  j = k
  <2>1. Calls(h, o[j], id) /\ Calls(h, o[k], id) /\ o[j] \in 1..N /\ o[k] \in 1..N
    BY <1>1, <1>9, <1>16
  <2>2. o[j] = o[k]
    BY <2>1 DEF Mendable, OwnIds, Calls, N
  <2>3. ~(j < k) /\ ~(k < j)
    BY <1>1, <2>1, <2>2
  <2> QED
    BY <2>3
<1>17. ASSUME NEW ids, IdsWithin(h, ids), NEW k \in 1..n
       PROVE  /\ IsAssistant(f[k]) => Range(f[k].calls) \subseteq ids
              /\ IsTool(f[k]) => f[k].calls[1] \in ids
  <2>1. o[k] \in 1..N
    BY <1>1
  <2>2. /\ IsAssistant(h[o[k]]) => Range(h[o[k]].calls) \subseteq ids
        /\ IsTool(h[o[k]]) => h[o[k]].calls[1] \in ids
    BY <1>17, <2>1 DEF IdsWithin, N
  <2> QED
    BY <1>4, <2>2
<1>18. Good(f)
  BY <1>13, <1>14, <1>15 DEF Good, Sound, Once, MetTo, Met, n
<1>19. Mendable(f)
  BY <1>11, <1>16, <1>18 DEF Mendable, Loose, OwnIds, Good, n
<1> QED
  BY <1>12, <1>17, <1>18, <1>19 DEF IdsWithin, n

\* A conversation in which every call is answered is carried over as it is,
\* whether ids are used again or not.
LEMMA CarryWhole ==
    ASSUME NEW turns, NEW h \in Seq(MessageType(turns)), Headed(h), Good(h)
    PROVE  <<h[1]>> \o CarryoverHistory(h) = h
<1> DEFINE T == MessageType(turns)
           N == Len(h)
<1>1. /\ N \in Nat /\ N >= 1 /\ DOMAIN h = 1..N
      /\ \A i \in 1..N : h[i] \in T
      /\ \A i \in 1..N : IsSystem(h[i]) <=> i = 1
  BY DEF Headed
<1> HIDE DEF N
<1>2. ASSUME NEW i \in 1..N, IsAssistant(h[i])
      PROVE  Kept(h)[i] = h[i]
  <2> DEFINE calls == h[i].calls
             S == {c \in DOMAIN calls : calls[c] \in Answered(h)}
  <2>1. calls \in Seq(CallIds) /\ h[i] = [h[i] EXCEPT !.calls = calls]
    BY <1>1 DEF MessageType
  <2>2. ASSUME NEW c \in DOMAIN calls
        PROVE  calls[c] \in Answered(h)
    <3>1. calls[c] \in Range(h[i].calls)
      BY DEF Range
    <3>2. PICK j \in 1..N : Follows(h, i, j) /\ h[j].calls[1] = calls[c]
      BY <1>2, <3>1 DEF Good, MetTo, Met, N
    <3>3. j \in (i + 1)..j
      BY <3>2 DEF Follows
    <3>4. IsTool(h[j])
      BY <3>2, <3>3 DEF Follows
    <3> QED
      BY <1>1, <3>2, <3>4 DEF Answered
  <2>3. S = 1..Len(calls)
    BY <2>1, <2>2
  <2>4. Picked(calls, S) = calls
    BY <2>1, <2>3, PickAll
  <2>5. Kept(h)[i] = [h[i] EXCEPT !.calls = Picked(calls, S)]
    BY <1>1, <1>2 DEF Kept
  <2> QED
    BY <2>1, <2>4, <2>5
<1>3. ASSUME NEW i \in 1..N
      PROVE  Kept(h)[i] = h[i]
  BY <1>1, <1>2 DEF Kept
<1>4. Kept(h) = h
  <2>1. Kept(h) \in Seq(T) /\ Len(Kept(h)) = N
    BY KeptIs DEF N
  <2>2. Len(h) = N
    BY DEF N
  <2> QED
    BY <1>3, <2>1, <2>2, SeqEqual
<1>5. ASSUME NEW i \in 1..N
      PROVE  i \in CarriedPlaces(h) <=> i # 1
  <2>1. CASE IsSystem(h[i])
    BY <1>1, <2>1, PlaceIs DEF CarriedPlaces
  <2>2. CASE IsAssistant(h[i])
    <3>1. IsCarried(h, i)
      BY <1>3, <2>2, PlaceIs
    <3> QED
      BY <1>1, <2>2, <3>1, RolesDiffer DEF CarriedPlaces
  <2>3. CASE IsTool(h[i])
    <3>1. PICK j \in 1..N : Follows(h, j, i) /\ Calls(h, j, h[i].calls[1])
      BY <2>3 DEF Good, Sound, N
    <3>2. j \in 1..(i - 1)
      BY <3>1 DEF Follows
    <3>3. IsCarried(h, i)
      BY <1>4, <2>3, <3>1, <3>2, PlaceIs
    <3> QED
      BY <1>1, <2>3, <3>3, RolesDiffer DEF CarriedPlaces
  <2>4. CASE ~IsSystem(h[i]) /\ ~IsAssistant(h[i]) /\ ~IsTool(h[i])
    BY <1>1, <2>4, PlaceIs DEF CarriedPlaces
  <2> QED
    BY <2>1, <2>2, <2>3, <2>4
<1>6. CarriedPlaces(h) = 2..N
  <2>1. CarriedPlaces(h) \subseteq 1..N
    BY <1>1 DEF CarriedPlaces
  <2>2. \A i \in 1..N : i \in 2..N <=> i # 1
    BY <1>1
  <2>3. 2..N \subseteq 1..N
    BY <1>1
  <2> QED
    BY <1>5, <2>1, <2>2, <2>3
<1>7. CarryoverHistory(h) = SubSeq(h, 2, N)
  <2>1. 2 \in 1..(Len(h) + 1) /\ Len(h) = N
    BY <1>1 DEF N
  <2>2. Picked(h, 2..Len(h)) = SubSeq(h, 2, Len(h))
    BY <2>1, PickFrom
  <2> QED
    BY <1>4, <1>6, <2>1, <2>2, CarryIs
<1>8. SubSeq(h, 1, N) = <<h[1]>> \o SubSeq(h, 1 + 1, N)
  <2>1. 1 \in 1..Len(h) /\ N \in 1..Len(h)
    BY <1>1 DEF N
  <2> QED
    BY <2>1, SubSeqRecursiveFirst
<1>9. SubSeq(h, 1, N) = h
  BY SubSeqFull DEF N
<1>10. 1 + 1 = 2
  OBVIOUS
<1> QED
  BY <1>7, <1>8, <1>9, <1>10

-----------------------------------------------------------------------------
(* A conversation without calls: a new one, or what the engine keeps *)

NoCalls(s) == \A i \in 1..Len(s) : ~IsTool(s[i]) /\ (IsAssistant(s[i]) => s[i].calls = << >>)

NoSystem(s) == \A i \in 1..Len(s) : ~IsSystem(s[i])

LEMMA FlattenedIs ==
    ASSUME NEW turns, NEW h \in Seq(MessageType(turns))
    PROVE  FlattenForEngine(h) \in Seq(MessageType(turns)) /\ NoCalls(FlattenForEngine(h))
<1> DEFINE T == MessageType(turns)
           Plain(m) == IF IsTool(m) THEN Message("user", "result", m.turn, << >>)
                       ELSE [m EXCEPT !.calls = << >>]
           Replayed(m) == ~IsAssistant(m) \/ HasText(m)
           S == {i \in DOMAIN h : Replayed(h[i])}
           replayed == Picked(h, S)
           f == [i \in DOMAIN replayed |-> Plain(replayed[i])]
<1>1. FlattenForEngine(h) = f
  BY DEF FlattenForEngine
<1>2. S \in SUBSET (1..Len(h))
  OBVIOUS
<1>3. replayed \in Seq(T)
  BY <1>2, PickedIs
<1>4. ASSUME NEW m \in T
      PROVE  Plain(m) \in T /\ ~IsTool(Plain(m)) /\ Plain(m).calls = << >>
  <2>1. << >> \in Seq(CallIds)
    OBVIOUS
  <2>2. CASE IsTool(m)
    <3>1. Message("user", "result", m.turn, << >>) \in T
      BY <2>1 DEF Message, MessageType, Roles, Kinds
    <3> QED
      BY <2>2, <3>1 DEF Message, IsTool
  <2>3. CASE ~IsTool(m)
    <3>1. [m EXCEPT !.calls = << >>] \in T /\ [m EXCEPT !.calls = << >>].role = m.role
          /\ [m EXCEPT !.calls = << >>].calls = << >>
      BY <2>1 DEF MessageType
    <3> QED
      BY <2>3, <3>1 DEF IsTool
  <2> QED
    BY <2>2, <2>3
<1> HIDE DEF replayed, Plain
<1>5. /\ \A i \in 1..Len(replayed) : replayed[i] \in T
      /\ DOMAIN replayed = 1..Len(replayed) /\ Len(replayed) \in Nat
  BY <1>3
<1>6. f \in [1..Len(replayed) -> T]
  BY <1>4, <1>5
<1>7. f \in Seq(T) /\ Len(f) = Len(replayed)
  BY <1>5, <1>6
<1>8. NoCalls(f)
  BY <1>4, <1>5, <1>7 DEF NoCalls
<1> QED
  BY <1>1, <1>7, <1>8

LEMMA SnapshotIs ==
    ASSUME NEW turns, NEW h \in Seq(MessageType(turns))
    PROVE  EngineSnapshot(h) \in Seq(MessageType(turns)) /\ NoCalls(EngineSnapshot(h))
<1> DEFINE T == MessageType(turns)
           S == {i \in DOMAIN h : ~IsTool(h[i])}
           told == Picked(h, S)
           f == [i \in DOMAIN told |-> [told[i] EXCEPT !.calls = << >>]]
<1>1. EngineSnapshot(h) = f
  BY DEF EngineSnapshot
<1>2. S \in SUBSET (1..Len(h))
  OBVIOUS
<1>3. told \in Seq(T) /\ \A k \in 1..Len(told) : \E i \in S : told[k] = h[i]
  BY <1>2, PickedIs, PickedValues
<1>4. ASSUME NEW m \in T
      PROVE  /\ [m EXCEPT !.calls = << >>] \in T /\ [m EXCEPT !.calls = << >>].role = m.role
             /\ [m EXCEPT !.calls = << >>].calls = << >>
  <2>1. << >> \in Seq(CallIds)
    OBVIOUS
  <2> QED
    BY <2>1 DEF MessageType
<1>5. \A i \in S : ~IsTool(h[i])
  OBVIOUS
<1> HIDE DEF told, S
<1>6. /\ \A i \in 1..Len(told) : told[i] \in T /\ ~IsTool(told[i])
      /\ DOMAIN told = 1..Len(told) /\ Len(told) \in Nat
  BY <1>3, <1>5
<1>7. f \in [1..Len(told) -> T]
  BY <1>4, <1>6
<1>8. f \in Seq(T) /\ Len(f) = Len(told)
  BY <1>6, <1>7
<1>9. NoCalls(f)
  BY <1>4, <1>6, <1>8 DEF NoCalls, IsTool
<1> QED
  BY <1>1, <1>8, <1>9

LEMMA CarriedLightly ==
    ASSUME NEW turns, NEW h \in Seq(MessageType(turns)), NoCalls(h)
    PROVE  /\ CarryoverHistory(h) \in Seq(MessageType(turns))
           /\ NoCalls(CarryoverHistory(h)) /\ NoSystem(CarryoverHistory(h))
<1> DEFINE T == MessageType(turns)
           s == CarryoverHistory(h)
<1>1. /\ Kept(h) \in Seq(T) /\ Len(Kept(h)) = Len(h)
      /\ CarriedPlaces(h) \in SUBSET (1..Len(h))
      /\ \A i \in 1..Len(h) : KeepsOf(h, i)
  BY KeptIs
<1>2. CarriedPlaces(h) \in SUBSET (1..Len(Kept(h)))
  BY <1>1
<1>3. s \in Seq(T) /\ \A k \in 1..Len(s) : \E i \in CarriedPlaces(h) : s[k] = Kept(h)[i]
  <2> DEFINE g == Kept(h)
             p == Picked(g, CarriedPlaces(h))
  <2>1. s = p
    BY CarryIs
  <2>2. g \in Seq(T) /\ CarriedPlaces(h) \in SUBSET (1..Len(g))
    BY <1>1, <1>2
  <2> HIDE DEF g, s
  <2>3. p \in Seq(T)
    BY <2>2, PickedIs
  <2>4. \A k \in 1..Len(p) : \E i \in CarriedPlaces(h) : p[k] = g[i]
    BY <2>2, PickedValues
  <2> HIDE DEF p
  <2> QED
    BY <2>1, <2>3, <2>4 DEF g
<1>4. ASSUME NEW i \in CarriedPlaces(h)
      PROVE  /\ ~IsTool(Kept(h)[i]) /\ ~IsSystem(Kept(h)[i])
             /\ IsAssistant(Kept(h)[i]) => Kept(h)[i].calls = << >>
  <2>1. i \in 1..Len(h) /\ KeepsOf(h, i) /\ IsCarried(h, i)
    BY <1>1 DEF CarriedPlaces
  <2>2. ~IsSystem(h[i]) /\ ~IsTool(h[i]) /\ (IsAssistant(h[i]) => h[i].calls = << >>)
    BY <2>1, PlaceIs DEF NoCalls
  <2>3. ~IsSystem(Kept(h)[i]) /\ ~IsTool(Kept(h)[i])
    BY <2>1, <2>2 DEF KeepsOf, IsSystem, IsTool
  <2>4. ASSUME IsAssistant(Kept(h)[i])
        PROVE  Kept(h)[i].calls = << >>
    <3>1. IsAssistant(h[i])
      BY <2>1, <2>4 DEF KeepsOf, IsAssistant
    <3>2. Range(h[i].calls) = {}
      BY <2>2, <3>1 DEF Range
    <3>3. Range(Kept(h)[i].calls) = {}
      BY <2>1, <3>1, <3>2 DEF KeepsOf
    <3>4. Kept(h)[i] \in T
      BY <1>1, <2>1
    <3> DEFINE c == Kept(h)[i].calls
    <3>5. c \in Seq(CallIds)
      BY <3>4 DEF MessageType
    <3> HIDE DEF c
    <3>6. Range(c) = {}
      BY <3>3 DEF c
    <3>7. Len(c) \in Nat /\ DOMAIN c = 1..Len(c)
      BY <3>5
    <3>8. 1 \notin DOMAIN c
      BY <3>6 DEF Range
    <3>9. Len(c) = 0
      BY <3>7, <3>8
    <3>10. c = << >>
      BY <3>5, <3>9
    <3> QED
      BY <3>10 DEF c
  <2> QED
    BY <2>3, <2>4
<1> HIDE DEF s
<1>5. NoCalls(s) /\ NoSystem(s)
  BY <1>3, <1>4 DEF NoCalls, NoSystem
<1> QED
  BY <1>3, <1>5 DEF s

LEMMA LightIs ==
    ASSUME NEW turns, NEW m \in MessageType(turns), IsSystem(m),
           NEW s \in Seq(MessageType(turns)), NoCalls(s), NoSystem(s), NEW f, f = <<m>> \o s
    PROVE  /\ f \in Seq(MessageType(turns)) /\ Headed(f) /\ Good(f) /\ Mendable(f)
           /\ \A ids : IdsWithin(f, ids)
<1> DEFINE T == MessageType(turns)
           one == <<m>>
<1>1. one \in Seq(T) /\ Len(one) = 1 /\ one[1] = m
  OBVIOUS
<1>2. f = one \o s
  OBVIOUS
<1> HIDE DEF one
<1>3. /\ f \in Seq(T) /\ Len(f) = Len(one) + Len(s)
      /\ \A i \in 1..(Len(one) + Len(s)) : f[i] = IF i <= Len(one) THEN one[i] ELSE s[i - Len(one)]
  BY <1>1, <1>2, ConcatProperties
<1>4. Len(f) \in Nat /\ Len(f) >= 1 /\ Len(s) \in Nat /\ Len(f) = Len(s) + 1
  BY <1>1, <1>3
<1>5. ASSUME NEW i \in 1..Len(f)
      PROVE  \/ i = 1 /\ f[i] = m
             \/ i # 1 /\ i - 1 \in 1..Len(s) /\ f[i] = s[i - 1]
  <2>1. i \in 1..(Len(one) + Len(s))
    BY <1>3
  <2>2. f[i] = IF i <= Len(one) THEN one[i] ELSE s[i - Len(one)]
    BY <1>3, <2>1
  <2>3. CASE i = 1
    <3>1. i <= Len(one) /\ one[i] = m
      BY <1>1, <2>3
    <3>2. f[i] = m
      BY <2>2, <3>1
    <3> QED
      BY <2>3, <3>2
  <2>4. CASE i # 1
    <3>1. i > Len(one) /\ i - 1 \in 1..Len(s) /\ i - 1 = i - Len(one)
      BY <1>1, <1>4, <2>4
    <3>2. f[i] = s[i - Len(one)]
      BY <1>1, <2>2, <3>1
    <3> QED
      BY <2>4, <3>1, <3>2
  <2> QED
    BY <2>3, <2>4
<1>6. ASSUME NEW i \in 1..Len(f)
      PROVE  /\ ~IsTool(f[i]) /\ (IsSystem(f[i]) <=> i = 1)
             /\ IsAssistant(f[i]) => Range(f[i].calls) = {}
  <2>1. CASE i = 1 /\ f[i] = m
    BY <2>1, RolesDiffer
  <2>2. CASE i # 1 /\ i - 1 \in 1..Len(s) /\ f[i] = s[i - 1]
    BY <2>2 DEF NoCalls, NoSystem, Range
  <2> QED
    BY <1>5, <2>1, <2>2
<1>7. \A i, j \in 1..Len(f) : ~Follows(f, j, i)
  <2>1. ASSUME NEW i \in 1..Len(f), NEW j \in 1..Len(f), Follows(f, j, i)
        PROVE  FALSE
    <3>1. i \in (j + 1)..i
      BY <2>1 DEF Follows
    <3> QED
      BY <1>6, <2>1, <3>1 DEF Follows
  <2> QED
    BY <2>1
<1>8. Headed(f)
  BY <1>4, <1>6 DEF Headed
<1>9. Good(f)
  BY <1>6, <1>7 DEF Good, Sound, Once, MetTo, Met
<1>10. Mendable(f)
  BY <1>6, <1>9 DEF Mendable, Loose, OwnIds, Good, Calls
<1>11. \A ids : IdsWithin(f, ids)
  BY <1>6 DEF IdsWithin
<1> QED
  BY <1>3, <1>8, <1>9, <1>10, <1>11

\* Behind the system message of the new backend.
LEMMA AdoptionIs ==
    ASSUME NEW turns, NEW m \in MessageType(turns), IsSystem(m),
           NEW s \in Seq(MessageType(turns))
    PROVE  AdoptCarryover(<<m>>, s) = <<m>> \o s
<1> DEFINE one == <<m>>
<1>1. one \in Seq(MessageType(turns)) /\ Len(one) = 1 /\ one[1] = m
  OBVIOUS
<1>2. Headed(one)
  BY <1>1 DEF Headed
<1>3. Leading(one, IsSystem) = 1 /\ SubSeq(one, 1, 1) = <<one[1]>>
  BY <1>1, <1>2, HeadLeads
<1>4. CASE s = << >>
  <2>1. one \o << >> = one
    BY <1>1, ConcatEmptySeq
  <2> QED
    BY <1>4, <2>1 DEF AdoptCarryover
<1>5. CASE s # << >>
  <2>1. AdoptCarryover(one, s) = SubSeq(one, 1, Leading(one, IsSystem)) \o s
    BY <1>5 DEF AdoptCarryover
  <2> QED
    BY <1>1, <1>3, <2>1
<1> QED
  BY <1>4, <1>5

\* A conversation of its system message.
LEMMA AloneIs ==
    ASSUME NEW turns, NEW m \in MessageType(turns), IsSystem(m), NEW f, f = <<m>>
    PROVE  /\ f \in Seq(MessageType(turns)) /\ Headed(f) /\ Good(f) /\ Mendable(f)
           /\ \A ids : IdsWithin(f, ids)
<1> DEFINE s == << >>
<1>1. s \in Seq(MessageType(turns)) /\ NoCalls(s) /\ NoSystem(s)
  BY DEF NoCalls, NoSystem
<1>2. <<m>> \o s = f
  BY ConcatEmptySeq
<1> QED
  BY <1>1, <1>2, LightIs

LEMMA CarryIsTyped ==
    ASSUME NEW turns, NEW h \in Seq(MessageType(turns))
    PROVE  CarryoverHistory(h) \in Seq(MessageType(turns))
<1>1. /\ Kept(h) \in Seq(MessageType(turns)) /\ Len(Kept(h)) = Len(h)
      /\ CarriedPlaces(h) \in SUBSET (1..Len(h))
  BY KeptIs
<1>2. CarriedPlaces(h) \in SUBSET (1..Len(Kept(h)))
  BY <1>1
<1> QED
  BY <1>1, <1>2, PickedIs, CarryIs

\* The system message stays the first where others are left out.
LEMMA PickedKeepsHead ==
    ASSUME NEW T, NEW h \in Seq(T), Headed(h), NEW S \in SUBSET (1..Len(h)), 1 \in S
    PROVE  Headed(Picked(h, S))
<1> DEFINE n == Cardinality(S)
           order == Ascending(S)
           g == Picked(h, S)
<1>1. /\ n \in Nat /\ g \in Seq(T) /\ Len(g) = n
      /\ order \in [1..n -> S]
      /\ \A k, l \in 1..n : k < l => order[k] < order[l]
      /\ \A i \in S : \E k \in 1..n : order[k] = i
      /\ \A k \in 1..n : g[k] = h[order[k]]
  BY PickedIs DEF Lists
<1>2. Len(h) \in Nat /\ \A i \in 1..Len(h) : IsSystem(h[i]) <=> i = 1
  BY DEF Headed
<1> HIDE DEF n, order, g
<1>3. PICK one \in 1..n : order[one] = 1
  BY <1>1
<1>4. \A k \in 1..n : order[k] \in 1..Len(h)
  BY <1>1
<1>5. one = 1
  <2>1. CASE 1 < one
    <3>1. 1 \in 1..n
      BY <1>1, <1>3
    <3>2. order[1] < order[one]
      BY <1>1, <1>3, <2>1, <3>1
    <3>3. order[1] \in 1..Len(h)
      BY <1>4, <3>1
    <3> QED
      BY <1>3, <3>2, <3>3
  <2> QED
    BY <1>1, <1>3, <2>1
<1>6. ASSUME NEW k \in 1..n
      PROVE  IsSystem(g[k]) <=> k = 1
  <2>1. IsSystem(g[k]) <=> order[k] = 1
    BY <1>1, <1>2, <1>4
  <2>2. CASE k = 1
    BY <1>3, <1>5, <2>1, <2>2
  <2>3. CASE 1 < k
    <3>1. 1 \in 1..n
      BY <1>1
    <3>2. order[1] < order[k]
      BY <1>1, <2>3, <3>1
    <3> QED
      BY <1>3, <1>5, <2>1, <2>3, <3>2
  <2> QED
    BY <1>1, <2>2, <2>3
<1> QED
  BY <1>1, <1>3, <1>6 DEF Headed, g, n

LEMMA FlattenKeepsHead ==
    ASSUME NEW turns, NEW h \in Seq(MessageType(turns)), Headed(h)
    PROVE  Headed(FlattenForEngine(h))
<1> DEFINE Plain(m) == IF IsTool(m) THEN Message("user", "result", m.turn, << >>)
                       ELSE [m EXCEPT !.calls = << >>]
           Replayed(m) == ~IsAssistant(m) \/ HasText(m)
           S == {i \in DOMAIN h : Replayed(h[i])}
           replayed == Picked(h, S)
           f == [i \in DOMAIN replayed |-> Plain(replayed[i])]
<1>1. FlattenForEngine(h) = f
  BY DEF FlattenForEngine
<1>2. S \in SUBSET (1..Len(h))
  OBVIOUS
<1>3. 1 \in S
  BY RolesDiffer DEF Headed
<1>4. Headed(replayed) /\ replayed \in Seq(MessageType(turns))
  BY <1>2, <1>3, PickedKeepsHead, PickedIs
<1>5. ASSUME NEW m \in MessageType(turns)
      PROVE  IsSystem(Plain(m)) <=> IsSystem(m)
  BY DEF IsSystem, IsTool, Message, MessageType
<1> HIDE DEF S, replayed
<1>6. /\ Len(replayed) \in Nat /\ DOMAIN replayed = 1..Len(replayed)
      /\ \A i \in 1..Len(replayed) : replayed[i] \in MessageType(turns)
  BY <1>4
<1>7. Len(f) = Len(replayed) /\ \A i \in 1..Len(replayed) : f[i] = Plain(replayed[i])
  BY <1>6
<1>8. \A i \in 1..Len(replayed) : IsSystem(f[i]) <=> IsSystem(replayed[i])
  BY <1>5, <1>6, <1>7
<1> HIDE DEF f
<1>9. Headed(f)
  BY <1>4, <1>7, <1>8 DEF Headed
<1> QED
  BY <1>1, <1>9

LEMMA SnapshotKeepsHead ==
    ASSUME NEW turns, NEW h \in Seq(MessageType(turns)), Headed(h)
    PROVE  Headed(EngineSnapshot(h))
<1> DEFINE S == {i \in DOMAIN h : ~IsTool(h[i])}
           told == Picked(h, S)
           f == [i \in DOMAIN told |-> [told[i] EXCEPT !.calls = << >>]]
<1>1. EngineSnapshot(h) = f
  BY DEF EngineSnapshot
<1>2. S \in SUBSET (1..Len(h))
  OBVIOUS
<1>3. 1 \in S
  BY RolesDiffer DEF Headed
<1>4. Headed(told) /\ told \in Seq(MessageType(turns))
  BY <1>2, <1>3, PickedKeepsHead, PickedIs
<1>5. ASSUME NEW m \in MessageType(turns)
      PROVE  IsSystem([m EXCEPT !.calls = << >>]) <=> IsSystem(m)
  BY DEF IsSystem, MessageType
<1> HIDE DEF S, told
<1>6. /\ Len(told) \in Nat /\ DOMAIN told = 1..Len(told)
      /\ \A i \in 1..Len(told) : told[i] \in MessageType(turns)
  BY <1>4
<1>7. Len(f) = Len(told) /\ \A i \in 1..Len(told) : f[i] = [told[i] EXCEPT !.calls = << >>]
  BY <1>6
<1>8. \A i \in 1..Len(told) : IsSystem(f[i]) <=> IsSystem(told[i])
  BY <1>5, <1>6, <1>7
<1> HIDE DEF f
<1>9. Headed(f)
  BY <1>4, <1>7, <1>8 DEF Headed
<1> QED
  BY <1>1, <1>9

\* Plain text has no calls that could go unanswered.
LEMMA NoCallsIsGood ==
    ASSUME NEW h, NoCalls(h)
    PROVE  Good(h)
<1>1. ASSUME NEW i \in 1..Len(h), NEW j \in 1..Len(h)
      PROVE  ~Calls(h, j, h[i].calls[1])
  BY DEF NoCalls, Calls, Range
<1>2. ASSUME NEW j \in 1..Len(h), IsAssistant(h[j])
      PROVE  Range(h[j].calls) = {}
  BY <1>2 DEF NoCalls, Range
<1> QED
  BY <1>1, <1>2 DEF Good, Sound, Once, MetTo, Met, NoCalls

\* What is left of a conversation whose calls are all answered.
LEMMA CompactionKeepsGood ==
    ASSUME NEW turns, NEW h \in Seq(MessageType(turns)), Headed(h), Good(h), NEW g,
           IsCompaction(g, h, turns)
    PROVE  g \in Seq(MessageType(turns)) /\ Headed(g) /\ Good(g)
<1>1. /\ g \in Seq(MessageType(turns)) /\ Headed(g)
      /\ Sound(g) /\ Once(g)
      /\ MetTo(h, Len(h) - 1) => MetTo(g, Len(g) - 1)
      /\ \/ g # << >> /\ Last(g) = Last(h)
         \/ \A id : Uncalled(g, id)
  BY CompactionKeeps DEF Good
<1>2. Len(h) \in Nat /\ Len(h) >= 1 /\ Len(g) \in Nat /\ Len(g) >= 1
  BY <1>1 DEF Headed
<1>3. MetTo(g, Len(g) - 1)
  <2>1. \A j \in 1..(Len(h) - 1) : j \in 1..Len(h)
    BY <1>2
  <2>2. MetTo(h, Len(h) - 1)
    BY <2>1 DEF Good, MetTo
  <2> QED
    BY <1>1, <2>2
<1>4. ASSUME IsAssistant(g[Len(g)])
      PROVE  Met(g, Len(g))
  <2>1. Range(g[Len(g)].calls) = {}
    <3>1. CASE Last(g) = Last(h)
      <4>1. g[Len(g)] = h[Len(h)]
        BY <3>1 DEF Last
      <4>2. Met(h, Len(h))
        BY <1>2, <1>4, <4>1 DEF Good, MetTo
      <4>3. \A i \in 1..Len(h) : ~Follows(h, Len(h), i)
        BY <1>2 DEF Follows
      <4> QED
        BY <4>1, <4>2, <4>3 DEF Met
    <3>2. CASE \A id : Uncalled(g, id)
      <4>1. Len(g) \in 1..Len(g)
        BY <1>2
      <4>2. \A id : id \notin Range(g[Len(g)].calls)
        BY <1>4, <3>2, <4>1 DEF Uncalled, Calls
      <4> QED
        BY <4>2
    <3> QED
      BY <1>1, <3>1, <3>2
  <2> QED
    BY <2>1 DEF Met
<1>5. MetTo(g, Len(g))
  <2>1. \A j \in 1..Len(g) : j \in 1..(Len(g) - 1) \/ j = Len(g)
    BY <1>2
  <2> QED
    BY <1>3, <1>4, <2>1 DEF MetTo
<1> QED
  BY <1>1, <1>5 DEF Good
=============================================================================
