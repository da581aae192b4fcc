---------------------------- MODULE LLMTurnProofs ----------------------------
(***************************************************************************)
(* Theorems about LLMTurn, for all providers, responses, lengths, budgets  *)
(* and protected parts: its types, that a conversation fits in the budget  *)
(* or has nothing left to clear, oldest first, that calls and results stay *)
(* together in each request, and which call of a response is executed.     *)
(*                                                                         *)
(* Whatever a count decides, pruning and compaction make a conversation of *)
(* a conversation.  How much they free is a sum over a list: its lemmas    *)
(* are inductions on the length, each over a set of numbers (Inductive).   *)
(***************************************************************************)
EXTENDS LLMTurn, SequenceTheorems, WellFoundedInduction, TLAPS

\* The part of a sequence before a position and the part after it: a conversation is
\* cut where it is compacted.
LEMMA Halves ==
    ASSUME NEW D, NEW q \in Seq(D), NEW h \in Nat, h <= Len(q)
    PROVE  /\ SubSeq(q, 1, h) \in Seq(D) /\ Len(SubSeq(q, 1, h)) = h
           /\ \A i \in 1..h : SubSeq(q, 1, h)[i] = q[i]
           /\ SubSeq(q, h + 1, Len(q)) \in Seq(D)
           /\ Len(SubSeq(q, h + 1, Len(q))) = Len(q) - h
           /\ \A i \in 1..(Len(q) - h) : SubSeq(q, h + 1, Len(q))[i] = q[h + i]
OBVIOUS

\* One sequence behind another.
LEMMA Joined ==
    ASSUME NEW D, NEW p \in Seq(D), NEW q \in Seq(D)
    PROVE  \A r : r = p \o q =>
             /\ r \in Seq(D) /\ Len(r) = Len(p) + Len(q)
             /\ \A i \in 1..Len(p) : r[i] = p[i]
             /\ \A i \in 1..Len(q) : r[Len(p) + i] = q[i]
OBVIOUS

\* One element for all that is between the first h of q and those behind k, which
\* are t.
MiddleOut(q, h, m, k) == SubSeq(q, 1, h) \o <<m>> \o SubSeq(q, k + 1, Len(q))

HasNoMiddle(d, D, q, h, m, k, t) ==
    /\ d \in Seq(D) /\ Len(d) = h + 1 + t
    /\ \A i \in 1..h : d[i] = q[i]
    /\ d[h + 1] = m
    /\ \A i \in 1..t : d[h + 1 + i] = q[k + i]

LEMMA MiddleReplaced ==
    ASSUME NEW D, NEW q \in Seq(D), NEW m \in D,
           NEW h \in Nat, NEW t \in Nat, NEW k \in Nat, h <= Len(q), Len(q) = k + t
    PROVE  HasNoMiddle(MiddleOut(q, h, m, k), D, q, h, m, k, t)
<1>1. PICK front : front = SubSeq(q, 1, h)
  OBVIOUS
<1>2. front \in Seq(D) /\ Len(front) = h /\ \A i \in 1..h : front[i] = q[i]
  BY <1>1, Halves
<1>3. PICK back : back = SubSeq(q, k + 1, Len(q))
  OBVIOUS
<1>4. back \in Seq(D) /\ Len(back) = t /\ \A i \in 1..t : back[i] = q[k + i]
  <2>1. k <= Len(q) /\ Len(q) - k = t
    OBVIOUS
  <2>2. /\ SubSeq(q, k + 1, Len(q)) \in Seq(D)
        /\ Len(SubSeq(q, k + 1, Len(q))) = Len(q) - k
        /\ \A i \in 1..(Len(q) - k) : SubSeq(q, k + 1, Len(q))[i] = q[k + i]
    BY <2>1, Halves
  <2> QED BY <1>3, <2>1, <2>2
<1>5. PICK one : one = <<m>>
  OBVIOUS
<1>6. one \in Seq(D) /\ Len(one) = 1 /\ one[1] = m /\ 1 \in 1..1
  BY <1>5
<1>7. PICK e : e = front \o one
  OBVIOUS
<1>8. /\ e \in Seq(D) /\ Len(e) = h + 1 /\ e[h + 1] = m
      /\ \A i \in 1..h : e[i] = q[i]
  <2>1. /\ e \in Seq(D) /\ Len(e) = Len(front) + Len(one)
        /\ \A i \in 1..Len(front) : e[i] = front[i]
        /\ \A i \in 1..Len(one) : e[Len(front) + i] = one[i]
    <3>1. front \in Seq(D) /\ one \in Seq(D)
      BY <1>2, <1>6
    <3> QED BY <1>7, <3>1, Joined
  <2> QED BY <1>2, <1>6, <2>1
<1>9. PICK d : d = e \o back
  OBVIOUS
<1>10. /\ d \in Seq(D) /\ Len(d) = h + 1 + t
       /\ \A i \in 1..(h + 1) : d[i] = e[i]
       /\ \A i \in 1..t : d[h + 1 + i] = q[k + i]
  <2>1. /\ d \in Seq(D) /\ Len(d) = Len(e) + Len(back)
        /\ \A i \in 1..Len(e) : d[i] = e[i]
        /\ \A i \in 1..Len(back) : d[Len(e) + i] = back[i]
    <3>1. e \in Seq(D) /\ back \in Seq(D)
      BY <1>4, <1>8
    <3> QED BY <1>9, <3>1, Joined
  <2> QED BY <1>4, <1>8, <2>1
<1>11. (\A i \in 1..h : i \in 1..(h + 1)) /\ h + 1 \in 1..(h + 1)
  OBVIOUS
<1>12. d[h + 1] = m /\ \A i \in 1..h : d[i] = q[i]
  BY <1>8, <1>10, <1>11
<1>13. d = MiddleOut(q, h, m, k)
  BY <1>1, <1>3, <1>5, <1>7, <1>9 DEF MiddleOut
<1> QED BY <1>10, <1>12, <1>13 DEF HasNoMiddle
-----------------------------------------------------------------------------
\* Calls and results stand together, or a summary has swallowed one of them.
Paired(ms) ==
    \A i \in DOMAIN ms :
        /\ ms[i].kind = "result" =>
             i > 1 /\ (ms[i - 1].kind = "summary"
                       \/ (ms[i - 1].kind = "use" /\ ms[i - 1].call = ms[i].call))
        /\ ms[i].kind = "use" =>
             i < Len(ms) /\ (ms[i + 1].kind = "summary"
                             \/ (ms[i + 1].kind = "result" /\ ms[i + 1].call = ms[i].call))

\* What is cleared is older than every result that is not.
OldestFirst(ms) ==
    \A i, j \in DOMAIN ms : i < j /\ Prunable(ms[i]) /\ Cut(ms[j]) => Cut(ms[i])

\* A cleared result is too short to be trimmed.
CutIsShort(ms) == \A i \in DOMAIN ms : Cut(ms[i]) => ms[i].chars <= MinTrimChars

Conversation(ms) == ms \in Seq(Message) /\ Paired(ms) /\ OldestFirst(ms) /\ CutIsShort(ms)

\* Messages that may be appended: nothing in them has been cleared yet.
NoneCut(ms) == \A i \in DOMAIN ms : ~Cut(ms[i])

-----------------------------------------------------------------------------
(* What appending, pruning and compacting make of a conversation.          *)

LEMMA Appended ==
    ASSUME NEW p, Conversation(p), NEW q, Conversation(q), NoneCut(q)
    PROVE  Conversation(p \o q)
<1>1. p \in Seq(Message) /\ q \in Seq(Message)
  BY DEF Conversation
<1>2. PICK a \in Nat, b \in Nat : a = Len(p) /\ b = Len(q)
  BY <1>1
<1>3. PICK r : r = p \o q
  OBVIOUS
<1>4. /\ r \in Seq(Message) /\ Len(r) = a + b
      /\ \A i \in 1..a : r[i] = p[i]
      /\ \A i \in 1..b : r[a + i] = q[i]
  BY <1>1, <1>2, <1>3, Joined
<1>5. DOMAIN p = 1..a /\ DOMAIN q = 1..b /\ DOMAIN r = 1..(a + b)
  BY <1>1, <1>2, <1>4
<1>6. ASSUME NEW i \in 1..(a + b)
      PROVE  \/ i \in 1..a /\ r[i] = p[i]
             \/ \E k \in 1..b : i = a + k /\ r[i] = q[k]
  <2>1. i \in 1..a \/ (i - a \in 1..b /\ i = a + (i - a))
    BY <1>6
  <2> QED BY <1>4, <2>1
<1>7. Paired(r)
  <2> SUFFICES ASSUME NEW i \in 1..(a + b)
               PROVE  /\ r[i].kind = "result" =>
                           i > 1 /\ (r[i - 1].kind = "summary"
                                     \/ (r[i - 1].kind = "use" /\ r[i - 1].call = r[i].call))
                      /\ r[i].kind = "use" =>
                           i < a + b /\ (r[i + 1].kind = "summary"
                                \/ (r[i + 1].kind = "result" /\ r[i + 1].call = r[i].call))
    BY <1>4, <1>5 DEF Paired
  <2>1. CASE i \in 1..a /\ r[i] = p[i]
    <3>1. i > 1 => i - 1 \in 1..a
      BY <2>1
    <3>2. i < a => i + 1 \in 1..a /\ i < a + b
      BY <2>1
    <3>3. /\ p[i].kind = "result" =>
               i > 1 /\ (p[i - 1].kind = "summary"
                         \/ (p[i - 1].kind = "use" /\ p[i - 1].call = p[i].call))
          /\ p[i].kind = "use" =>
               i < a /\ (p[i + 1].kind = "summary"
                         \/ (p[i + 1].kind = "result" /\ p[i + 1].call = p[i].call))
      BY <1>2, <1>5, <2>1 DEF Conversation, Paired
    <3> QED BY <1>4, <2>1, <3>1, <3>2, <3>3
  <2>2. CASE \E k \in 1..b : i = a + k /\ r[i] = q[k]
    <3>1. PICK k \in 1..b : i = a + k /\ r[i] = q[k]
      BY <2>2
    <3>2. k > 1 => k - 1 \in 1..b /\ i - 1 = a + (k - 1) /\ i > 1
      BY <3>1
    <3>3. k < b => k + 1 \in 1..b /\ i + 1 = a + (k + 1) /\ i < a + b
      BY <3>1
    <3>4. /\ q[k].kind = "result" =>
               k > 1 /\ (q[k - 1].kind = "summary"
                         \/ (q[k - 1].kind = "use" /\ q[k - 1].call = q[k].call))
          /\ q[k].kind = "use" =>
               k < b /\ (q[k + 1].kind = "summary"
                         \/ (q[k + 1].kind = "result" /\ q[k + 1].call = q[k].call))
      BY <1>2, <1>5 DEF Conversation, Paired
    <3>5. k > 1 => r[i - 1] = q[k - 1]
      BY <1>4, <3>2
    <3>6. k < b => r[i + 1] = q[k + 1]
      BY <1>4, <3>3
    <3> QED BY <3>1, <3>2, <3>3, <3>4, <3>5, <3>6
  <2> QED BY <1>6, <2>1, <2>2
<1>8. OldestFirst(r)
  <2> SUFFICES ASSUME NEW i \in 1..(a + b), NEW j \in 1..(a + b),
                      i < j, Prunable(r[i]), Cut(r[j])
               PROVE  Cut(r[i])
    BY <1>5 DEF OldestFirst
  <2>1. j \in 1..a /\ r[j] = p[j]
    BY <1>5, <1>6 DEF NoneCut
  <2>2. i \in 1..a /\ r[i] = p[i]
    <3>1. i \in 1..a
      BY <2>1
    <3> QED BY <1>4, <3>1
  <2> QED BY <1>5, <2>1, <2>2 DEF Conversation, OldestFirst
<1>9. CutIsShort(r)
  <2> SUFFICES ASSUME NEW i \in 1..(a + b), Cut(r[i])
               PROVE  r[i].chars <= MinTrimChars
    BY <1>5 DEF CutIsShort
  <2>1. i \in 1..a /\ r[i] = p[i]
    BY <1>5, <1>6 DEF NoneCut
  <2> QED BY <1>5, <2>1 DEF Conversation, CutIsShort
<1> QED BY <1>3, <1>4, <1>7, <1>8, <1>9 DEF Conversation

\* q has the messages of p, shortened perhaps.
SameShape(p, q) ==
    /\ q \in Seq(Message) /\ Len(q) = Len(p)
    /\ \A i \in DOMAIN p : q[i].kind = p[i].kind /\ q[i].call = p[i].call

LEMMA ShapePairs ==
    ASSUME NEW p \in Seq(Message), Paired(p), NEW q, SameShape(p, q)
    PROVE  Paired(q)
<1>1. PICK a \in Nat : a = Len(p)
  OBVIOUS
<1>2. DOMAIN p = 1..a /\ DOMAIN q = 1..a /\ Len(q) = a
  BY <1>1 DEF SameShape
<1>3. \A i \in 1..a : (i > 1 => i - 1 \in 1..a) /\ (i < a => i + 1 \in 1..a)
  OBVIOUS
<1>4. \A i \in 1..a : q[i].kind = p[i].kind /\ q[i].call = p[i].call
  BY <1>2 DEF SameShape
<1> QED BY <1>1, <1>2, <1>3, <1>4 DEF Paired

\* q is m with another length and state.
IsShortened(q, m, chars, state) ==
    /\ q \in Message /\ q.kind = m.kind /\ q.call = m.call
    /\ q.chars = chars /\ q.state = state

With(m, chars, state) == [m EXCEPT !.chars = chars, !.state = state]

LEMMA Shortened ==
    ASSUME NEW m \in Message, NEW chars \in Nat, NEW state \in {"trimmed", "cleared"}
    PROVE  IsShortened(With(m, chars, state), m, chars, state)
<1>1. PICK p : p = [m EXCEPT !.chars = chars]
  OBVIOUS
<1>2. p \in Message /\ p.kind = m.kind /\ p.call = m.call /\ p.chars = chars
  BY <1>1 DEF Message
<1>3. PICK q : q = [p EXCEPT !.state = state]
  OBVIOUS
<1>4. /\ q \in Message /\ q.kind = p.kind /\ q.call = p.call
      /\ q.chars = p.chars /\ q.state = state
  BY <1>2, <1>3 DEF Message
<1>5. q = With(m, chars, state)
  BY <1>1, <1>3 DEF With
<1> QED BY <1>2, <1>4, <1>5 DEF IsShortened

\* The soft trim keeps calls and results, and changes nothing that is cleared.
LEMMA SoftTrimKeeps ==
    ASSUME NEW ms, Conversation(ms)
    PROVE  \A q : q = SoftTrimmed(ms) =>
             /\ Conversation(q) /\ SameShape(ms, q)
<1>0. ms \in Seq(Message) /\ DOMAIN ms = 1..Len(ms) /\ Len(ms) \in Nat
  BY DEF Conversation
<1>1. PICK q : q = SoftTrimmed(ms)
  OBVIOUS
<1>2. ASSUME NEW m \in Message
      PROVE  /\ Trimmed(m) \in Message
             /\ Trimmed(m).kind = m.kind /\ Trimmed(m).call = m.call
             /\ Cut(Trimmed(m)) => (Cut(m) /\ Trimmed(m).chars = m.chars)
             /\ (Cut(m) /\ m.chars <= MinTrimChars) => Cut(Trimmed(m))
  <2>1. m.chars \in Nat
    BY DEF Message
  <2>2. CASE Prunable(m) /\ m.chars > MinTrimChars
    <3>1. Trimmed(m) = With(m, 832, "trimmed")
      BY <2>2 DEF Trimmed, HeadChars, MarkerChars, TailChars, With
    <3>2. IsShortened(Trimmed(m), m, 832, "trimmed")
      BY <3>1, Shortened
    <3>4. ~(m.chars <= MinTrimChars)
      BY <2>1, <2>2 DEF MinTrimChars
    <3> QED BY <3>2, <3>4 DEF IsShortened, Cut
  <2>3. CASE ~(Prunable(m) /\ m.chars > MinTrimChars)
    <3>1. Trimmed(m) = m
      BY <2>3 DEF Trimmed
    <3> QED BY <3>1
  <2> QED BY <2>2, <2>3
<1>3. /\ DOMAIN q = 1..Len(ms) /\ \A i \in 1..Len(ms) : q[i] = Trimmed(ms[i]) /\ ms[i] \in Message
  BY <1>0, <1>1 DEF SoftTrimmed
<1>4. q \in Seq(Message) /\ Len(q) = Len(ms)
  <2>1. q = [i \in 1..Len(ms) |-> Trimmed(ms[i])]
    BY <1>0, <1>1 DEF SoftTrimmed
  <2>2. \A i \in 1..Len(ms) : Trimmed(ms[i]) \in Message
    BY <1>2, <1>3
  <2> QED BY <1>0, <2>1, <2>2
<1>5. SameShape(ms, q)
  BY <1>0, <1>2, <1>3, <1>4 DEF SameShape
<1>6. Paired(q)
  BY <1>0, <1>5, ShapePairs DEF Conversation
<1>7. \A i \in 1..Len(ms) : /\ Cut(q[i]) => (Cut(ms[i]) /\ q[i].chars = ms[i].chars)
                            /\ Cut(ms[i]) => Cut(q[i])
                            /\ Prunable(q[i]) => Prunable(ms[i])
  BY <1>0, <1>2, <1>3 DEF Conversation, CutIsShort, Prunable
<1>8. OldestFirst(q)
  BY <1>0, <1>3, <1>7 DEF Conversation, OldestFirst
<1>9. CutIsShort(q)
  BY <1>0, <1>3, <1>7 DEF Conversation, CutIsShort
<1> QED BY <1>1, <1>4, <1>5, <1>6, <1>8, <1>9 DEF Conversation

\* So does clearing the results up to a place, oldest first.
LEMMA ClearKeeps ==
    ASSUME NEW ms, Conversation(ms), NEW n \in Nat
    PROVE  Conversation(ClearedUpTo(ms, n))
<1>0. ms \in Seq(Message) /\ DOMAIN ms = 1..Len(ms) /\ Len(ms) \in Nat
  BY DEF Conversation
<1>1. PICK q : q = ClearedUpTo(ms, n)
  OBVIOUS
<1>2. ASSUME NEW m \in Message
      PROVE  /\ Cleared(m) \in Message
             /\ Cleared(m).kind = m.kind /\ Cleared(m).call = m.call
             /\ Cut(Cleared(m)) /\ Cleared(m).chars <= MinTrimChars
  <2>1. Cleared(m) = With(m, 43, "cleared")
    BY DEF Cleared, PlaceholderChars, With
  <2>2. IsShortened(Cleared(m), m, 43, "cleared")
    BY <2>1, Shortened
  <2> QED BY <2>2 DEF IsShortened, Cut, MinTrimChars
<1>3. q = [i \in 1..Len(ms) |-> IF i <= n /\ Prunable(ms[i]) THEN Cleared(ms[i]) ELSE ms[i]]
  BY <1>0, <1>1 DEF ClearedUpTo
<1>4. /\ DOMAIN q = 1..Len(ms)
      /\ \A i \in 1..Len(ms) : /\ ms[i] \in Message
                               /\ i <= n /\ Prunable(ms[i]) => q[i] = Cleared(ms[i])
                               /\ ~(i <= n /\ Prunable(ms[i])) => q[i] = ms[i]
  BY <1>0, <1>3
<1>5. \A i \in 1..Len(ms) : q[i] \in Message /\ q[i].kind = ms[i].kind /\ q[i].call = ms[i].call
  BY <1>2, <1>4
<1>6. q \in Seq(Message) /\ Len(q) = Len(ms)
  BY <1>0, <1>4, <1>5, <1>3
<1>7. SameShape(ms, q)
  BY <1>0, <1>5, <1>6 DEF SameShape
<1>8. Paired(q)
  BY <1>0, <1>7, ShapePairs DEF Conversation
<1>9. OldestFirst(q)
  <2> SUFFICES ASSUME NEW i \in 1..Len(ms), NEW j \in 1..Len(ms), i < j, Prunable(q[i]), Cut(q[j])
               PROVE  Cut(q[i])
    BY <1>4 DEF OldestFirst
  <2>1. Prunable(ms[i])
    BY <1>5 DEF Prunable
  <2>2. CASE i <= n
    BY <1>2, <1>4, <2>1, <2>2
  <2>3. CASE ~(i <= n)
    <3>1. ~(j <= n)
      BY <2>3
    <3>2. q[i] = ms[i] /\ q[j] = ms[j]
      BY <1>4, <2>3, <3>1
    <3> QED BY <1>0, <2>1, <3>2 DEF Conversation, OldestFirst
  <2> QED BY <2>2, <2>3
<1>10. CutIsShort(q)
  BY <1>0, <1>2, <1>4 DEF Conversation, CutIsShort
<1> QED BY <1>1, <1>6, <1>8, <1>9, <1>10 DEF Conversation

\* A set of naturals has a least member.
LEMMA LeastOne ==
    ASSUME NEW T, T \subseteq Nat, T # {}
    PROVE  \E n \in T : \A k \in T : n <= k
<1>1. PICK R : R = {p \in Nat \X Nat : p[1] < p[2]}
  OBVIOUS
<1>2. IsWellFoundedOn({p \in Nat \X Nat : p[1] < p[2]}, Nat)
  BY NatLessThanWellFounded DEF OpToRel
<1>3. PICK n \in T : \A k \in T : ~ (<<k, n>> \in R)
  BY <1>1, <1>2, WFMin
<1>4. ASSUME NEW k \in T
      PROVE  n <= k
  <2>1. n \in Nat /\ k \in Nat
    OBVIOUS
  <2>2. k < n => <<k, n>> \in R
    BY <1>1, <2>1
  <2> QED BY <1>3, <2>1, <2>2
<1> QED BY <1>4

LEMMA PruneKeeps ==
    ASSUME NEW ms, Conversation(ms)
    PROVE  Conversation(Pruned(ms))
<1>1. PICK q : q = SoftTrimmed(ms)
  OBVIOUS
<1>2. Conversation(q)
  BY <1>1, SoftTrimKeeps
<1>3. Conversation(HardCleared(q))
  <2> DEFINE results == {i \in DOMAIN q : Prunable(q[i])}
             enough == {n \in results : ~OverHard(ClearedUpTo(q, n))}
             least == CHOOSE n \in enough : \A k \in enough : n <= k
  <2>1. HardCleared(q) = ClearedUpTo(q, IF enough = {} THEN Len(q) ELSE least)
    BY DEF HardCleared
  <2>2. Len(q) \in Nat /\ DOMAIN q \subseteq Nat
    BY <1>2 DEF Conversation
  <2>3. enough # {} => least \in Nat
    <3>1. enough \subseteq Nat
      BY <2>2
    <3>2. ASSUME enough # {}
          PROVE  \E n \in enough : \A k \in enough : n <= k
      <4> HIDE DEF enough
      <4> QED BY <3>1, <3>2, LeastOne
    <3> QED BY <3>1, <3>2
  <2>4. (IF enough = {} THEN Len(q) ELSE least) \in Nat
    BY <2>2, <2>3
  <2> HIDE DEF enough, least
  <2> QED BY <1>2, <2>1, <2>4, ClearKeeps
<1> QED BY <1>1, <1>2, <1>3 DEF Pruned

\* d is ms with a summary between the first h and the last t elements.
IsAround(d, ms, m, h, k, t) ==
    /\ h \in Nat \ {0} /\ t \in Nat \ {0} /\ k \in Nat /\ h < k
    /\ Len(ms) = k + t /\ DOMAIN ms = 1..(k + t)
    /\ d \in Seq(Message) /\ Len(d) = h + 1 + t /\ DOMAIN d = 1..(h + 1 + t)
    /\ \A i \in 1..h : d[i] = ms[i]
    /\ d[h + 1] = m
    /\ \A i \in 1..t : d[h + 1 + i] = ms[k + i]

LEMMA AroundElements ==
    ASSUME NEW ms \in Seq(Message), Len(ms) > ProtectedHead + ProtectedTail, NEW m \in Message
    PROVE  IsAround(Around(ms, m), ms, m, ProtectedHead, Len(ms) - ProtectedTail, ProtectedTail)
<1>1. PICK h \in Nat \ {0}, t \in Nat \ {0} : h = ProtectedHead /\ t = ProtectedTail
  BY TurnAssumption
<1>2. PICK n \in Nat : n = Len(ms)
  OBVIOUS
<1>3. PICK k \in Nat : k = n - t /\ n = k + t /\ h < k /\ h <= n
  <2>1. n - t \in Nat /\ n = (n - t) + t /\ h < n - t /\ h <= n
    BY <1>1, <1>2
  <2> QED BY <2>1
<1>4. PICK d : d = SubSeq(ms, 1, h) \o <<m>> \o SubSeq(ms, k + 1, n)
  OBVIOUS
<1>5. Around(ms, m) = d
  BY <1>1, <1>2, <1>3, <1>4 DEF Around
<1>6. /\ d \in Seq(Message) /\ Len(d) = h + 1 + t
      /\ \A i \in 1..h : d[i] = ms[i]
      /\ d[h + 1] = m
      /\ \A i \in 1..t : d[h + 1 + i] = ms[k + i]
  <2>1. /\ ms \in Seq(Message) /\ m \in Message
        /\ h \in Nat /\ t \in Nat /\ k \in Nat /\ h <= Len(ms) /\ Len(ms) = k + t
    BY <1>2, <1>3
  <2>2. d = MiddleOut(ms, h, m, k)
    BY <1>2, <1>4 DEF MiddleOut
  <2>3. HasNoMiddle(d, Message, ms, h, m, k, t)
    BY <2>1, <2>2, MiddleReplaced
  <2> QED BY <2>3 DEF HasNoMiddle
<1>7. DOMAIN ms = 1..(k + t) /\ DOMAIN d = 1..(h + 1 + t) /\ Len(ms) = k + t
  BY <1>2, <1>3, <1>6
<1>8. IsAround(d, ms, m, h, k, t)
  BY <1>3, <1>6, <1>7 DEF IsAround
<1> QED BY <1>1, <1>2, <1>3, <1>5, <1>8

\* A summary in place of the middle may cut a call off from its result, and
\* nothing else.
LEMMA SummaryKeeps ==
    ASSUME NEW ms, Conversation(ms), NEW m \in Message, m.kind = "summary", ~Cut(m),
           NEW d, NEW h, NEW k, NEW t, IsAround(d, ms, m, h, k, t)
    PROVE  Conversation(d)
<1>1. /\ h \in Nat /\ t \in Nat /\ k \in Nat /\ h > 0 /\ t > 0 /\ h < k
      /\ Len(ms) = k + t /\ DOMAIN ms = 1..(k + t)
      /\ d \in Seq(Message) /\ Len(d) = h + 1 + t /\ DOMAIN d = 1..(h + 1 + t)
      /\ \A i \in 1..h : d[i] = ms[i]
      /\ d[h + 1] = m
      /\ \A i \in 1..t : d[h + 1 + i] = ms[k + i]
  BY DEF IsAround
<1>2. ASSUME NEW i \in 1..(h + 1 + t)
      PROVE  \/ i \in 1..h /\ d[i] = ms[i] /\ i \in 1..(k + t)
             \/ i = h + 1 /\ d[i] = m
             \/ \E j \in 1..t : i = h + 1 + j /\ d[i] = ms[k + j] /\ k + j \in 1..(k + t)
  <2>1. \/ i \in 1..h /\ i \in 1..(k + t)
        \/ i = h + 1
        \/ i - (h + 1) \in 1..t /\ i = h + 1 + (i - (h + 1)) /\ k + (i - (h + 1)) \in 1..(k + t)
    BY <1>1
  <2> QED BY <1>1, <2>1
<1>3. ASSUME NEW i \in 1..(k + t)
      PROVE  /\ ms[i].kind = "result" =>
                  i > 1 /\ (ms[i - 1].kind = "summary"
                            \/ (ms[i - 1].kind = "use" /\ ms[i - 1].call = ms[i].call))
             /\ ms[i].kind = "use" =>
                  i < k + t /\ (ms[i + 1].kind = "summary"
                            \/ (ms[i + 1].kind = "result" /\ ms[i + 1].call = ms[i].call))
  BY <1>1 DEF Conversation, Paired
<1>4. Paired(d)
  <2> SUFFICES ASSUME NEW i \in 1..(h + 1 + t)
               PROVE  /\ d[i].kind = "result" =>
                           i > 1 /\ (d[i - 1].kind = "summary"
                                     \/ (d[i - 1].kind = "use" /\ d[i - 1].call = d[i].call))
                      /\ d[i].kind = "use" =>
                           i < h + 1 + t /\ (d[i + 1].kind = "summary"
                                \/ (d[i + 1].kind = "result" /\ d[i + 1].call = d[i].call))
    BY <1>1 DEF Paired
  <2>1. CASE i \in 1..h /\ d[i] = ms[i] /\ i \in 1..(k + t)
    <3>1. i > 1 => d[i - 1] = ms[i - 1]
      <4>1. i > 1 => i - 1 \in 1..h
        BY <1>1, <2>1
      <4> QED BY <1>1, <4>1
    <3>2. i < h + 1 + t /\ (d[i + 1] = ms[i + 1] \/ d[i + 1] = m)
      <4>1. i + 1 \in 1..h \/ i + 1 = h + 1
        BY <1>1, <2>1
      <4>2. i < h + 1 + t
        BY <1>1, <2>1
      <4> QED BY <1>1, <4>1, <4>2
    <3> QED BY <1>3, <2>1, <3>1, <3>2
  <2>2. CASE i = h + 1 /\ d[i] = m
    BY <2>2
  <2>3. CASE \E j \in 1..t : i = h + 1 + j /\ d[i] = ms[k + j] /\ k + j \in 1..(k + t)
    <3>1. PICK j \in 1..t : i = h + 1 + j /\ d[i] = ms[k + j] /\ k + j \in 1..(k + t)
      BY <2>3
    <3>2. i > 1 /\ (d[i - 1] = m \/ d[i - 1] = ms[k + j - 1])
      <4>1. CASE j = 1
        <5>1. i > 1 /\ i - 1 = h + 1
          BY <1>1, <3>1, <4>1
        <5> QED BY <1>1, <5>1
      <4>2. CASE j # 1
        <5>1. j - 1 \in 1..t /\ i - 1 = h + 1 + (j - 1) /\ k + (j - 1) = k + j - 1 /\ i > 1
          BY <1>1, <3>1, <4>2
        <5>2. d[h + 1 + (j - 1)] = ms[k + (j - 1)]
          BY <1>1, <5>1
        <5> QED BY <5>1, <5>2
      <4> QED BY <4>1, <4>2
    <3>3. k + j < k + t => i < h + 1 + t /\ d[i + 1] = ms[k + j + 1]
      <4> SUFFICES ASSUME k + j < k + t
                   PROVE  i < h + 1 + t /\ d[i + 1] = ms[k + j + 1]
        OBVIOUS
      <4>1. j + 1 \in 1..t /\ i + 1 = h + 1 + (j + 1) /\ k + (j + 1) = k + j + 1 /\ i < h + 1 + t
        BY <1>1, <3>1
      <4>2. d[h + 1 + (j + 1)] = ms[k + (j + 1)]
        BY <1>1, <4>1
      <4> QED BY <4>1, <4>2
    <3>4. /\ ms[k + j].kind = "result" =>
               (ms[k + j - 1].kind = "summary"
                \/ (ms[k + j - 1].kind = "use" /\ ms[k + j - 1].call = ms[k + j].call))
          /\ ms[k + j].kind = "use" =>
               k + j < k + t /\ (ms[k + j + 1].kind = "summary"
                  \/ (ms[k + j + 1].kind = "result" /\ ms[k + j + 1].call = ms[k + j].call))
      <4>1. PICK p \in 1..(k + t) : p = k + j
        BY <3>1
      <4>2. /\ ms[p].kind = "result" =>
                 (ms[p - 1].kind = "summary"
                  \/ (ms[p - 1].kind = "use" /\ ms[p - 1].call = ms[p].call))
            /\ ms[p].kind = "use" =>
                 p < k + t /\ (ms[p + 1].kind = "summary"
                    \/ (ms[p + 1].kind = "result" /\ ms[p + 1].call = ms[p].call))
        BY <1>3
      <4>3. p - 1 = k + j - 1 /\ p + 1 = k + j + 1
        BY <1>1, <4>1
      <4> QED BY <4>1, <4>2, <4>3, Zenon
    <3> QED BY <3>1, <3>2, <3>3, <3>4
  <2> QED BY <1>2, <2>1, <2>2, <2>3
<1>5. m.kind = "summary" /\ ~Prunable(m) /\ ~Cut(m)
  BY DEF Prunable
<1>6. OldestFirst(d)
  <2> SUFFICES ASSUME NEW i \in 1..(h + 1 + t), NEW j \in 1..(h + 1 + t),
                      i < j, Prunable(d[i]), Cut(d[j])
               PROVE  Cut(d[i])
    BY <1>1 DEF OldestFirst
  <2>1. \/ i \in 1..h /\ d[i] = ms[i] /\ i \in 1..(k + t)
        \/ \E p \in 1..t : i = h + 1 + p /\ d[i] = ms[k + p] /\ k + p \in 1..(k + t)
    BY <1>2, <1>5
  <2>2. \/ j \in 1..h /\ d[j] = ms[j] /\ j \in 1..(k + t)
        \/ \E q \in 1..t : j = h + 1 + q /\ d[j] = ms[k + q] /\ k + q \in 1..(k + t)
    BY <1>2, <1>5
  <2>3. \E a, b \in 1..(k + t) : a < b /\ d[i] = ms[a] /\ d[j] = ms[b]
    <3>1. CASE i \in 1..h /\ d[i] = ms[i] /\ i \in 1..(k + t)
      <4>1. CASE j \in 1..h /\ d[j] = ms[j] /\ j \in 1..(k + t)
        BY <3>1, <4>1
      <4>2. CASE \E q \in 1..t : j = h + 1 + q /\ d[j] = ms[k + q] /\ k + q \in 1..(k + t)
        <5>1. PICK q \in 1..t : j = h + 1 + q /\ d[j] = ms[k + q] /\ k + q \in 1..(k + t)
          BY <4>2
        <5>2. i < k + q
          BY <1>1, <3>1, <5>1
        <5> QED BY <3>1, <5>1, <5>2
      <4> QED BY <2>2, <4>1, <4>2
    <3>2. CASE \E p \in 1..t : i = h + 1 + p /\ d[i] = ms[k + p] /\ k + p \in 1..(k + t)
      <4>1. PICK p \in 1..t : i = h + 1 + p /\ d[i] = ms[k + p] /\ k + p \in 1..(k + t)
        BY <3>2
      <4>2. ~(j \in 1..h)
        BY <1>1, <4>1
      <4>3. PICK q \in 1..t : j = h + 1 + q /\ d[j] = ms[k + q] /\ k + q \in 1..(k + t)
        BY <2>2, <4>2
      <4>4. k + p < k + q
        BY <1>1, <4>1, <4>3
      <4> QED BY <4>1, <4>3, <4>4
    <3> QED BY <2>1, <3>1, <3>2
  <2>4. PICK a \in 1..(k + t), b \in 1..(k + t) : a < b /\ d[i] = ms[a] /\ d[j] = ms[b]
    BY <2>3
  <2> QED BY <1>1, <2>4 DEF Conversation, OldestFirst
<1>7. CutIsShort(d)
  <2> SUFFICES ASSUME NEW i \in 1..(h + 1 + t), Cut(d[i])
               PROVE  d[i].chars <= MinTrimChars
    BY <1>1 DEF CutIsShort
  <2>1. \E a \in 1..(k + t) : d[i] = ms[a]
    BY <1>2, <1>5
  <2> QED BY <1>1, <2>1 DEF Conversation, CutIsShort
<1> QED BY <1>1, <1>4, <1>6, <1>7 DEF Conversation

\* What compaction puts in place of a list, if anything.
LEMMA CompactedIsAround ==
    ASSUME NEW ms \in Seq(Message), NEW c \in Compacted(ms), c # ms
    PROVE  \E m \in Message : /\ m.kind = "summary" /\ ~Cut(m)
                              /\ IsAround(c, ms, m, ProtectedHead, Len(ms) - ProtectedTail,
                                          ProtectedTail)
<1>1. PICK n \in SummaryChars \union {NoteChars} :
        Len(ms) > ProtectedHead + ProtectedTail /\ c = Around(ms, Msg("summary", n, 0))
  <2>1. Len(ms) \in Nat /\ ProtectedHead + ProtectedTail \in Nat
    BY TurnAssumption
  <2>2. ~(Len(ms) <= ProtectedHead + ProtectedTail)
        /\ c \in {Around(ms, Msg("summary", n, 0)) : n \in SummaryChars \union {NoteChars}}
    BY Zenon DEF Compacted
  <2> QED BY <2>1, <2>2
<1>2. PICK m : m = Msg("summary", n, 0)
  OBVIOUS
<1>3. m \in Message /\ m.kind = "summary" /\ ~Cut(m)
  <2>1. n \in Nat /\ 0 \in 0..MaxCalls
    BY TurnAssumption DEF NoteChars
  <2> QED BY <1>2, <2>1 DEF Msg, Message, Cut
<1>4. IsAround(Around(ms, m), ms, m, ProtectedHead, Len(ms) - ProtectedTail, ProtectedTail)
  BY <1>1, <1>3, AroundElements
<1> QED BY <1>1, <1>2, <1>3, <1>4

LEMMA CompactKeeps ==
    ASSUME NEW ms, Conversation(ms), NEW c \in Compacted(ms)
    PROVE  Conversation(c)
<1>1. CASE c = ms
  BY <1>1
<1>2. CASE c # ms
  <2>1. PICK m \in Message :
          /\ m.kind = "summary" /\ ~Cut(m)
          /\ IsAround(c, ms, m, ProtectedHead, Len(ms) - ProtectedTail, ProtectedTail)
    BY <1>2, CompactedIsAround DEF Conversation
  <2> QED BY <2>1, SummaryKeeps
<1> QED BY <1>1, <1>2
-----------------------------------------------------------------------------
(* The tokens: sums over a list, by induction on its length.               *)

\* What holds of 0, and of n + 1 when of n, holds of all up to a bound.
LEMMA Inductive ==
    ASSUME NEW T, NEW b \in Nat, 0 \in T, \A n \in 0..b : n \in T /\ n + 1 <= b => n + 1 \in T
    PROVE  \A n \in 0..b : n \in T
<1>1. PICK S : S = {n \in 0..b : n \notin T}
  OBVIOUS
<1>2. CASE S # {}
  <2>1. PICK n \in S : \A k \in S : n <= k
    <3>1. S \subseteq Nat
      BY <1>1
    <3> QED BY <1>2, <3>1, LeastOne
  <2>2. n \in 0..b /\ n \notin T /\ n # 0
    BY <1>1, <2>1
  <2>3. n - 1 \in 0..b /\ n - 1 < n /\ (n - 1) + 1 = n
    BY <2>2
  <2>4. n - 1 \in T
    BY <1>1, <2>1, <2>2, <2>3
  <2> QED BY <2>2, <2>3, <2>4
<1> QED BY <1>1, <1>2

\* t holds the sums of the first elements of s.
Sums(t, s) ==
    /\ t \in [0..Len(s) -> Nat] /\ t[0] = 0
    /\ \A n \in 1..Len(s) : t[n] = t[n - 1] + s[n]

LEMMA TotalSums ==
    ASSUME NEW s \in Seq(Nat)
    PROVE  \E t : Sums(t, s) /\ Total(s) = t[Len(s)]
<1>1. PICK b \in Nat : b = Len(s)
  OBVIOUS
<1>2. \A n \in 1..b : s[n] \in Nat
  BY <1>1
<1> DEFINE IsUpTo(t, n) == /\ t \in [0..n -> Nat] /\ t[0] = 0
                           /\ \A k \in 1..n : t[k] = t[k - 1] + s[k]
<1>3. PICK T : T = {n \in 0..b : \E t : IsUpTo(t, n)}
  OBVIOUS
<1>4. 0 \in T
  <2>1. IsUpTo([k \in 0..0 |-> 0], 0)
    OBVIOUS
  <2>2. 0 \in 0..b
    BY <1>1
  <2> HIDE DEF IsUpTo
  <2> QED BY <1>3, <2>1, <2>2
<1>5. ASSUME NEW n \in 0..b, n \in T, n + 1 <= b
      PROVE  n + 1 \in T
  <2>1. PICK t : IsUpTo(t, n)
    BY <1>3, <1>5
  <2>2. PICK u : u = [k \in 0..(n + 1) |-> IF k <= n THEN t[k] ELSE t[n] + s[n + 1]]
    OBVIOUS
  <2>3. n \in Nat /\ n + 1 \in 1..b /\ s[n + 1] \in Nat /\ t[n] \in Nat
    BY <1>1, <1>2, <1>5, <2>1
  <2>4. u \in [0..(n + 1) -> Nat] /\ u[0] = 0
    BY <2>1, <2>2, <2>3
  <2>5. ASSUME NEW k \in 1..(n + 1)
        PROVE  u[k] = u[k - 1] + s[k]
    <3>1. CASE k <= n
      BY <2>1, <2>2, <2>3, <3>1
    <3>2. CASE ~(k <= n)
      <4>1. k = n + 1 /\ k - 1 = n
        BY <2>3, <3>2
      <4> QED BY <2>2, <2>3, <4>1
    <3> QED BY <3>1, <3>2
  <2>6. IsUpTo(u, n + 1)
    BY <2>4, <2>5
  <2>7. n + 1 \in 0..b
    BY <1>1, <1>5
  <2> HIDE DEF IsUpTo
  <2> QED BY <1>3, <2>6, <2>7
<1>6. b \in T
  <2> HIDE DEF IsUpTo
  <2>1. \A n \in 0..b : n \in T
    BY <1>4, <1>5, Inductive
  <2> QED BY <1>1, <2>1
<1>7. PICK t : IsUpTo(t, b)
  BY <1>3, <1>6
<1>8. t = [n \in 0..Len(s) |-> IF n = 0 THEN 0 ELSE t[n - 1] + s[n]]
  BY <1>1, <1>7
<1>9. PICK sum : /\ sum = [n \in 0..Len(s) |-> IF n = 0 THEN 0 ELSE sum[n - 1] + s[n]]
                 /\ Total(s) = sum[Len(s)]
  BY <1>8 DEF Total
<1>10. /\ sum[0] = 0 /\ DOMAIN sum = 0..b
       /\ \A n \in 1..b : sum[n] = sum[n - 1] + s[n]
  <2>1. PICK f : f = sum
    OBVIOUS
  <2>2. sum = [n \in 0..b |-> IF n = 0 THEN 0 ELSE f[n - 1] + s[n]]
    BY <1>1, <1>9, <2>1
  <2>3. /\ DOMAIN sum = 0..b /\ sum[0] = 0
        /\ \A n \in 1..b : sum[n] = f[n - 1] + s[n]
    BY <1>1, <2>2
  <2> QED BY <2>1, <2>3
<1>11. \A n \in 0..b : sum[n] \in Nat
  <2>1. PICK U : U = {n \in 0..b : sum[n] \in Nat}
    OBVIOUS
  <2>2. 0 \in U
    BY <1>1, <1>10, <2>1
  <2>3. ASSUME NEW n \in 0..b, n \in U, n + 1 <= b
        PROVE  n + 1 \in U
    <3>1. n + 1 \in 1..b /\ n + 1 \in 0..b /\ (n + 1) - 1 = n
      BY <1>1, <2>3
    <3>2. sum[n + 1] = sum[n] + s[n + 1] /\ sum[n] \in Nat /\ s[n + 1] \in Nat
      BY <1>2, <1>10, <2>1, <2>3, <3>1
    <3> QED BY <2>1, <3>1, <3>2
  <2>4. \A n \in 0..b : n \in U
    BY <2>2, <2>3, Inductive
  <2> QED BY <2>1, <2>4
<1>12. sum = [n \in 0..b |-> sum[n]]
  BY <1>1, <1>9
<1>13. Sums(sum, s)
  BY <1>1, <1>10, <1>11, <1>12 DEF Sums
<1> QED BY <1>9, <1>13

LEMMA NextSum ==
    ASSUME NEW s \in Seq(Nat), NEW t, Sums(t, s), NEW n \in Nat, n + 1 <= Len(s)
    PROVE  /\ t[n] \in Nat /\ s[n + 1] \in Nat /\ t[n + 1] \in Nat
           /\ t[n + 1] = t[n] + s[n + 1]
<1>1. PICK b \in Nat : b = Len(s)
  OBVIOUS
<1>2. n \in 0..b /\ n + 1 \in 0..b /\ n + 1 \in 1..b /\ (n + 1) - 1 = n
  BY <1>1
<1>3. t \in [0..b -> Nat] /\ \A k \in 1..b : t[k] = t[k - 1] + s[k] /\ s[k] \in Nat
  BY <1>1 DEF Sums
<1> QED BY <1>2, <1>3

\* Sums that begin no larger stay no larger, while what they add is no larger.
LEMMA StayAtMost ==
    ASSUME NEW s, NEW t, Sums(t, s), NEW r, NEW u, Sums(u, r), s \in Seq(Nat), r \in Seq(Nat),
           NEW a \in Nat, NEW b \in Nat, NEW c \in Nat, a + c <= Len(s), b + c <= Len(r),
           t[a] <= u[b], \A i \in 1..c : s[a + i] <= r[b + i]
    PROVE  t[a + c] <= u[b + c]
<1>1. PICK T : T = {n \in 0..c : t[a + n] <= u[b + n]}
  OBVIOUS
<1>2. 0 \in T
  BY <1>1
<1>3. ASSUME NEW n \in 0..c, n \in T, n + 1 <= c
      PROVE  n + 1 \in T
  <2>1. /\ a + n \in Nat /\ (a + n) + 1 <= Len(s) /\ (a + n) + 1 = a + (n + 1)
        /\ b + n \in Nat /\ (b + n) + 1 <= Len(r) /\ (b + n) + 1 = b + (n + 1)
        /\ n + 1 \in 0..c /\ n + 1 \in 1..c
    BY <1>3
  <2>2. /\ t[a + n] \in Nat /\ s[(a + n) + 1] \in Nat
        /\ t[(a + n) + 1] = t[a + n] + s[(a + n) + 1]
    BY <2>1, NextSum
  <2>3. /\ u[b + n] \in Nat /\ r[(b + n) + 1] \in Nat
        /\ u[(b + n) + 1] = u[b + n] + r[(b + n) + 1]
    BY <2>1, NextSum
  <2>4. t[a + n] <= u[b + n] /\ s[(a + n) + 1] <= r[(b + n) + 1]
    BY <1>1, <1>3, <2>1
  <2>5. t[(a + n) + 1] <= u[(b + n) + 1]
    <3>1. \A v, w, x, y \in Nat : v <= x /\ w <= y => v + w <= x + y
      OBVIOUS
    <3>2. t[a + n] + s[(a + n) + 1] <= u[b + n] + r[(b + n) + 1]
      BY <2>2, <2>3, <2>4, <3>1, Zenon
    <3> QED BY <2>2, <2>3, <3>2, Zenon
  <2> QED BY <1>1, <2>1, <2>5
<1>4. \A n \in 0..c : n \in T
  BY <1>2, <1>3, Inductive
<1> QED BY <1>1, <1>4

LEMMA SumsGrow ==
    ASSUME NEW r \in Seq(Nat), NEW u, Sums(u, r), NEW h \in Nat, NEW c \in Nat, h + c <= Len(r)
    PROVE  u[h] <= u[h + c]
<1>1. PICK T : T = {n \in 0..c : u[h] <= u[h + n]}
  OBVIOUS
<1>2. u[h] \in Nat
  BY DEF Sums
<1>3. 0 \in T
  BY <1>1, <1>2
<1>4. ASSUME NEW n \in 0..c, n \in T, n + 1 <= c
      PROVE  n + 1 \in T
  <2>1. h + n \in Nat /\ (h + n) + 1 <= Len(r) /\ (h + n) + 1 = h + (n + 1) /\ n + 1 \in 0..c
    BY <1>4
  <2>2. /\ u[h + n] \in Nat /\ r[(h + n) + 1] \in Nat
        /\ u[(h + n) + 1] = u[h + n] + r[(h + n) + 1]
    BY <2>1, NextSum
  <2>3. u[h] <= u[h + n]
    BY <1>1, <1>4
  <2>4. u[h] <= u[(h + n) + 1]
    BY <1>2, <2>2, <2>3
  <2> QED BY <1>1, <2>1, <2>4
<1>5. \A n \in 0..c : n \in T
  BY <1>3, <1>4, Inductive
<1> QED BY <1>1, <1>5

\* What Tokens and CountedTokens sum.
Weights(ms) == [i \in DOMAIN ms |-> MessageTokens(ms[i])]
CountedWeights(ms) ==
    [i \in DOMAIN ms |-> IF ms[i].kind = "summary" THEN 0 ELSE MessageTokens(ms[i])]

LEMMA WeightsAre ==
    ASSUME NEW ms \in Seq(Message)
    PROVE  /\ Weights(ms) \in Seq(Nat) /\ Len(Weights(ms)) = Len(ms)
           /\ CountedWeights(ms) \in Seq(Nat) /\ Len(CountedWeights(ms)) = Len(ms)
           /\ \A i \in 1..Len(ms) :
                /\ Weights(ms)[i] = MessageTokens(ms[i])
                /\ CountedWeights(ms)[i] <= MessageTokens(ms[i])
                /\ ms[i].kind = "summary" => CountedWeights(ms)[i] = 0
<1>1. PICK b \in Nat : b = Len(ms) /\ DOMAIN ms = 1..b
  OBVIOUS
<1>2. ASSUME NEW m \in Message
      PROVE  MessageTokens(m) \in Nat
  <2>1. m.chars \in Nat /\ m.chars + 80 \in Nat
    BY DEF Message
  <2>2. \A c \in Nat : Count(c) \in Nat
    BY DEF Count, Max2, CharsPerToken
  <2>3. PICK c : c = IF m.kind \in {"use", "result"} THEN m.chars + JsonChars ELSE m.chars
    OBVIOUS
  <2>4. c \in Nat
    BY <2>1, <2>3 DEF JsonChars
  <2>5. Count(c) \in Nat /\ MessageTokens(m) = 4 + Count(c)
    BY <2>2, <2>3, <2>4 DEF MessageTokens
  <2> QED BY <2>5
<1>3. \A i \in 1..b : MessageTokens(ms[i]) \in Nat
  BY <1>1, <1>2
<1>4. Weights(ms) = [i \in 1..b |-> MessageTokens(ms[i])]
  BY <1>1 DEF Weights
<1>5. CountedWeights(ms) = [i \in 1..b |-> IF ms[i].kind = "summary" THEN 0 ELSE MessageTokens(ms[i])]
  BY <1>1 DEF CountedWeights
<1>6. Weights(ms) \in Seq(Nat) /\ Len(Weights(ms)) = b
  BY <1>3, <1>4
<1>7. CountedWeights(ms) \in Seq(Nat) /\ Len(CountedWeights(ms)) = b
  BY <1>3, <1>5
<1>8. \A i \in 1..b : /\ Weights(ms)[i] = MessageTokens(ms[i])
                      /\ CountedWeights(ms)[i] <= MessageTokens(ms[i])
                      /\ ms[i].kind = "summary" => CountedWeights(ms)[i] = 0
  BY <1>3, <1>4, <1>5
<1> QED BY <1>1, <1>6, <1>7, <1>8

\* Without its summaries a conversation counts no more than with them.
LEMMA CountedAtMost ==
    ASSUME NEW ms \in Seq(Message)
    PROVE  Tokens(ms) \in Nat /\ CountedTokens(ms) \in Nat /\ CountedTokens(ms) <= Tokens(ms)
<1>1. PICK s \in Seq(Nat), r \in Seq(Nat) : s = CountedWeights(ms) /\ r = Weights(ms)
  BY WeightsAre
<1>2. PICK b \in Nat : b = Len(ms) /\ b = Len(s) /\ b = Len(r)
  BY <1>1, WeightsAre
<1>3. PICK t : Sums(t, s) /\ Total(s) = t[b]
  BY <1>2, TotalSums
<1>4. PICK u : Sums(u, r) /\ Total(r) = u[b]
  BY <1>2, TotalSums
<1>5. CountedTokens(ms) = t[b] /\ Tokens(ms) = u[b]
  BY <1>1, <1>3, <1>4 DEF CountedTokens, CountedWeights, Tokens, Weights
<1>6. t[b] \in Nat /\ u[b] \in Nat /\ t[0] <= u[0]
  <2>1. t \in [0..b -> Nat] /\ t[0] = 0 /\ u \in [0..b -> Nat] /\ u[0] = 0
    BY <1>2, <1>3, <1>4 DEF Sums
  <2> QED BY <2>1
<1>7. \A i \in 1..b : s[0 + i] <= r[0 + i]
  BY <1>1, <1>2, WeightsAre
<1>8. t[0 + b] <= u[0 + b]
  <2>1. 0 \in Nat /\ 0 + b <= Len(s) /\ 0 + b <= Len(r)
    BY <1>2
  <2> QED BY <1>3, <1>4, <1>6, <1>7, <2>1, StayAtMost
<1> QED BY <1>5, <1>6, <1>8

\* With a summary for its middle it counts no more than the whole did.
LEMMA AroundAtMost ==
    ASSUME NEW ms \in Seq(Message), NEW m \in Message, m.kind = "summary",
           NEW d, NEW h, NEW k, NEW t, IsAround(d, ms, m, h, k, t)
    PROVE  CountedTokens(d) \in Nat /\ CountedTokens(d) <= Tokens(ms)
<1>1. /\ h \in Nat /\ t \in Nat /\ k \in Nat /\ h < k /\ d \in Seq(Message)
      /\ Len(ms) = k + t /\ Len(d) = h + 1 + t
      /\ \A i \in 1..h : d[i] = ms[i]
      /\ d[h + 1] = m
      /\ \A i \in 1..t : d[h + 1 + i] = ms[k + i]
  BY DEF IsAround
<1>2. PICK s \in Seq(Nat), r \in Seq(Nat) : s = CountedWeights(d) /\ r = Weights(ms)
  BY <1>1, WeightsAre
<1>3. /\ Len(s) = h + 1 + t
      /\ \A i \in 1..(h + 1 + t) : /\ s[i] <= MessageTokens(d[i])
                                   /\ d[i].kind = "summary" => s[i] = 0
  BY <1>1, <1>2, WeightsAre
<1>4. Len(r) = k + t /\ \A i \in 1..(k + t) : r[i] = MessageTokens(ms[i])
  BY <1>1, <1>2, WeightsAre
<1>5. PICK x : Sums(x, s) /\ Total(s) = x[h + 1 + t]
  BY <1>3, TotalSums
<1>6. PICK y : Sums(y, r) /\ Total(r) = y[k + t]
  BY <1>4, TotalSums
<1>7. CountedTokens(d) = x[h + 1 + t] /\ Tokens(ms) = y[k + t]
  BY <1>2, <1>5, <1>6 DEF CountedTokens, CountedWeights, Tokens, Weights
<1>8. /\ x \in [0..(h + 1 + t) -> Nat] /\ x[0] = 0
      /\ y \in [0..(k + t) -> Nat] /\ y[0] = 0
  BY <1>3, <1>4, <1>5, <1>6 DEF Sums
<1>9. x[h] <= y[h]
  <2>1. 0 \in Nat /\ 0 + h <= Len(s) /\ 0 + h <= Len(r) /\ x[0] <= y[0]
    BY <1>1, <1>3, <1>4, <1>8
  <2>2. \A i \in 1..h : s[0 + i] <= r[0 + i]
    <3>1. \A i \in 1..h : 0 + i = i /\ i \in 1..(h + 1 + t) /\ i \in 1..(k + t)
      BY <1>1
    <3> QED BY <1>1, <1>3, <1>4, <3>1
  <2>3. x[0 + h] <= y[0 + h]
    BY <1>1, <1>5, <1>6, <2>1, <2>2, StayAtMost
  <2> QED BY <1>1, <2>3
<1>10. x[h + 1] = x[h]
  <2>1. h + 1 \in 1..(h + 1 + t) /\ h + 1 <= Len(s)
    BY <1>1, <1>3
  <2>2. s[h + 1] = 0
    BY <1>1, <1>3, <2>1
  <2>3. x[h] \in Nat /\ x[h + 1] = x[h] + s[h + 1]
    BY <1>1, <1>5, <2>1, NextSum
  <2> QED BY <2>2, <2>3
<1>11. y[h] <= y[k]
  <2>1. k - h \in Nat /\ h + (k - h) = k /\ k <= Len(r)
    BY <1>1, <1>4
  <2>2. y[h] <= y[h + (k - h)]
    BY <1>1, <1>6, <2>1, SumsGrow
  <2> QED BY <2>1, <2>2
<1>12. x[h + 1] <= y[k]
  <2>1. x[h] \in Nat /\ y[h] \in Nat /\ y[k] \in Nat
    <3>1. h \in 0..(h + 1 + t) /\ h \in 0..(k + t) /\ k \in 0..(k + t)
      BY <1>1
    <3> QED BY <1>8, <3>1
  <2> QED BY <1>9, <1>10, <1>11, <2>1
<1>13. x[h + 1 + t] <= y[k + t]
  <2>1. h + 1 \in Nat /\ (h + 1) + t <= Len(s) /\ k + t <= Len(r)
    BY <1>1, <1>3, <1>4
  <2>2. \A i \in 1..t : s[h + 1 + i] <= r[k + i]
    <3>1. \A i \in 1..t : h + 1 + i \in 1..(h + 1 + t) /\ k + i \in 1..(k + t)
      BY <1>1
    <3> QED BY <1>1, <1>3, <1>4, <3>1
  <2> QED BY <1>1, <1>5, <1>6, <1>12, <2>1, <2>2, StayAtMost
<1>14. x[h + 1 + t] \in Nat
  <2>1. h + 1 + t \in 0..(h + 1 + t)
    BY <1>1
  <2> QED BY <1>8, <2>1
<1> QED BY <1>7, <1>13, <1>14

\* It fits in 90 % of the budget, or there is nothing left to clear.
Spent(ms) == \A i \in DOMAIN ms : Prunable(ms[i]) => Cut(ms[i])

Fits(ms) == 10 * CountedTokens(ms) > 9 * Budget => Spent(ms)

\* The pruner ends under 90 %, or with nothing left to clear: whichever of its
\* returns it takes.
LEMMA PrunedFits ==
    ASSUME NEW ms, Conversation(ms)
    PROVE  OverHard(Pruned(ms)) => Spent(Pruned(ms))
<1>1. PICK q : q = SoftTrimmed(ms)
  OBVIOUS
<1>2. q \in Seq(Message)
  <2>1. Conversation(q)
    BY <1>1, SoftTrimKeeps
  <2> QED BY <2>1 DEF Conversation
<1>3. CASE ~OverSoft(ms)
  <2>1. Tokens(ms) \in Nat /\ Budget \in Nat /\ 10 * Tokens(ms) <= 7 * Budget
    <3>1. Tokens(ms) \in Nat /\ Budget \in Nat
      BY CountedAtMost, TurnAssumption DEF Conversation
    <3> QED BY <1>3, <3>1 DEF OverSoft
  <2>2. ~OverHard(ms)
    BY <2>1 DEF OverHard
  <2>3. Pruned(ms) = ms
    BY <1>3 DEF Pruned
  <2> QED BY <2>2, <2>3
<1>4. CASE OverSoft(ms) /\ ~OverHard(q)
  <2>1. Pruned(ms) = q
    BY <1>1, <1>4 DEF Pruned
  <2> QED BY <1>4, <2>1
<1>5. CASE OverSoft(ms) /\ OverHard(q)
  <2> DEFINE results == {i \in DOMAIN q : Prunable(q[i])}
             enough == {n \in results : ~OverHard(ClearedUpTo(q, n))}
             least == CHOOSE n \in enough : \A k \in enough : n <= k
  <2>1. Pruned(ms) = ClearedUpTo(q, IF enough = {} THEN Len(q) ELSE least)
    BY <1>1, <1>5 DEF Pruned, HardCleared
  <2>2. CASE enough # {}
    <3>1. \E n \in enough : \A k \in enough : n <= k
      <4>1. enough \subseteq Nat
        BY <1>2
      <4> HIDE DEF enough
      <4> QED BY <2>2, <4>1, LeastOne
    <3>2. least \in enough
      <4> HIDE DEF enough
      <4> QED BY <3>1
    <3>3. ~OverHard(ClearedUpTo(q, least))
      <4> HIDE DEF least
      <4> QED BY <3>2
    <3>4. Pruned(ms) = ClearedUpTo(q, least)
      <4> HIDE DEF enough, least
      <4> QED BY <2>1, <2>2
    <3> QED BY <3>3, <3>4
  <2>3. CASE enough = {}
    <3>1. Pruned(ms) = ClearedUpTo(q, Len(q))
      <4> HIDE DEF enough, least
      <4> QED BY <2>1, <2>3
    <3>2. PICK b \in Nat : b = Len(q) /\ DOMAIN q = 1..b
      BY <1>2
    <3>3. PICK p : p = [i \in 1..b |-> IF i <= b /\ Prunable(q[i]) THEN Cleared(q[i]) ELSE q[i]]
      OBVIOUS
    <3>4. Pruned(ms) = p /\ DOMAIN p = 1..b
      BY <3>1, <3>2, <3>3 DEF ClearedUpTo
    <3>5. ASSUME NEW i \in 1..b, Prunable(p[i])
          PROVE  Cut(p[i])
      <4>1. CASE Prunable(q[i])
        <5>1. p[i] = Cleared(q[i]) /\ q[i] \in Message
          BY <1>2, <3>2, <3>3, <4>1
        <5>2. Cleared(q[i]) = With(q[i], 43, "cleared")
          BY DEF Cleared, PlaceholderChars, With
        <5>3. IsShortened(Cleared(q[i]), q[i], 43, "cleared")
          BY <5>1, <5>2, Shortened
        <5> QED BY <5>1, <5>3 DEF IsShortened, Cut
      <4>2. CASE ~Prunable(q[i])
        BY <3>3, <3>5, <4>2
      <4> QED BY <4>1, <4>2
    <3> QED BY <3>4, <3>5 DEF Spent
  <2> QED BY <2>2, <2>3
<1> QED BY <1>1, <1>3, <1>4, <1>5

\* Compaction adds nothing that is counted, and nothing that could be cleared.
LEMMA CompactedFits ==
    ASSUME NEW ms, Conversation(ms), OverHard(ms) => Spent(ms), NEW c \in Compacted(ms)
    PROVE  Fits(c)
<1>0. ms \in Seq(Message) /\ Budget \in Nat /\ Tokens(ms) \in Nat
  BY CountedAtMost, TurnAssumption DEF Conversation
<1>1. CASE c = ms
  <2>1. CountedTokens(ms) \in Nat /\ CountedTokens(ms) <= Tokens(ms)
    BY <1>0, CountedAtMost
  <2>2. 10 * CountedTokens(ms) > 9 * Budget => OverHard(ms)
    BY <1>0, <2>1 DEF OverHard
  <2> QED BY <1>1, <2>2 DEF Fits
<1>2. CASE c # ms
  <2>1. PICK m \in Message : m.kind = "summary" /\ IsAround(c, ms, m, ProtectedHead,
                                 Len(ms) - ProtectedTail, ProtectedTail)
    BY <1>0, <1>2, CompactedIsAround
  <2>2. PICK h, k, t : IsAround(c, ms, m, h, k, t)
    BY <2>1
  <2>3. CountedTokens(c) \in Nat /\ CountedTokens(c) <= Tokens(ms)
    BY <1>0, <2>1, <2>2, AroundAtMost
  <2>4. 10 * CountedTokens(c) > 9 * Budget => OverHard(ms)
    BY <1>0, <2>3 DEF OverHard
  <2>5. ASSUME Spent(ms), NEW i \in DOMAIN c, Prunable(c[i])
        PROVE  Cut(c[i])
    <3>1. /\ h \in Nat /\ t \in Nat /\ k \in Nat
          /\ DOMAIN ms = 1..(k + t) /\ DOMAIN c = 1..(h + 1 + t) /\ h < k
          /\ \A j \in 1..h : c[j] = ms[j]
          /\ c[h + 1] = m
          /\ \A j \in 1..t : c[h + 1 + j] = ms[k + j]
      BY <2>2 DEF IsAround
    <3>2. i # h + 1
      BY <2>1, <2>5, <3>1 DEF Prunable
    <3>3. \/ i \in 1..h /\ i \in 1..(k + t)
          \/ i - (h + 1) \in 1..t /\ i = h + 1 + (i - (h + 1)) /\ k + (i - (h + 1)) \in 1..(k + t)
      BY <3>1, <3>2
    <3>4. \E j \in 1..(k + t) : c[i] = ms[j]
      BY <3>1, <3>3
    <3> QED BY <2>5, <3>1, <3>4 DEF Spent
  <2> QED BY <2>4, <2>5 DEF Fits, Spent
<1> QED BY <1>1, <1>2
-----------------------------------------------------------------------------
(* What joins the conversation.                                            *)

LEMMA OneText ==
    ASSUME NEW kind \in {"text", "answer"}, NEW chars \in Nat
    PROVE  \A q : q = <<Msg(kind, chars, 0)>> =>
             /\ Conversation(q) /\ NoneCut(q)
             /\ \A p \in Seq(Message) : Append(p, Msg(kind, chars, 0)) = p \o q
<1>1. PICK m : m = Msg(kind, chars, 0)
  OBVIOUS
<1>2. m \in Message /\ m.kind = kind /\ ~Cut(m)
  <2>1. 0 \in 0..MaxCalls
    BY TurnAssumption
  <2> QED BY <1>1, <2>1 DEF Msg, Message, Cut
<1>3. PICK q : q = <<m>>
  OBVIOUS
<1>4. q \in Seq(Message) /\ DOMAIN q = {1} /\ q[1] = m
  BY <1>2, <1>3
<1>5. \A p \in Seq(Message) : Append(p, m) = p \o q
  BY <1>2, <1>3
<1>6. Conversation(q) /\ NoneCut(q)
  BY <1>2, <1>4 DEF Conversation, NoneCut, Paired, OldestFirst, CutIsShort
<1> QED BY <1>1, <1>3, <1>5, <1>6

LEMMA NothingText == \A q : q = <<>> => Conversation(q) /\ NoneCut(q)
<1>1. <<>> \in Seq(Message) /\ DOMAIN <<>> = {}
  OBVIOUS
<1> QED BY <1>1 DEF Conversation, NoneCut, Paired, OldestFirst, CutIsShort

LEMMA OneCall ==
    ASSUME NEW n \in 0..MaxCalls, NEW chars \in Nat
    PROVE  Conversation(CallMessages(n, chars)) /\ NoneCut(CallMessages(n, chars))
<1>1. PICK u : u = Msg("use", 1, n)
  OBVIOUS
<1>2. PICK r : r = Msg("result", chars, n)
  OBVIOUS
<1>3. /\ u \in Message /\ u.kind = "use" /\ u.call = n /\ ~Cut(u)
      /\ r \in Message /\ r.kind = "result" /\ r.call = n /\ ~Cut(r)
  BY <1>1, <1>2 DEF Msg, Message, Cut
<1>4. PICK q : q = <<u, r>>
  OBVIOUS
<1>5. q \in Seq(Message) /\ DOMAIN q = {1, 2} /\ Len(q) = 2 /\ q[1] = u /\ q[2] = r
  BY <1>3, <1>4
<1>6. CallMessages(n, chars) = q
  BY <1>1, <1>2, <1>4 DEF CallMessages
<1>7. NoneCut(q)
  BY <1>3, <1>5 DEF NoneCut
<1>8. Paired(q)
  <2>1. ASSUME NEW i \in DOMAIN q
        PROVE  /\ q[i].kind = "result" =>
                    i > 1 /\ (q[i - 1].kind = "summary"
                              \/ (q[i - 1].kind = "use" /\ q[i - 1].call = q[i].call))
               /\ q[i].kind = "use" =>
                    i < Len(q) /\ (q[i + 1].kind = "summary"
                              \/ (q[i + 1].kind = "result" /\ q[i + 1].call = q[i].call))
    <3>1. CASE i = 1
      <4>1. q[i] = u /\ i < Len(q) /\ i + 1 = 2
        BY <1>5, <3>1
      <4> QED BY <1>3, <1>5, <4>1
    <3>2. CASE i = 2
      <4>1. q[i] = r /\ i > 1 /\ i - 1 = 1
        BY <1>5, <3>2
      <4> QED BY <1>3, <1>5, <4>1
    <3> QED BY <1>5, <2>1, <3>1, <3>2
  <2> QED BY <2>1 DEF Paired
<1>9. OldestFirst(q) /\ CutIsShort(q)
  BY <1>7 DEF NoneCut, OldestFirst, CutIsShort
<1> QED BY <1>5, <1>6, <1>7, <1>8, <1>9 DEF Conversation

-----------------------------------------------------------------------------
(* The stream.                                                             *)

Piece == [pieces : Nat \ {0}, valid : BOOLEAN]

\* What has arrived is what has been assembled, call by call.
Streams ==
    /\ response.calls \in Seq(Piece) /\ response.finish \in Finish
    /\ arrived \in Seq(Nat) /\ Len(arrived) = Len(response.calls)
    /\ \A i \in DOMAIN arrived : arrived[i] <= response.calls[i].pieces
    /\ DOMAIN assembly = {i \in DOMAIN arrived : arrived[i] > 0}
    /\ \A i \in DOMAIN assembly : assembly[i] = [index |-> i, args |-> arrived[i]]
    /\ phase = "executing" => 1 \in DOMAIN arrived

\* Of the other variables.
Others ==
    /\ provider \in Providers
    /\ phase \in {"idle", "streaming", "executing"}
    /\ response \in Responses \union {None}
    /\ phase # "executing" => executed = NoCall
    /\ calls \in 0..MaxCalls /\ runs \in 0..MaxRuns
    /\ phase = "executing" => calls < MaxCalls

\* What the LLM is called with fits, or there was nothing left to clear.
Fitting == phase = "streaming" => Fits(messages)

TurnInv == Conversation(messages) /\ Streams /\ Others /\ CallIntact /\ Fitting

LEMMA ResponseShape ==
    ASSUME NEW r \in Responses
    PROVE  r.calls \in Seq(Piece) /\ r.finish \in Finish
BY TurnAssumption DEF Piece

\* With what the LLM is called, and that its response has not begun.
LEMMA Called ==
    ASSUME NEW ms, Conversation(ms), CallLLM(ms)
    PROVE  Conversation(messages') /\ Streams' /\ CallIntact' /\ Fitting'
<1>1. Conversation(messages') /\ Fits(messages')
  <2>1. Conversation(Pruned(ms))
    BY PruneKeeps
  <2>2. messages' \in Compacted(Pruned(ms))
    BY DEF CallLLM
  <2>3. OverHard(Pruned(ms)) => Spent(Pruned(ms))
    BY PrunedFits
  <2> QED BY <2>1, <2>2, <2>3, CompactKeeps, CompactedFits
<1>2. PICK c : c = response'.calls
  OBVIOUS
<1>3. c \in Seq(Piece) /\ response'.finish \in Finish
  <2>1. response' \in Responses
    BY DEF CallLLM
  <2> QED BY <1>2, <2>1, ResponseShape
<1>4. PICK n \in Nat : n = Len(c) /\ DOMAIN c = 1..n
  BY <1>3
<1>5. arrived' = [i \in 1..n |-> 0]
  BY <1>2, <1>4 DEF CallLLM
<1>6. arrived' \in Seq(Nat) /\ Len(arrived') = n /\ DOMAIN arrived' = 1..n
  BY <1>5
<1>7. \A i \in 1..n : arrived'[i] = 0 /\ arrived'[i] <= c[i].pieces
  <2>1. \A i \in 1..n : c[i] \in Piece
    BY <1>3, <1>4
  <2>2. \A i \in 1..n : c[i].pieces \in Nat
    BY <2>1 DEF Piece
  <2> QED BY <1>5, <2>2
<1>8. DOMAIN assembly' = {} /\ phase' = "streaming"
  BY DEF CallLLM
<1>9. Streams'
  BY <1>2, <1>3, <1>4, <1>6, <1>7, <1>8 DEF Streams
<1>10. CallIntact' /\ Fitting'
  BY <1>1, <1>8 DEF CallIntact, Fitting
<1> QED BY <1>1, <1>9, <1>10

\* A piece of a call joins those of its call that came before.
LEMMA PieceStep ==
    ASSUME Streams, NEW i \in DOMAIN arrived, PieceArrives(i)
    PROVE  Streams'
<1>1. PICK n \in Nat : n = Len(arrived)
  BY DEF Streams
<1>2. /\ arrived \in Seq(Nat) /\ DOMAIN arrived = 1..n /\ i \in 1..n
      /\ response.calls \in Seq(Piece) /\ DOMAIN response.calls = 1..n
  BY <1>1 DEF Streams
<1>3. arrived[i] \in Nat /\ arrived[i] < response.calls[i].pieces /\ response.calls[i].pieces \in Nat
  <2>1. response.calls[i] \in Piece
    BY <1>2
  <2> QED BY <1>2, <2>1 DEF PieceArrives, MayArrive, Piece
<1>4. /\ arrived' = [arrived EXCEPT ![i] = @ + 1] /\ response' = response
      /\ assembly' = Assembled(i) /\ phase = "streaming" /\ phase' = phase
  BY DEF PieceArrives
<1>5. /\ arrived' \in Seq(Nat) /\ Len(arrived') = n /\ DOMAIN arrived' = 1..n
      /\ arrived'[i] = arrived[i] + 1 /\ \A j \in 1..n : j # i => arrived'[j] = arrived[j]
  BY <1>1, <1>2, <1>3, <1>4
<1>6. arrived'[i] > 0 /\ arrived'[i] <= response.calls[i].pieces
  BY <1>3, <1>5
<1>7. \A j \in 1..n : arrived'[j] <= response.calls[j].pieces
  BY <1>2, <1>5, <1>6 DEF Streams
<1>8. {j \in 1..n : arrived'[j] > 0} = {j \in 1..n : arrived[j] > 0} \union {i}
  BY <1>2, <1>5, <1>6
<1>9. /\ DOMAIN assembly = {j \in 1..n : arrived[j] > 0}
      /\ \A j \in DOMAIN assembly : assembly[j] = [index |-> j, args |-> arrived[j]]
  BY <1>2 DEF Streams
<1>10. /\ DOMAIN assembly' = DOMAIN assembly \union {i}
       /\ \A j \in DOMAIN assembly' : assembly'[j] = [index |-> j, args |-> arrived'[j]]
  <2>1. CASE i \in DOMAIN assembly
    <3>1. assembly' = [assembly EXCEPT ![i].args = @ + 1]
      BY <1>4, <2>1 DEF Assembled
    <3>2. DOMAIN assembly' = DOMAIN assembly
      BY <3>1
    <3>3. \A j \in DOMAIN assembly : j # i => assembly'[j] = assembly[j]
      BY <3>1
    <3>4. assembly'[i] = [index |-> i, args |-> arrived[i] + 1]
      <4>1. assembly'[i] = [assembly[i] EXCEPT !.args = @ + 1]
        BY <2>1, <3>1
      <4>2. assembly[i] = [index |-> i, args |-> arrived[i]]
        BY <1>9, <2>1
      <4> QED BY <4>1, <4>2
    <3> QED BY <1>5, <1>9, <2>1, <3>2, <3>3, <3>4
  <2>2. CASE i \notin DOMAIN assembly
    <3>1. assembly' = [j \in DOMAIN assembly \union {i} |->
                          IF j = i THEN [index |-> i, args |-> 1] ELSE assembly[j]]
      BY <1>4, <2>2 DEF Assembled
    <3>2. arrived[i] = 0 /\ arrived'[i] = 1
      BY <1>2, <1>3, <1>5, <1>9, <2>2
    <3>3. /\ DOMAIN assembly' = DOMAIN assembly \union {i}
          /\ assembly'[i] = [index |-> i, args |-> 1]
          /\ \A j \in DOMAIN assembly : j # i => assembly'[j] = assembly[j]
      BY <3>1
    <3> QED BY <1>5, <1>9, <2>2, <3>2, <3>3
  <2> QED BY <2>1, <2>2
<1>11. DOMAIN assembly' = {j \in 1..n : arrived'[j] > 0}
  BY <1>8, <1>9, <1>10
<1> QED BY <1>1, <1>2, <1>4, <1>5, <1>7, <1>10, <1>11 DEF Streams

\* With a tool_use event all of the first call has arrived, or the response was
\* cut off in it, and there is no other.
LEMMA FirstCall ==
    ASSUME Streams, Others, EmitsNow, NEW i \in Emitted(assembly)
    PROVE  i = 1 /\ 1 \in DOMAIN assembly
<1>1. PICK n \in Nat : n = Len(arrived)
  BY DEF Streams
<1>2. /\ arrived \in Seq(Nat) /\ DOMAIN arrived = 1..n /\ Len(arrived) = n
      /\ response.calls \in Seq(Piece) /\ DOMAIN response.calls = 1..n
      /\ DOMAIN assembly = {j \in 1..n : arrived[j] > 0}
  BY <1>1 DEF Streams
<1>3. /\ DOMAIN assembly # {}
      /\ i = CHOOSE m \in DOMAIN assembly : \A j \in DOMAIN assembly : m <= j
      /\ ~(provider = "openai" /\ response.finish # "tool_calls")
      /\ ~(provider = "litellm" /\ response.finish = "length")
  BY DEF Emitted
<1>4. PICK e \in 1..n : arrived[e] > 0
  BY <1>2, <1>3
<1>5. 1 \in 1..n /\ n >= 1
  BY <1>4
<1>6. response.calls[1].pieces \in Nat /\ response.calls[1].pieces > 0
  <2>1. response.calls[1] \in Piece
    BY <1>2, <1>5
  <2> QED BY <2>1 DEF Piece
<1>7. provider \in {"litellm", "openai", "anthropic"}
  BY TurnAssumption DEF Others
<1>8. Finishes => arrived[1] > 0
  <2> SUFFICES ASSUME Finishes
               PROVE  arrived[1] > 0
    OBVIOUS
  <2>1. CASE response.finish = "length"
    <3>1. CASE n = 1
      BY <1>4, <3>1
    <3>2. CASE n # 1
      <4>1. 1 < Len(arrived)
        BY <1>2, <1>5, <3>2
      <4>2. arrived[1] = response.calls[1].pieces
        BY <1>2, <1>5, <2>1, <4>1 DEF Finishes
      <4> QED BY <1>6, <4>2
    <3> QED BY <3>1, <3>2
  <2>2. CASE response.finish # "length"
    <3>1. arrived[1] = response.calls[1].pieces
      BY <1>2, <1>5, <2>2 DEF Finishes, AllArrived
    <3> QED BY <1>6, <3>1
  <2> QED BY <2>1, <2>2
<1>9. arrived[1] > 0
  <2>1. arrived[1] = response.calls[1].pieces \/ Finishes
    BY DEF EmitsNow
  <2> QED BY <1>6, <1>8, <2>1
<1>10. 1 \in DOMAIN assembly
  BY <1>2, <1>5, <1>9
<1>11. \A j \in DOMAIN assembly : j \in Nat /\ 1 <= j
  BY <1>2
<1>12. \E m \in DOMAIN assembly : \A j \in DOMAIN assembly : m <= j
  BY <1>10, <1>11
<1>13. i \in DOMAIN assembly /\ \A j \in DOMAIN assembly : i <= j
  BY <1>3, <1>12
<1>14. i = 1
  BY <1>10, <1>11, <1>13
<1> QED BY <1>10, <1>14

LEMMA CallToolStep ==
    ASSUME TurnInv, CallTool
    PROVE  TurnInv'
<1>0. Conversation(messages) /\ Streams /\ Others
  BY DEF TurnInv
<1>1. PICK i \in Emitted(assembly) :
        executed' = [index |-> assembly[i].index, args |-> Input(i)]
  BY DEF CallTool
<1>2. /\ phase = "streaming" /\ phase' = "executing" /\ calls < MaxCalls
      /\ UNCHANGED <<provider, messages, response, arrived, assembly, calls, runs>>
  BY DEF CallTool
<1>3. i = 1 /\ 1 \in DOMAIN assembly
  BY <1>0, FirstCall DEF CallTool
<1>4. assembly[1] = [index |-> 1, args |-> arrived[1]] /\ 1 \in DOMAIN arrived
  BY <1>0, <1>3 DEF Streams
<1>5. assembly[1].index = 1 /\ assembly[1].args = arrived[1]
  BY <1>4
<1>6. /\ arrived[1] \in Nat /\ response.calls[1].pieces \in Nat /\ response.calls[1].pieces > 0
      /\ arrived[1] <= response.calls[1].pieces /\ response.calls[1].valid \in BOOLEAN
  <2>1. 1 \in DOMAIN response.calls /\ arrived \in Seq(Nat) /\ response.calls \in Seq(Piece)
    BY <1>0, <1>4 DEF Streams
  <2>2. response.calls[1] \in Piece /\ arrived[1] \in Nat
    BY <1>4, <2>1
  <2>3. arrived[1] <= response.calls[1].pieces
    BY <1>0, <1>4 DEF Streams
  <2> QED BY <2>2, <2>3 DEF Piece
<1>7. executed'.index = 1 /\ executed'.args = Input(1)
  BY <1>1, <1>3, <1>5
<1>8. Input(1) = (IF arrived[1] = response.calls[1].pieces /\ response.calls[1].valid
                  THEN arrived[1] ELSE 0)
  BY <1>5 DEF Input
<1>9. CallIntact' /\ Fitting'
  BY <1>2, <1>6, <1>7, <1>8 DEF CallIntact, Fitting
<1>10. Conversation(messages')
  BY <1>0, <1>2
<1>11. Streams'
  BY <1>0, <1>2, <1>4 DEF Streams
<1>12. Others'
  BY <1>0, <1>2 DEF Others
<1> QED BY <1>9, <1>10, <1>11, <1>12 DEF TurnInv

LEMMA BeginStep ==
    ASSUME TurnInv, Begin
    PROVE  TurnInv'
<1>0. Conversation(messages) /\ Streams /\ Others
  BY DEF TurnInv
<1>1. PICK chars \in InputChars : CallLLM(Append(messages, Msg("text", chars, 0)))
  BY DEF Begin
<1>2. chars \in Nat
  BY TurnAssumption
<1>3. PICK q : q = <<Msg("text", chars, 0)>>
  OBVIOUS
<1>4. /\ Conversation(q) /\ NoneCut(q)
      /\ Append(messages, Msg("text", chars, 0)) = messages \o q
  BY <1>0, <1>2, <1>3, OneText DEF Conversation
<1>5. Conversation(Append(messages, Msg("text", chars, 0)))
  BY <1>0, <1>4, Appended
<1>6. Conversation(messages') /\ Streams' /\ CallIntact' /\ Fitting'
  BY <1>1, <1>5, Called
<1>7. Others'
  <2>1. /\ phase' = "streaming" /\ executed' = NoCall /\ response' \in Responses
        /\ runs < MaxRuns /\ runs' = runs + 1 /\ provider' = provider /\ calls' = calls
    BY <1>1 DEF Begin, CallLLM
  <2>2. runs \in 0..MaxRuns /\ MaxRuns \in Nat
    BY <1>0, TurnAssumption DEF Others
  <2>3. runs' \in 0..MaxRuns
    BY <2>1, <2>2
  <2> QED BY <1>0, <2>1, <2>3 DEF Others
<1> QED BY <1>6, <1>7 DEF TurnInv

LEMMA ToolStep ==
    ASSUME TurnInv, ToolReturns
    PROVE  TurnInv'
<1>0. Conversation(messages) /\ Streams /\ Others
  BY DEF TurnInv
<1>1. PICK chars \in ResultChars, steered \in BOOLEAN :
        CallLLM(messages \o CallMessages(calls + 1, chars)
                  \o (IF steered THEN <<Msg("text", 200, 0)>> ELSE <<>>))
  BY DEF ToolReturns
<1>2. calls + 1 \in 0..MaxCalls /\ chars \in Nat
  <2>1. calls \in 0..MaxCalls /\ MaxCalls \in Nat /\ calls < MaxCalls
    BY <1>0, TurnAssumption DEF Others, ToolReturns
  <2> QED BY <2>1, TurnAssumption
<1>3. PICK p : p = CallMessages(calls + 1, chars)
  OBVIOUS
<1>4. Conversation(p) /\ NoneCut(p)
  BY <1>2, <1>3, OneCall
<1>5. PICK q : q = IF steered THEN <<Msg("text", 200, 0)>> ELSE <<>>
  OBVIOUS
<1>6. Conversation(q) /\ NoneCut(q)
  <2>1. CASE steered
    <3>1. q = <<Msg("text", 200, 0)>> /\ 200 \in Nat
      BY <1>5, <2>1
    <3> QED BY <3>1, OneText
  <2>2. CASE ~steered
    BY <1>5, <2>2, NothingText
  <2> QED BY <2>1, <2>2
<1>7. PICK ms : ms = messages \o p
  OBVIOUS
<1>8. Conversation(ms)
  BY <1>0, <1>4, <1>7, Appended
<1>9. Conversation(ms \o q)
  BY <1>6, <1>8, Appended
<1>10. CallLLM(ms \o q)
  BY <1>1, <1>3, <1>5, <1>7
<1>11. Conversation(messages') /\ Streams' /\ CallIntact' /\ Fitting'
  BY <1>9, <1>10, Called
<1>12. Others'
  <2>1. /\ phase' = "streaming" /\ executed' = NoCall /\ response' \in Responses
        /\ calls' = calls + 1 /\ provider' = provider /\ runs' = runs
    BY <1>10 DEF ToolReturns, CallLLM
  <2> QED BY <1>0, <1>2, <2>1 DEF Others
<1> QED BY <1>11, <1>12 DEF TurnInv

\* A run ends, with an answer or without.
LEMMA EndStep ==
    ASSUME TurnInv, Stop \/ StreamFails
    PROVE  TurnInv'
<1>0. Conversation(messages) /\ Streams /\ Others
  BY DEF TurnInv
<1>1. /\ phase = "streaming" /\ phase' = "idle"
      /\ response' = None /\ arrived' = <<>> /\ assembly' = <<>>
      /\ UNCHANGED <<provider, executed, calls, runs>>
      /\ messages' \in {messages, Append(messages, Msg("answer", 400, 0))}
  BY DEF Stop, StreamFails
<1>2. Conversation(messages')
  <2>1. PICK q : q = <<Msg("answer", 400, 0)>>
    OBVIOUS
  <2>2. 400 \in Nat /\ messages \in Seq(Message)
    BY <1>0 DEF Conversation
  <2>3. /\ Conversation(q) /\ NoneCut(q)
        /\ Append(messages, Msg("answer", 400, 0)) = messages \o q
    BY <2>1, <2>2, OneText
  <2>4. Conversation(Append(messages, Msg("answer", 400, 0)))
    BY <1>0, <2>3, Appended
  <2> QED BY <1>0, <1>1, <2>4
<1>3. Streams'
  <2>1. /\ <<>> \in Seq(Piece) /\ <<>> \in Seq(Nat) /\ Len(<<>>) = 0 /\ DOMAIN <<>> = {}
    OBVIOUS
  <2>2. response'.calls = <<>> /\ response'.finish \in Finish
    BY <1>1 DEF None, Finish
  <2> QED BY <1>1, <2>1, <2>2 DEF Streams
<1>4. Others' /\ CallIntact' /\ Fitting'
  BY <1>0, <1>1 DEF Others, CallIntact, Fitting
<1> QED BY <1>2, <1>3, <1>4 DEF TurnInv

LEMMA InitTurn ==
    ASSUME Init
    PROVE  TurnInv
<1>1. Conversation(messages)
  BY NothingText DEF Init
<1>2. Streams
  <2>1. /\ <<>> \in Seq(Piece) /\ <<>> \in Seq(Nat) /\ Len(<<>>) = 0 /\ DOMAIN <<>> = {}
    OBVIOUS
  <2>2. response.calls = <<>> /\ response.finish \in Finish
    BY DEF Init, None, Finish
  <2> QED BY <2>1, <2>2 DEF Init, Streams
<1>3. Others /\ CallIntact /\ Fitting
  BY TurnAssumption DEF Init, Others, CallIntact, Fitting
<1> QED BY <1>1, <1>2, <1>3 DEF TurnInv

LEMMA TurnStep ==
    ASSUME TurnInv, [Next]_vars
    PROVE  TurnInv'
<1>0. Conversation(messages) /\ Streams /\ Others /\ CallIntact /\ Fitting
  BY DEF TurnInv
<1>1. ASSUME NEW i \in DOMAIN arrived, PieceArrives(i)
      PROVE  TurnInv'
  <2>1. /\ phase = "streaming"
        /\ UNCHANGED <<provider, messages, phase, response, executed, calls, runs>>
    BY <1>1 DEF PieceArrives
  <2>2. Streams'
    BY <1>0, <1>1, PieceStep
  <2>3. Conversation(messages')
    BY <1>0, <2>1
  <2>4. Others' /\ CallIntact' /\ Fitting'
    BY <1>0, <2>1 DEF Others, CallIntact, Fitting
  <2> QED BY <2>2, <2>3, <2>4 DEF TurnInv
<1>2. CASE Finished \/ UNCHANGED vars
  <2>1. UNCHANGED vars
    BY <1>2 DEF Finished
  <2>2. Conversation(messages')
    BY <1>0, <2>1 DEF vars
  <2>3. Streams' /\ Others' /\ CallIntact' /\ Fitting'
    BY <1>0, <2>1 DEF vars, Streams, Others, CallIntact, Fitting
  <2> QED BY <2>2, <2>3 DEF TurnInv
<1> QED BY <1>1, <1>2, BeginStep, CallToolStep, ToolStep, EndStep DEF Next

LEMMA TurnInvariant == Spec => []TurnInv
<1> QED BY InitTurn, TurnStep, PTL DEF Spec

-----------------------------------------------------------------------------
(* The theorems.                                                           *)

\* The conversation, the response and what has been assembled of it keep their
\* types; of each call no more arrives than it has.
THEOREM TurnTypes == Spec => []TypeOK
<1>1. TurnInv => TypeOK
  <2> SUFFICES ASSUME TurnInv
               PROVE  TypeOK
    OBVIOUS
  <2>1. Conversation(messages) /\ Streams /\ Others /\ CallIntact
    BY DEF TurnInv
  <2>2. messages \in Seq(Message)
    BY <2>1 DEF Conversation
  <2>3. DOMAIN arrived = DOMAIN response.calls /\ DOMAIN assembly \subseteq DOMAIN arrived
    BY <2>1 DEF Streams
  <2>4. ASSUME NEW i \in DOMAIN arrived
        PROVE  arrived[i] \in 0..response.calls[i].pieces
    <3>1. arrived[i] \in Nat /\ response.calls[i] \in Piece
      BY <2>1, <2>3 DEF Streams
    <3>2. arrived[i] <= response.calls[i].pieces
      BY <2>1 DEF Streams
    <3> QED BY <3>1, <3>2 DEF Piece
  <2>5. executed.index \in {0} \union DOMAIN response.calls
    <3>1. CASE phase # "executing"
      BY <2>1, <3>1 DEF Others, NoCall
    <3>2. CASE phase = "executing"
      <4> QED BY <2>1, <3>2 DEF CallIntact, Streams
    <3> QED BY <3>1, <3>2
  <2> QED BY <2>1, <2>2, <2>3, <2>4, <2>5 DEF Others, TypeOK
<1> QED BY <1>1, TurnInvariant, PTL

\* In each request a result stands behind its call, unless a compaction has cut
\* between them: appending, both prunings and compaction keep it so.
THEOREM CallsStayPaired == Spec => []RequestPaired
<1>1. TurnInv => RequestPaired
  BY DEF TurnInv, Conversation, Paired, RequestPaired, Request, Converted
<1> QED BY <1>1, TurnInvariant, PTL

\* What the LLM is called with fits in 90 % of the budget, or nothing is left to clear;
\* and no result is cleared while an older one is not.
THEOREM BudgetIsKept == Spec => []BudgetKept
<1>1. TurnInv => BudgetKept
  <2> SUFFICES ASSUME TurnInv
               PROVE  BudgetKept
    OBVIOUS
  <2>1. Fitting /\ OldestFirst(messages)
    BY DEF TurnInv, Conversation
  <2> QED BY <2>1 DEF Fitting, Fits, Spent, OldestFirst, BudgetKept
<1> QED BY <1>1, TurnInvariant, PTL

\* A tool is executed for the first call of a response, with its own input or with
\* none, however the pieces interleave and wherever the response is cut off.
THEOREM FirstCallIntact == Spec => []CallIntact
<1>1. TurnInv => CallIntact
  BY DEF TurnInv
<1> QED BY <1>1, TurnInvariant, PTL
=============================================================================
