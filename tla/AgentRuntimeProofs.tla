------------------------- MODULE AgentRuntimeProofs -------------------------
(***************************************************************************)
(* Theorems about AgentRuntime, for every number of runs that may overlap, *)
(* every protected head and tail of a compaction and all bounds: its types,*)
(* the order of each conversation, what a compaction keeps, what becomes   *)
(* of steered chunks and which runs are persisted.                         *)
(*                                                                         *)
(* A conversation is looked at without the others: Conversation(ms, lg)    *)
(* says that ms is in order and has whole tool calls, given the log lg.    *)
(* Appending the newest messages and replacing the middle both keep that,  *)
(* so it does not matter whose snapshot a compaction writes back.          *)
(***************************************************************************)
EXTENDS AgentRuntime, SequenceTheorems, TLAPS

\* The part of a sequence before a position and the part after it: a conversation is
\* cut where it is compacted.
LEMMA Halves ==
    ASSUME NEW D, NEW q \in Seq(D), NEW h \in Nat, h <= Len(q)
    PROVE  /\ SubSeq(q, 1, h) \in Seq(D) /\ Len(SubSeq(q, 1, h)) = h
           /\ \A i \in 1..h : SubSeq(q, 1, h)[i] = q[i]
           /\ SubSeq(q, h + 1, Len(q)) \in Seq(D)
           /\ Len(SubSeq(q, h + 1, Len(q))) = Len(q) - h
           /\ \A i \in 1..(Len(q) - h) : SubSeq(q, h + 1, Len(q))[i] = q[h + i]
OBVIOUS

\* One sequence behind another.
LEMMA Joined ==
    ASSUME NEW D, NEW p \in Seq(D), NEW q \in Seq(D)
    PROVE  \A r : r = p \o q =>
             /\ r \in Seq(D) /\ Len(r) = Len(p) + Len(q)
             /\ \A i \in 1..Len(p) : r[i] = p[i]
             /\ \A i \in 1..Len(q) : r[Len(p) + i] = q[i]
OBVIOUS
-----------------------------------------------------------------------------
\* An element stands for messages of the log, and for one at least.
Filled(ms, lg) == \A i \in DOMAIN ms : ms[i] # {} /\ ms[i] \subseteq 1..Len(lg)

Sorted(ms) == \A i, j \in DOMAIN ms : i < j => \A a \in ms[i], b \in ms[j] : a < b

\* The result of a tool call stands behind its call.
Paired(ms, lg) ==
    \A i \in DOMAIN ms : \A n \in ms[i] :
        ms[i] = {n} /\ lg[n].kind = "tool_result" =>
            i > 1 /\ n - 1 \in ms[i - 1] /\ lg[n - 1].kind = "tool_use"

\* A conversation of messages of the log that may go to the LLM.
Conversation(ms, lg) ==
    /\ ms \in Seq(SUBSET (1..Len(lg)))
    /\ Filled(ms, lg) /\ Sorted(ms) /\ Paired(ms, lg)

Long(ms) == Len(ms) > ProtectedHead + ProtectedTail

Conversations ==
    /\ Conversation(messages, log)
    /\ \A r \in Runs : /\ Conversation(snapshot[r], log)
                       /\ phase[r] = "compacting" => Long(snapshot[r])

\* The last elements of a conversation are the last messages of the log.
Aligned(ms, lg) ==
    \A k \in 0..(ProtectedTail - 1) :
        k < Len(lg) => k < Len(ms) /\ ms[Len(ms) - k] = {Len(lg) - k}

\* No message is lost while runs do not overlap.
Alone ==
    ~overlapped =>
        /\ \A q, r \in Executing : q = r
        /\ \A r \in Runs : phase[r] = "compacting" => snapshot[r] = messages
        /\ Stands(messages) = 1..Len(log)
        /\ Aligned(messages, log)

\* What a run leaves in the log shows in its flags, and a run that has ended
\* with a flag is in the transcript, once.
Accounts ==
    /\ \A n \in DOMAIN log : /\ log[n].kind = "tool_result" => worked[log[n].run]
                             /\ log[n].kind = "answer" => spoke[log[n].run]
    /\ \A i \in DOMAIN transcript : phase[transcript[i]] = "end"
    /\ \A i, j \in DOMAIN transcript : transcript[i] = transcript[j] => i = j
    /\ \A r \in Runs : phase[r] = "end" /\ (spoke[r] \/ worked[r]) =>
                         \E i \in DOMAIN transcript : transcript[i] = r

-----------------------------------------------------------------------------
(* What is appended, and what a compaction makes of a conversation.        *)

\* Messages that may be appended: a tool result comes with its call.
Whole(new) ==
    \A i \in DOMAIN new :
        new[i].kind = "tool_result" => i > 1 /\ new[i - 1].kind = "tool_use"

\* The elements of _messages for n messages behind a log of length len.
Fresh(len, n) == [i \in 1..n |-> {len + i}]

LEMMA FreshElements ==
    ASSUME NEW len \in Nat, NEW n \in Nat
    PROVE  \A f : f = Fresh(len, n) =>
             /\ f \in Seq(SUBSET (1..(len + n))) /\ Len(f) = n /\ DOMAIN f = 1..n
             /\ \A i \in 1..n : f[i] = {len + i}
<1>1. PICK f : f = [i \in 1..n |-> {len + i}]
  OBVIOUS
<1>2. \A i \in 1..n : {len + i} \in SUBSET (1..(len + n))
  OBVIOUS
<1>3. f \in [1..n -> SUBSET (1..(len + n))]
  BY <1>1, <1>2
<1>4. f \in Seq(SUBSET (1..(len + n))) /\ Len(f) = n /\ DOMAIN f = 1..n
  BY <1>3
<1> QED BY <1>1, <1>4 DEF Fresh

\* l and c are the log lg and the conversation ms, longer by the messages new.
IsLonger(lg, new, ms, l, c) ==
    /\ l \in Seq(Message) /\ Len(l) = Len(lg) + Len(new)
    /\ \A i \in 1..Len(lg) : l[i] = lg[i]
    /\ \A i \in 1..Len(new) : l[Len(lg) + i] = new[i]
    /\ c \in Seq(SUBSET (1..Len(l))) /\ Len(c) = Len(ms) + Len(new)
    /\ \A i \in 1..Len(ms) : c[i] = ms[i]
    /\ \A i \in 1..Len(new) : c[Len(ms) + i] = {Len(lg) + i}

LEMMA Longer ==
    ASSUME NEW lg \in Seq(Message), NEW new \in Seq(Message), NEW ms \in Seq(SUBSET (1..Len(lg)))
    PROVE  \A l, c : l = lg \o new /\ c = ms \o Fresh(Len(lg), Len(new)) => IsLonger(lg, new, ms, l, c)
<1>0. Len(lg) \in Nat /\ Len(new) \in Nat /\ Len(ms) \in Nat
  OBVIOUS
<1>1. PICK f : f = Fresh(Len(lg), Len(new))
  OBVIOUS
<1>2. /\ f \in Seq(SUBSET (1..(Len(lg) + Len(new)))) /\ Len(f) = Len(new)
      /\ \A i \in 1..Len(new) : f[i] = {Len(lg) + i}
  <2>1. \A g : g = Fresh(Len(lg), Len(new)) =>
           /\ g \in Seq(SUBSET (1..(Len(lg) + Len(new)))) /\ Len(g) = Len(new) /\ DOMAIN g = 1..Len(new)
           /\ \A i \in 1..Len(new) : g[i] = {Len(lg) + i}
    BY <1>0, FreshElements, Zenon
  <2> QED BY <1>1, <2>1, Zenon
<1>3. PICK l : l = lg \o new
  OBVIOUS
<1>4. /\ l \in Seq(Message) /\ Len(l) = Len(lg) + Len(new)
      /\ \A i \in 1..Len(lg) : l[i] = lg[i]
      /\ \A i \in 1..Len(new) : l[Len(lg) + i] = new[i]
  BY <1>3, Joined
<1>5. ms \in Seq(SUBSET (1..Len(l)))
  <2>1. SUBSET (1..Len(lg)) \subseteq SUBSET (1..Len(l))
    BY <1>0, <1>4
  <2> QED BY <2>1
<1>6. PICK c : c = ms \o f
  OBVIOUS
<1>7. /\ c \in Seq(SUBSET (1..Len(l))) /\ Len(c) = Len(ms) + Len(new)
      /\ \A i \in 1..Len(ms) : c[i] = ms[i]
      /\ \A i \in 1..Len(new) : c[Len(ms) + i] = {Len(lg) + i}
  <2>0. f \in Seq(SUBSET (1..Len(l)))
    BY <1>2, <1>4
  <2>1. /\ c \in Seq(SUBSET (1..Len(l))) /\ Len(c) = Len(ms) + Len(f)
        /\ \A i \in 1..Len(ms) : c[i] = ms[i]
        /\ \A i \in 1..Len(f) : c[Len(ms) + i] = f[i]
    BY <1>5, <1>6, <2>0, Joined
  <2> QED BY <1>2, <2>1
<1>8. IsLonger(lg, new, ms, l, c)
  BY <1>4, <1>7 DEF IsLonger
<1> QED BY <1>1, <1>3, <1>6, <1>8

\* A conversation stays one when the log grows.
LEMMA LogGrows ==
    ASSUME NEW lg \in Seq(Message), NEW l \in Seq(Message), Len(lg) <= Len(l),
           \A i \in 1..Len(lg) : l[i] = lg[i],
           NEW ms, Conversation(ms, lg)
    PROVE  Conversation(ms, l)
<1>0. Len(lg) \in Nat /\ Len(l) \in Nat /\ 1..Len(lg) \subseteq 1..Len(l)
  OBVIOUS
<1>1. ms \in Seq(SUBSET (1..Len(l)))
  <2>1. SUBSET (1..Len(lg)) \subseteq SUBSET (1..Len(l))
    BY <1>0
  <2> QED BY <2>1 DEF Conversation
<1>2. Filled(ms, l)
  BY <1>0 DEF Conversation, Filled
<1>3. Paired(ms, l)
  <2> SUFFICES ASSUME NEW i \in DOMAIN ms, NEW n \in ms[i], ms[i] = {n}, l[n].kind = "tool_result"
               PROVE  i > 1 /\ n - 1 \in ms[i - 1] /\ l[n - 1].kind = "tool_use"
    BY DEF Paired
  <2>1. n \in 1..Len(lg) /\ lg[n].kind = "tool_result"
    BY DEF Conversation, Filled
  <2>2. i > 1 /\ n - 1 \in ms[i - 1] /\ lg[n - 1].kind = "tool_use"
    BY <2>1 DEF Conversation, Paired
  <2>3. i - 1 \in DOMAIN ms
    BY <1>1, <2>2
  <2>4. n - 1 \in 1..Len(lg)
    BY <2>2, <2>3 DEF Conversation, Filled
  <2> QED BY <2>2, <2>4
<1> QED BY <1>1, <1>2, <1>3 DEF Conversation

\* The newest messages join a conversation.
LEMMA Lengthened ==
    ASSUME NEW lg \in Seq(Message), NEW new \in Seq(Message), Whole(new),
           NEW ms, Conversation(ms, lg)
    PROVE  \A l, c : l = lg \o new /\ c = ms \o Fresh(Len(lg), Len(new)) => Conversation(c, l)
<1>0. ms \in Seq(SUBSET (1..Len(lg)))
  BY DEF Conversation
<1>1. PICK l : l = lg \o new
  OBVIOUS
<1>2. PICK c : c = ms \o Fresh(Len(lg), Len(new))
  OBVIOUS
<1>3. /\ l \in Seq(Message) /\ Len(l) = Len(lg) + Len(new)
      /\ \A i \in 1..Len(lg) : l[i] = lg[i]
      /\ \A i \in 1..Len(new) : l[Len(lg) + i] = new[i]
      /\ c \in Seq(SUBSET (1..Len(l))) /\ Len(c) = Len(ms) + Len(new)
      /\ \A i \in 1..Len(ms) : c[i] = ms[i]
      /\ \A i \in 1..Len(new) : c[Len(ms) + i] = {Len(lg) + i}
  <2>1. IsLonger(lg, new, ms, l, c)
    BY <1>0, <1>1, <1>2, Longer
  <2> QED BY <2>1 DEF IsLonger
<1>4. PICK a \in Nat, b \in Nat, n \in Nat : a = Len(ms) /\ b = Len(lg) /\ n = Len(new)
  BY <1>0
<1>5. /\ Len(l) = b + n /\ DOMAIN l = 1..(b + n) /\ DOMAIN c = 1..(a + n) /\ DOMAIN ms = 1..a
      /\ DOMAIN new = 1..n
      /\ \A i \in 1..b : l[i] = lg[i]
      /\ \A i \in 1..n : l[b + i] = new[i]
      /\ \A i \in 1..a : c[i] = ms[i]
      /\ \A i \in 1..n : c[a + i] = {b + i}
  BY <1>0, <1>3, <1>4
<1>6. \A i \in DOMAIN c : i \in 1..a \/ \E k \in 1..n : i = a + k
  <2> SUFFICES ASSUME NEW i \in 1..(a + n), i \notin 1..a
               PROVE  \E k \in 1..n : i = a + k
    BY <1>5
  <2>1. i - a \in 1..n /\ i = a + (i - a)
    OBVIOUS
  <2> QED BY <2>1
<1>7. \A i \in 1..a : ms[i] # {} /\ ms[i] \subseteq 1..b
  BY <1>4, <1>5 DEF Conversation, Filled
<1>8. Filled(c, l)
  <2> SUFFICES ASSUME NEW i \in DOMAIN c
               PROVE  c[i] # {} /\ c[i] \subseteq 1..(b + n)
    BY <1>5 DEF Filled
  <2>1. CASE i \in 1..a
    <3>1. c[i] = ms[i] /\ 1..b \subseteq 1..(b + n)
      BY <1>5, <2>1
    <3> QED BY <1>7, <2>1, <3>1
  <2>2. ASSUME NEW k \in 1..n, i = a + k
        PROVE  c[i] # {} /\ c[i] \subseteq 1..(b + n)
    <3>1. c[i] = {b + k} /\ b + k \in 1..(b + n)
      BY <1>5, <2>2
    <3> QED BY <3>1
  <2> QED BY <1>6, <2>1, <2>2
<1>9. Sorted(c)
  <2> SUFFICES ASSUME NEW i \in DOMAIN c, NEW j \in DOMAIN c, i < j, NEW x \in c[i], NEW y \in c[j]
               PROVE  x < y
    BY DEF Sorted
  <2>1. CASE i \in 1..a /\ j \in 1..a
    <3>1. x \in ms[i] /\ y \in ms[j]
      BY <1>5, <2>1
    <3> QED BY <1>5, <2>1, <3>1 DEF Conversation, Sorted
  <2>2. ASSUME i \in 1..a, NEW k \in 1..n, j = a + k
        PROVE  x < y
    <3>1. x \in 1..b /\ y = b + k
      BY <1>5, <1>7, <2>2
    <3> QED BY <3>1
  <2>3. ASSUME NEW k \in 1..n, i = a + k, j \in 1..a
        PROVE  FALSE
    BY <2>3
  <2>4. ASSUME NEW h \in 1..n, NEW k \in 1..n, i = a + h, j = a + k
        PROVE  x < y
    <3>1. x = b + h /\ y = b + k /\ h < k
      BY <1>5, <2>4
    <3> QED BY <3>1
  <2> QED BY <1>6, <2>1, <2>2, <2>3, <2>4
<1>10. Paired(c, l)
  <2> SUFFICES ASSUME NEW i \in DOMAIN c, NEW m \in c[i], c[i] = {m}, l[m].kind = "tool_result"
               PROVE  i > 1 /\ m - 1 \in c[i - 1] /\ l[m - 1].kind = "tool_use"
    BY DEF Paired
  <2>1. CASE i \in 1..a
    <3>1. m \in ms[i] /\ ms[i] = {m} /\ m \in 1..b
      BY <1>5, <1>7, <2>1
    <3>2. lg[m].kind = "tool_result"
      BY <1>5, <3>1
    <3>3. i > 1 /\ m - 1 \in ms[i - 1] /\ lg[m - 1].kind = "tool_use"
      BY <1>5, <2>1, <3>1, <3>2 DEF Conversation, Paired
    <3>4. i - 1 \in 1..a
      BY <2>1, <3>3
    <3>5. m - 1 \in 1..b
      BY <1>7, <3>3, <3>4
    <3> QED BY <1>5, <3>3, <3>4, <3>5
  <2>2. ASSUME NEW k \in 1..n, i = a + k
        PROVE  i > 1 /\ m - 1 \in c[i - 1] /\ l[m - 1].kind = "tool_use"
    <3>1. m = b + k /\ l[m] = new[k]
      BY <1>5, <2>2
    <3>2. k > 1 /\ new[k - 1].kind = "tool_use"
      BY <1>5, <3>1 DEF Whole
    <3>3. k - 1 \in 1..n /\ m - 1 = b + (k - 1) /\ i - 1 = a + (k - 1) /\ i > 1
      BY <2>2, <3>1, <3>2
    <3>4. c[a + (k - 1)] = {b + (k - 1)} /\ l[b + (k - 1)] = new[k - 1]
      BY <1>5, <3>3
    <3> QED BY <3>2, <3>3, <3>4
  <2> QED BY <1>6, <2>1, <2>2
<1>11. Conversation(c, l)
  BY <1>3, <1>8, <1>9, <1>10 DEF Conversation
<1> QED BY <1>1, <1>2, <1>11

LEMMA DigestElements ==
    ASSUME NEW N \in Nat, NEW ms \in Seq(SUBSET (1..N)), Long(ms)
    PROVE  \A d : d = Digest(ms) =>
             /\ d \in Seq(SUBSET (1..N)) /\ Len(d) = ProtectedHead + 1 + ProtectedTail
             /\ \A i \in 1..ProtectedHead : d[i] = ms[i]
             /\ d[ProtectedHead + 1] = UNION {ms[i] : i \in (ProtectedHead + 1)..(Len(ms) - ProtectedTail)}
             /\ \A i \in 1..ProtectedTail : d[ProtectedHead + 1 + i] = ms[Len(ms) - ProtectedTail + i]
<1>0. /\ ProtectedHead \in Nat /\ ProtectedTail \in Nat /\ Len(ms) \in Nat
      /\ ProtectedHead <= Len(ms) /\ Len(ms) - ProtectedTail \in Nat
      /\ Len(ms) - ProtectedTail <= Len(ms)
      /\ Len(ms) - (Len(ms) - ProtectedTail) = ProtectedTail
  BY RuntimeAssumption DEF Long
<1>h. PICK head : head = SubSeq(ms, 1, ProtectedHead)
  OBVIOUS
<1>1. /\ head \in Seq(SUBSET (1..N)) /\ Len(head) = ProtectedHead
      /\ \A i \in 1..ProtectedHead : head[i] = ms[i]
  BY <1>0, <1>h, Halves
<1>k. PICK k \in Nat : k = Len(ms) - ProtectedTail
  BY <1>0
<1>t. PICK tail : tail = SubSeq(ms, k + 1, Len(ms))
  OBVIOUS
<1>2. /\ tail \in Seq(SUBSET (1..N)) /\ Len(tail) = ProtectedTail
      /\ \A i \in 1..ProtectedTail : tail[i] = ms[k + i]
  <2>1. /\ SubSeq(ms, k + 1, Len(ms)) \in Seq(SUBSET (1..N))
        /\ Len(SubSeq(ms, k + 1, Len(ms))) = Len(ms) - k
        /\ \A i \in 1..(Len(ms) - k) : SubSeq(ms, k + 1, Len(ms))[i] = ms[k + i]
    <3>1. k <= Len(ms)
      BY <1>0, <1>k
    <3> QED BY <3>1, Halves
  <2>2. Len(ms) - k = ProtectedTail
    BY <1>0, <1>k
  <2> QED BY <1>t, <2>1, <2>2
<1>m. PICK mid : mid = UNION {ms[i] : i \in (ProtectedHead + 1)..k}
  OBVIOUS
<1>3. mid \in SUBSET (1..N)
  <2>1. ASSUME NEW i \in (ProtectedHead + 1)..k
        PROVE  ms[i] \in SUBSET (1..N)
    <3>1. i \in 1..Len(ms)
      BY <1>0, <1>k
    <3> QED BY <3>1
  <2> QED BY <1>m, <2>1
<1>e. PICK e : e = head \o <<mid>>
  OBVIOUS
<1>4. /\ e \in Seq(SUBSET (1..N)) /\ Len(e) = ProtectedHead + 1
      /\ \A i \in 1..ProtectedHead : e[i] = ms[i]
      /\ e[ProtectedHead + 1] = mid
  <2>1. <<mid>> \in Seq(SUBSET (1..N)) /\ Len(<<mid>>) = 1 /\ <<mid>>[1] = mid /\ 1 \in 1..1
    BY <1>3
  <2>2. /\ e \in Seq(SUBSET (1..N)) /\ Len(e) = Len(head) + Len(<<mid>>)
        /\ \A i \in 1..Len(head) : e[i] = head[i]
        /\ \A i \in 1..Len(<<mid>>) : e[Len(head) + i] = <<mid>>[i]
    BY <1>1, <1>e, <2>1, Joined
  <2> QED BY <1>1, <2>1, <2>2
<1>d. PICK d : d = e \o tail
  OBVIOUS
<1>5. /\ d \in Seq(SUBSET (1..N)) /\ Len(d) = ProtectedHead + 1 + ProtectedTail
      /\ \A i \in 1..(ProtectedHead + 1) : d[i] = e[i]
      /\ \A i \in 1..ProtectedTail : d[ProtectedHead + 1 + i] = tail[i]
  <2>1. /\ d \in Seq(SUBSET (1..N)) /\ Len(d) = Len(e) + Len(tail)
        /\ \A i \in 1..Len(e) : d[i] = e[i]
        /\ \A i \in 1..Len(tail) : d[Len(e) + i] = tail[i]
    <3>1. e \in Seq(SUBSET (1..N)) /\ tail \in Seq(SUBSET (1..N))
      BY <1>2, <1>4
    <3> QED BY <1>d, <3>1, Joined
  <2> QED BY <1>2, <1>4, <2>1
<1>6. Digest(ms) = d
  BY <1>h, <1>k, <1>t, <1>m, <1>e, <1>d DEF Digest
<1>7. \A i \in 1..ProtectedHead : d[i] = ms[i]
  BY <1>0, <1>4, <1>5
<1>8. d[ProtectedHead + 1] = mid
  BY <1>0, <1>4, <1>5
<1> QED BY <1>2, <1>5, <1>6, <1>7, <1>8, <1>k, <1>m

\* d is the conversation ms with h elements kept at the head, t at the tail and
\* those from h + 1 to k made one.
IsDigest(ms, d, h, t, k) ==
    /\ h \in Nat \ {0} /\ t \in Nat \ {0} /\ k \in Nat /\ k > h
    /\ Len(ms) = k + t /\ DOMAIN ms = 1..(k + t)
    /\ Len(d) = h + 1 + t /\ DOMAIN d = 1..(h + 1 + t)
    /\ \A j \in 1..h : d[j] = ms[j]
    /\ d[h + 1] = UNION {ms[j] : j \in (h + 1)..k}
    /\ \A j \in 1..t : d[h + 1 + j] = ms[k + j]

LEMMA DigestView ==
    ASSUME NEW N \in Nat, NEW ms \in Seq(SUBSET (1..N)), Long(ms)
    PROVE  /\ Digest(ms) \in Seq(SUBSET (1..N))
           /\ \E k \in Nat : IsDigest(ms, Digest(ms), ProtectedHead, ProtectedTail, k)
<1>d. PICK d : d = Digest(ms)
  OBVIOUS
<1>1. /\ d \in Seq(SUBSET (1..N)) /\ Len(d) = ProtectedHead + 1 + ProtectedTail
      /\ \A i \in 1..ProtectedHead : d[i] = ms[i]
      /\ d[ProtectedHead + 1] = UNION {ms[i] : i \in (ProtectedHead + 1)..(Len(ms) - ProtectedTail)}
      /\ \A i \in 1..ProtectedTail : d[ProtectedHead + 1 + i] = ms[Len(ms) - ProtectedTail + i]
  BY <1>d, DigestElements
<1>2. ProtectedHead \in Nat \ {0} /\ ProtectedTail \in Nat \ {0}
  BY RuntimeAssumption
<1>3. Len(ms) \in Nat /\ Len(ms) > ProtectedHead + ProtectedTail
  BY DEF Long
<1>4. /\ Len(ms) - ProtectedTail \in Nat /\ Len(ms) - ProtectedTail > ProtectedHead
      /\ Len(ms) = Len(ms) - ProtectedTail + ProtectedTail
  BY <1>2, <1>3
<1>5. DOMAIN ms = 1..Len(ms) /\ DOMAIN d = 1..Len(d)
  BY <1>1
<1>6. IsDigest(ms, d, ProtectedHead, ProtectedTail, Len(ms) - ProtectedTail)
  BY <1>1, <1>2, <1>4, <1>5 DEF IsDigest
<1> QED BY <1>1, <1>4, <1>6, <1>d

\* Element i of a compacted conversation comes from element p.
Source(i, p, h, k) ==
    /\ i <= h => p = i
    /\ i = h + 1 => h + 1 <= p /\ p <= k
    /\ i > h + 1 => p = k + (i - (h + 1))

LEMMA DigestParts ==
    ASSUME NEW ms, NEW d, NEW h, NEW t, NEW k, IsDigest(ms, d, h, t, k), NEW i \in DOMAIN d
    PROVE  \/ i \in 1..h
           \/ i = h + 1
           \/ \E j \in 1..t : i = h + 1 + j
<1>1. h \in Nat /\ t \in Nat /\ i \in 1..(h + 1 + t)
  BY DEF IsDigest
<1>2. CASE i > h + 1
  <2>1. i - (h + 1) \in 1..t /\ i = h + 1 + (i - (h + 1))
    BY <1>1, <1>2
  <2> QED BY <2>1
<1>3. CASE ~(i > h + 1)
  BY <1>1, <1>3
<1> QED BY <1>2, <1>3

LEMMA DigestSource ==
    ASSUME NEW ms, NEW d, NEW h, NEW t, NEW k, IsDigest(ms, d, h, t, k),
           NEW i \in DOMAIN d, NEW x \in d[i]
    PROVE  \E p \in DOMAIN ms : x \in ms[p] /\ Source(i, p, h, k)
<1>1. /\ h \in Nat \ {0} /\ t \in Nat /\ k \in Nat /\ k > h /\ DOMAIN ms = 1..(k + t)
  BY DEF IsDigest
<1>2. CASE i \in 1..h
  <2>1. i \in DOMAIN ms /\ Source(i, i, h, k)
    BY <1>1, <1>2 DEF Source
  <2>2. x \in ms[i]
    BY <1>2 DEF IsDigest
  <2> QED BY <2>1, <2>2
<1>3. CASE i = h + 1
  <2>1. PICK p \in (h + 1)..k : x \in ms[p]
    BY <1>3 DEF IsDigest
  <2>2. p \in DOMAIN ms /\ Source(i, p, h, k)
    BY <1>1, <1>3 DEF Source
  <2> QED BY <2>1, <2>2
<1>4. ASSUME NEW j \in 1..t, i = h + 1 + j
      PROVE  \E p \in DOMAIN ms : x \in ms[p] /\ Source(i, p, h, k)
  <2>1. x \in ms[k + j]
    BY <1>4 DEF IsDigest
  <2>2. k + j \in DOMAIN ms /\ Source(i, k + j, h, k)
    BY <1>1, <1>4 DEF Source
  <2> QED BY <2>1, <2>2
<1> QED BY <1>2, <1>3, <1>4, DigestParts

\* Later elements come from later ones.
LEMMA SourceSorted ==
    ASSUME NEW h \in Nat, NEW k \in Nat, k > h, NEW i \in Nat, NEW j \in Nat, i < j,
           NEW p \in Nat, NEW q \in Nat, Source(i, p, h, k), Source(j, q, h, k)
    PROVE  p < q
BY DEF Source

\* A compacted conversation is one.
LEMMA Digested ==
    ASSUME NEW lg \in Seq(Message), NEW ms, Conversation(ms, lg), Long(ms)
    PROVE  Conversation(Digest(ms), lg)
<1>0. Len(lg) \in Nat /\ ms \in Seq(SUBSET (1..Len(lg)))
  BY DEF Conversation
<1>d. PICK d : d = Digest(ms)
  OBVIOUS
<1>1. PICK h, t, k : d \in Seq(SUBSET (1..Len(lg))) /\ IsDigest(ms, d, h, t, k)
  <2>1. PICK N \in Nat : N = Len(lg)
    BY <1>0
  <2>2. ms \in Seq(SUBSET (1..N))
    BY <1>0, <2>1
  <2>3. /\ Digest(ms) \in Seq(SUBSET (1..N))
        /\ \E k \in Nat : IsDigest(ms, Digest(ms), ProtectedHead, ProtectedTail, k)
    BY <2>2, DigestView
  <2> QED BY <1>d, <2>1, <2>3
<1>2. /\ h \in Nat \ {0} /\ t \in Nat \ {0} /\ k \in Nat /\ k > h
      /\ DOMAIN ms = 1..(k + t) /\ DOMAIN d = 1..(h + 1 + t)
  BY <1>1 DEF IsDigest
<1>3. \A p \in DOMAIN ms : ms[p] # {} /\ ms[p] \subseteq 1..Len(lg)
  BY DEF Conversation, Filled
<1>4. /\ \A j \in 1..h : d[j] = ms[j] /\ j \in DOMAIN ms
      /\ \A j \in (h + 1)..k : ms[j] \subseteq d[h + 1] /\ j \in DOMAIN ms
      /\ \A j \in 1..t : d[h + 1 + j] = ms[k + j] /\ k + j \in DOMAIN ms
      /\ h + 1 \in (h + 1)..k /\ k \in (h + 1)..k
  <2>1. /\ \A j \in 1..h : d[j] = ms[j]
        /\ d[h + 1] = UNION {ms[j] : j \in (h + 1)..k}
        /\ \A j \in 1..t : d[h + 1 + j] = ms[k + j]
    BY <1>1 DEF IsDigest
  <2>2. \A j \in 1..h : j \in DOMAIN ms
    BY <1>2
  <2>3. \A j \in (h + 1)..k : j \in DOMAIN ms
    BY <1>2
  <2>4. \A j \in 1..t : k + j \in DOMAIN ms
    BY <1>2
  <2>5. h + 1 \in (h + 1)..k /\ k \in (h + 1)..k
    BY <1>2
  <2>6. \A j \in (h + 1)..k : ms[j] \subseteq d[h + 1]
    BY <2>1
  <2> QED BY <2>1, <2>2, <2>3, <2>4, <2>5, <2>6
<1>5. \A i \in DOMAIN d : i \in 1..h \/ i = h + 1 \/ \E j \in 1..t : i = h + 1 + j
  BY <1>1, DigestParts
<1>6. Filled(d, lg)
  <2>1. ASSUME NEW i \in DOMAIN d
        PROVE  d[i] # {}
    <3>1. CASE i \in 1..h
      BY <1>3, <1>4, <3>1
    <3>2. CASE i = h + 1
      BY <1>3, <1>4, <3>2
    <3>3. CASE \E j \in 1..t : i = h + 1 + j
      BY <1>3, <1>4, <3>3
    <3> QED BY <1>5, <3>1, <3>2, <3>3
  <2>2. \A i \in DOMAIN d : d[i] \subseteq 1..Len(lg)
    BY <1>1
  <2> QED BY <2>1, <2>2 DEF Filled
<1>7. Sorted(d)
  <2> SUFFICES ASSUME NEW i \in DOMAIN d, NEW j \in DOMAIN d, i < j, NEW x \in d[i], NEW y \in d[j]
               PROVE  x < y
    BY DEF Sorted
  <2>1. PICK p \in DOMAIN ms : x \in ms[p] /\ Source(i, p, h, k)
    BY <1>1, DigestSource
  <2>2. PICK q \in DOMAIN ms : y \in ms[q] /\ Source(j, q, h, k)
    BY <1>1, DigestSource
  <2>3. h \in Nat /\ k \in Nat /\ i \in Nat /\ j \in Nat /\ p \in Nat /\ q \in Nat
    BY <1>2
  <2>4. p < q
    BY <1>2, <2>1, <2>2, <2>3, SourceSorted
  <2> QED BY <2>1, <2>2, <2>4 DEF Conversation, Sorted
<1>8. \A p \in DOMAIN ms : \A n \in ms[p] :
         ms[p] = {n} /\ lg[n].kind = "tool_result" =>
             p > 1 /\ n - 1 \in ms[p - 1] /\ lg[n - 1].kind = "tool_use"
  BY DEF Conversation, Paired
<1>9. Paired(d, lg)
  <2> SUFFICES ASSUME NEW i \in DOMAIN d, NEW n \in d[i], d[i] = {n}, lg[n].kind = "tool_result"
               PROVE  i > 1 /\ n - 1 \in d[i - 1] /\ lg[n - 1].kind = "tool_use"
    BY DEF Paired
  <2>1. CASE i \in 1..h
    <3>1. i > 1 /\ n - 1 \in ms[i - 1] /\ lg[n - 1].kind = "tool_use"
      BY <1>4, <1>8, <2>1
    <3>2. i - 1 \in 1..h
      <4>1. h \in Nat /\ i \in 1..h /\ i > 1
        BY <1>2, <2>1, <3>1
      <4> QED BY <4>1
    <3> QED BY <1>4, <3>1, <3>2
  <2>2. CASE i = h + 1
    <3>1. PICK p \in DOMAIN ms : p = h + 1 /\ ms[p] = {n}
      BY <1>3, <1>4, <2>2
    <3>2. n - 1 \in ms[p - 1] /\ lg[n - 1].kind = "tool_use"
      BY <1>8, <3>1
    <3>3. p - 1 = h /\ i - 1 = h /\ h \in 1..h /\ i > 1
      BY <1>2, <2>2, <3>1
    <3> QED BY <1>4, <3>2, <3>3
  <2>3. ASSUME NEW j \in 1..t, i = h + 1 + j
        PROVE  i > 1 /\ n - 1 \in d[i - 1] /\ lg[n - 1].kind = "tool_use"
    <3>1. PICK p \in DOMAIN ms : p = k + j /\ ms[p] = {n}
      BY <1>4, <2>3
    <3>2. n - 1 \in ms[p - 1] /\ lg[n - 1].kind = "tool_use"
      BY <1>8, <3>1
    <3>3. CASE j = 1
      <4>1. p - 1 = k /\ i - 1 = h + 1 /\ i > 1
        BY <1>2, <2>3, <3>1, <3>3
      <4>2. n - 1 \in d[h + 1]
        BY <1>4, <3>2, <4>1
      <4> QED BY <3>2, <4>1, <4>2
    <3>4. CASE j # 1
      <4>1. PICK m \in 1..t : i - 1 = h + 1 + m /\ p - 1 = k + m
        <5>1. j - 1 \in 1..t /\ i - 1 = h + 1 + (j - 1) /\ p - 1 = k + (j - 1)
          BY <1>2, <2>3, <3>1, <3>4
        <5> QED BY <5>1
      <4>2. d[i - 1] = ms[p - 1]
        BY <1>4, <4>1
      <4>3. i > 1
        BY <1>2, <2>3
      <4> QED BY <3>2, <4>2, <4>3
    <3> QED BY <3>3, <3>4
  <2> QED BY <1>5, <2>1, <2>2, <2>3
<1> QED BY <1>1, <1>6, <1>7, <1>9, <1>d DEF Conversation

\* A compaction stands for what the conversation stood for, and leaves its end.
LEMMA DigestKeeps ==
    ASSUME NEW N \in Nat, NEW ms \in Seq(SUBSET (1..N)), Long(ms), NEW lg, Len(lg) = N
    PROVE  /\ Stands(Digest(ms)) = Stands(ms)
           /\ Aligned(ms, lg) => Aligned(Digest(ms), lg)
<1>d. PICK d : d = Digest(ms)
  OBVIOUS
<1>h. PICK h, t : h = ProtectedHead /\ t = ProtectedTail
  OBVIOUS
<1>1. PICK k : IsDigest(ms, d, h, t, k)
  BY <1>d, <1>h, DigestView
<1>2. /\ h \in Nat \ {0} /\ t \in Nat \ {0} /\ k \in Nat /\ k > h
      /\ Len(ms) = k + t /\ Len(d) = h + 1 + t
      /\ DOMAIN ms = 1..(k + t) /\ DOMAIN d = 1..(h + 1 + t)
      /\ \A j \in 1..h : d[j] = ms[j]
      /\ d[h + 1] = UNION {ms[j] : j \in (h + 1)..k}
      /\ \A j \in 1..t : d[h + 1 + j] = ms[k + j]
  BY <1>1 DEF IsDigest
<1>3. Stands(d) \subseteq Stands(ms)
  <2> SUFFICES ASSUME NEW i \in DOMAIN d, NEW x \in d[i]
               PROVE  \E p \in DOMAIN ms : x \in ms[p]
    BY DEF Stands
  <2> QED BY <1>1, DigestSource
<1>4. Stands(ms) \subseteq Stands(d)
  <2> SUFFICES ASSUME NEW p \in DOMAIN ms, NEW x \in ms[p]
               PROVE  \E i \in DOMAIN d : x \in d[i]
    BY DEF Stands
  <2>1. CASE p <= h
    <3>1. p \in 1..h /\ p \in DOMAIN d
      BY <1>2, <2>1
    <3> QED BY <1>2, <3>1
  <2>2. CASE p > h /\ p <= k
    <3>1. p \in (h + 1)..k /\ h + 1 \in DOMAIN d
      BY <1>2, <2>2
    <3> QED BY <1>2, <3>1
  <2>3. CASE p > k
    <3>1. PICK j \in 1..t : p = k + j
      <4>1. p - k \in 1..t /\ p = k + (p - k)
        BY <1>2, <2>3
      <4> QED BY <4>1
    <3>2. h + 1 + j \in DOMAIN d
      BY <1>2
    <3> QED BY <1>2, <3>1, <3>2
  <2>4. p <= h \/ (p > h /\ p <= k) \/ p > k
    BY <1>2
  <2> QED BY <2>1, <2>2, <2>3, <2>4
<1>5. ASSUME Aligned(ms, lg)
      PROVE  Aligned(d, lg)
  <2> SUFFICES ASSUME NEW i \in 0..(t - 1), i < Len(lg)
               PROVE  i < Len(d) /\ d[Len(d) - i] = {Len(lg) - i}
    BY <1>h DEF Aligned
  <2>1. ms[Len(ms) - i] = {Len(lg) - i}
    BY <1>5, <1>h DEF Aligned
  <2>2. PICK j \in 1..t : j = t - i
    BY <1>2
  <2>3. i < Len(d) /\ Len(d) - i = h + 1 + j /\ Len(ms) - i = k + j
    BY <1>2, <2>2
  <2>4. d[h + 1 + j] = ms[k + j]
    BY <1>2
  <2> QED BY <2>1, <2>3, <2>4
<1> QED BY <1>3, <1>4, <1>5, <1>d

\* What grows stands for all of the log, if it did, and ends like the log.
LEMMA LengthenedKeeps ==
    ASSUME NEW lg \in Seq(Message), NEW new \in Seq(Message), NEW ms \in Seq(SUBSET (1..Len(lg))),
           NEW l, NEW c, IsLonger(lg, new, ms, l, c)
    PROVE  /\ Stands(ms) = 1..Len(lg) => Stands(c) = 1..Len(l)
           /\ Aligned(ms, lg) => Aligned(c, l)
<1>1. PICK a \in Nat, b \in Nat, n \in Nat : a = Len(ms) /\ b = Len(lg) /\ n = Len(new)
  OBVIOUS
<1>2. /\ Len(l) = b + n /\ Len(c) = a + n /\ DOMAIN c = 1..(a + n) /\ DOMAIN ms = 1..a
      /\ \A i \in 1..a : c[i] = ms[i]
      /\ \A i \in 1..n : c[a + i] = {b + i}
  <2>1. /\ Len(l) = b + n /\ Len(c) = a + n
        /\ \A i \in 1..a : c[i] = ms[i]
        /\ \A i \in 1..n : c[a + i] = {b + i}
        /\ c \in Seq(SUBSET (1..Len(l)))
    BY <1>1 DEF IsLonger
  <2>2. DOMAIN c = 1..Len(c) /\ DOMAIN ms = 1..a
    BY <1>1, <2>1
  <2> QED BY <2>1, <2>2
<1>3. ASSUME Stands(ms) = 1..b
      PROVE  Stands(c) = 1..(b + n)
  <2>1. ASSUME NEW x \in 1..(b + n)
        PROVE  \E i \in DOMAIN c : x \in c[i]
    <3>1. CASE x <= b
      <4>1. x \in Stands(ms)
        BY <1>3, <3>1
      <4>2. PICK i \in 1..a : x \in ms[i]
        BY <1>2, <4>1 DEF Stands
      <4>3. i \in 1..(a + n)
        OBVIOUS
      <4> QED BY <1>2, <4>2, <4>3
    <3>2. CASE ~(x <= b)
      <4>1. PICK k \in 1..n : x = b + k
        <5>1. x - b \in 1..n /\ x = b + (x - b)
          BY <3>2
        <5> QED BY <5>1
      <4>2. a + k \in 1..(a + n)
        OBVIOUS
      <4>3. x \in c[a + k]
        BY <1>2, <4>1
      <4> QED BY <1>2, <4>2, <4>3
    <3> QED BY <3>1, <3>2
  <2>2. ASSUME NEW i \in 1..(a + n)
        PROVE  c[i] \subseteq 1..(b + n)
    <3>1. CASE i <= a
      <4>1. i \in 1..a /\ c[i] = ms[i] /\ ms[i] \subseteq Stands(ms)
        BY <1>2, <3>1 DEF Stands
      <4>2. 1..b \subseteq 1..(b + n)
        OBVIOUS
      <4> QED BY <1>3, <4>1, <4>2
    <3>2. CASE ~(i <= a)
      <4>1. PICK k \in 1..n : i = a + k
        <5>1. i - a \in 1..n /\ i = a + (i - a)
          BY <3>2
        <5> QED BY <5>1
      <4>2. c[i] = {b + k} /\ b + k \in 1..(b + n)
        BY <1>2, <4>1
      <4> QED BY <4>2
    <3> QED BY <3>1, <3>2
  <2> QED BY <1>2, <2>1, <2>2 DEF Stands
<1>4. ASSUME Aligned(ms, lg)
      PROVE  Aligned(c, l)
  <2> SUFFICES ASSUME NEW k \in 0..(ProtectedTail - 1), k < b + n
               PROVE  k < a + n /\ c[a + n - k] = {b + n - k}
    BY <1>2 DEF Aligned
  <2>1. ProtectedTail \in Nat /\ k \in Nat
    BY RuntimeAssumption
  <2>2. CASE k < n
    <3>1. PICK i \in 1..n : i = n - k
      BY <2>1, <2>2
    <3>2. a + n - k = a + i /\ b + n - k = b + i
      BY <2>1, <3>1
    <3>3. k < a + n
      BY <2>1, <2>2
    <3>4. c[a + i] = {b + i}
      BY <1>2
    <3> QED BY <3>2, <3>3, <3>4
  <2>3. CASE ~(k < n)
    <3>1. PICK h \in Nat : h = k - n
      BY <2>1, <2>3
    <3>2. h \in 0..(ProtectedTail - 1) /\ h < b
      BY <2>1, <3>1
    <3>3. h < a /\ ms[a - h] = {b - h}
      BY <1>1, <3>2, <1>4 DEF Aligned
    <3>4. a - h \in 1..a /\ a + n - k = a - h /\ b + n - k = b - h
      BY <2>1, <3>1, <3>3
    <3>5. k < a + n
      BY <2>1, <3>1, <3>3
    <3>6. c[a - h] = {b - h}
      BY <1>2, <3>3, <3>4
    <3> QED BY <3>4, <3>5, <3>6
  <2> QED BY <2>2, <2>3
<1> QED BY <1>1, <1>2, <1>3, <1>4

-----------------------------------------------------------------------------
(* What the actions do.                                                    *)

Grows(new) ==
    /\ new \in Seq(Message) /\ Whole(new)
    /\ log' = log \o new /\ messages' = messages \o Fresh(Len(log), Len(new))

Moves(r, p) == phase' = [phase EXCEPT ![r] = p]

\* The conversation grows and goes to the LLM or to a compaction.
GoesOn(r, new) ==
    /\ Grows(new)
    /\ \/ Moves(r, "calling") /\ UNCHANGED snapshot
       \/ /\ Long(messages') /\ Moves(r, "compacting")
          /\ snapshot' = [snapshot EXCEPT ![r] = messages']

\* The conversation grows and is complete for this run.
Completes(r, new) == Grows(new) /\ Moves(r, "closing") /\ UNCHANGED snapshot

Leaves(r, p) == Moves(r, p) /\ UNCHANGED <<log, messages, snapshot>>

Compacts(r) ==
    /\ phase[r] = "compacting" /\ Moves(r, "calling")
    /\ messages' = Digest(snapshot[r]) /\ snapshot' = [snapshot EXCEPT ![r] = <<>>]
    /\ UNCHANGED log

LEMMA OneMessage ==
    ASSUME NEW m \in Message, m.kind # "tool_result"
    PROVE  \A new : new = <<m>> =>
             /\ new \in Seq(Message) /\ Whole(new) /\ Len(new) = 1 /\ DOMAIN new = 1..1 /\ new[1] = m
             /\ \A lg \in Seq(Message) : Append(lg, m) = lg \o new
<1>1. PICK new : new = <<m>>
  OBVIOUS
<1>2. new \in Seq(Message) /\ Len(new) = 1 /\ DOMAIN new = 1..1 /\ new[1] = m /\ DOMAIN new = {1}
  BY <1>1
<1>3. \A lg \in Seq(Message) : Append(lg, m) = lg \o new
  BY <1>1
<1>4. Whole(new)
  BY <1>2 DEF Whole
<1> QED BY <1>1, <1>2, <1>3, <1>4

\* The messages of a tool call.
IsTurn(r, new) ==
    /\ new \in Seq(Message) /\ Whole(new)
    /\ \A i \in DOMAIN new : new[i].run = r /\ new[i].kind # "answer"
    /\ IF steering = <<>> THEN \A i \in DOMAIN new : new[i].chunks = <<>>
       ELSE \E j \in DOMAIN new : /\ new[j].chunks = steering
                                  /\ \A i \in DOMAIN new : i # j => new[i].chunks = <<>>

LEMMA ToolTurn ==
    ASSUME TypeOK, NEW r \in Runs
    PROVE  \A new : new = ToolMessages(r) => IsTurn(r, new)
<1>1. PICK u : u = Msg("tool_use", r, <<>>)
  OBVIOUS
<1>2. PICK t : t = Msg("tool_result", r, <<>>)
  OBVIOUS
<1>3. PICK s : s = Msg("steering", r, steering)
  OBVIOUS
<1>4. <<>> \in Seq(Nat) /\ steering \in Seq(Nat)
  <2>1. PICK D : D = 1..injected
    OBVIOUS
  <2>s. steering \in Seq(D) /\ D \subseteq Nat
    BY <2>1, RuntimeAssumption DEF TypeOK
  <2>2. ASSUME NEW i \in 1..Len(steering)
        PROVE  steering[i] \in Nat
    <3>1. steering[i] \in D
      BY <2>s
    <3> QED BY <2>s, <3>1
  <2>3. steering \in Seq(Nat)
    BY <2>s, <2>2
  <2> QED BY <2>3
<1>5. /\ u \in Message /\ u.kind = "tool_use" /\ u.run = r /\ u.chunks = <<>>
      /\ t \in Message /\ t.kind = "tool_result" /\ t.run = r /\ t.chunks = <<>>
      /\ s \in Message /\ s.kind = "steering" /\ s.run = r /\ s.chunks = steering
  BY <1>1, <1>2, <1>3, <1>4 DEF Msg, Message, Kind
<1>6. CASE steering = <<>>
  <2>1. PICK new : new = <<u, t>>
    OBVIOUS
  <2>2. ToolMessages(r) = new
    BY <1>1, <1>2, <1>6, <2>1 DEF ToolMessages
  <2>3. new \in Seq(Message) /\ DOMAIN new = {1, 2} /\ new[1] = u /\ new[2] = t
    BY <1>5, <2>1
  <2>4. Whole(new)
    BY <1>5, <2>3 DEF Whole
  <2> QED BY <1>5, <1>6, <2>2, <2>3, <2>4 DEF IsTurn
<1>7. CASE steering # <<>>
  <2>1. PICK front : front = <<u, t>>
    OBVIOUS
  <2>2. PICK back : back = <<s>>
    OBVIOUS
  <2>3. PICK new : new = front \o back
    OBVIOUS
  <2>f. front \in Seq(Message) /\ Len(front) = 2 /\ front[1] = u /\ front[2] = t
    BY <1>5, <2>1
  <2>b. back \in Seq(Message) /\ Len(back) = 1 /\ back[1] = s
    BY <1>5, <2>2
  <2>n. ToolMessages(r) = new
    BY <1>1, <1>2, <1>3, <1>7, <2>1, <2>2, <2>3 DEF ToolMessages
  <2>d. /\ new \in Seq(Message) /\ DOMAIN new = {1, 2, 3}
        /\ new[1] = u /\ new[2] = t /\ new[3] = s
    <3>1. /\ new \in Seq(Message) /\ Len(new) = Len(front) + Len(back)
          /\ \A i \in 1..Len(front) : new[i] = front[i]
          /\ \A i \in 1..Len(back) : new[Len(front) + i] = back[i]
      <4>1. front \in Seq(Message) /\ back \in Seq(Message)
        BY <2>f, <2>b
      <4> QED BY <2>3, <4>1, Joined
    <3>2. Len(new) = 3 /\ 1 \in 1..2 /\ 2 \in 1..2 /\ 1 \in 1..1 /\ 2 + 1 = 3
      <4>1. Len(new) = 2 + 1
        BY <2>f, <2>b, <3>1
      <4> QED BY <4>1
    <3>3. DOMAIN new = 1..3
      <4>1. new \in Seq(Message) /\ Len(new) = 3
        BY <3>1, <3>2
      <4> QED BY <4>1
    <3>4. new[1] = u /\ new[2] = t
      <4>1. \A i \in 1..2 : new[i] = front[i]
        BY <2>f, <3>1
      <4> QED BY <2>f, <3>2, <4>1
    <3>5. new[2 + 1] = s
      <4>1. \A i \in 1..1 : new[2 + i] = back[i]
        BY <2>f, <2>b, <3>1
      <4> QED BY <2>b, <3>2, <4>1
    <3> QED BY <3>1, <3>2, <3>3, <3>4, <3>5
  <2>4. Whole(new)
    BY <1>5, <2>d DEF Whole
  <2>5. \E j \in DOMAIN new : /\ new[j].chunks = steering
                              /\ \A i \in DOMAIN new : i # j => new[i].chunks = <<>>
    BY <1>5, <2>d
  <2>6. \A i \in DOMAIN new : new[i].run = r /\ new[i].kind # "answer"
    BY <1>5, <2>d
  <2> QED BY <1>7, <2>n, <2>d, <2>4, <2>5, <2>6 DEF IsTurn
<1> QED BY <1>6, <1>7

\* Every step is one of these.
LEMMA StepEffects ==
    ASSUME TypeOK, Next
    PROVE  \/ \E r \in Runs, new \in Seq(Message) : (Begin(r) \/ ToolReturns(r)) /\ GoesOn(r, new)
           \/ \E r \in Runs, new \in Seq(Message), text \in BOOLEAN :
                 Answer(r, text) /\ Completes(r, new)
           \/ \E r \in Runs, text \in BOOLEAN : CallTool(r, text) /\ Leaves(r, "tool")
           \/ \E r \in Runs : CompactionReturns(r) /\ Compacts(r)
           \/ \E r \in Runs : Close(r) /\ Leaves(r, "end")
           \/ \E r \in Runs : StreamFails(r) /\ Leaves(r, "error")
           \/ Inject
           \/ UNCHANGED vars
<1>0. log \in Seq(Message) /\ <<>> \in Seq(Nat)
  BY DEF TypeOK
<1>1. ASSUME NEW r \in Runs, Begin(r)
      PROVE  \E new \in Seq(Message) : GoesOn(r, new)
  <2>1. PICK m : m = Msg("input", r, <<>>)
    OBVIOUS
  <2>2. m \in Message /\ m.kind # "tool_result"
    BY <1>0, <2>1 DEF Msg, Message, Kind
  <2>3. PICK new : new = <<m>>
    OBVIOUS
  <2>4. new \in Seq(Message) /\ Whole(new) /\ Len(new) = 1 /\ Append(log, m) = log \o new
    BY <1>0, <2>2, <2>3, OneMessage
  <2>5. log' = log \o new
    BY <1>1, <2>1, <2>4 DEF Begin, Open
  <2>6. messages' = messages \o Fresh(Len(log), 1)
    BY <1>1 DEF Begin, Open, ManageContext, Newest, Fresh
  <2>7. Grows(new)
    BY <2>4, <2>5, <2>6 DEF Grows
  <2>8. \/ Moves(r, "calling") /\ UNCHANGED snapshot
        \/ /\ Long(messages') /\ Moves(r, "compacting")
           /\ snapshot' = [snapshot EXCEPT ![r] = messages']
    BY <1>1 DEF Begin, Open, ManageContext, Moves, Long
  <2> QED BY <2>4, <2>7, <2>8 DEF GoesOn
<1>2. ASSUME NEW r \in Runs, ToolReturns(r)
      PROVE  \E new \in Seq(Message) : GoesOn(r, new)
  <2>1. PICK new : new = ToolMessages(r)
    OBVIOUS
  <2>2. new \in Seq(Message) /\ Whole(new)
    BY <2>1, ToolTurn DEF IsTurn
  <2>3. log' = log \o new /\ messages' = messages \o Fresh(Len(log), Len(new))
    BY <1>2, <2>1 DEF ToolReturns, ManageContext, Newest, Fresh
  <2>4. Grows(new)
    BY <2>2, <2>3 DEF Grows
  <2>5. \/ Moves(r, "calling") /\ UNCHANGED snapshot
        \/ /\ Long(messages') /\ Moves(r, "compacting")
           /\ snapshot' = [snapshot EXCEPT ![r] = messages']
    BY <1>2 DEF ToolReturns, ManageContext, Moves, Long
  <2> QED BY <2>2, <2>4, <2>5 DEF GoesOn
<1>3. ASSUME NEW r \in Runs, NEW text \in BOOLEAN, Answer(r, text)
      PROVE  \E new \in Seq(Message) : Completes(r, new)
  <2>1. PICK m : m = Msg("answer", r, <<>>)
    OBVIOUS
  <2>2. m \in Message /\ m.kind # "tool_result"
    BY <1>0, <2>1 DEF Msg, Message, Kind
  <2>3. PICK new : new = IF spoke[r] \/ text THEN <<m>> ELSE <<>>
    OBVIOUS
  <2>4. new \in Seq(Message) /\ Whole(new)
    <3>1. <<m>> \in Seq(Message) /\ Whole(<<m>>)
      BY <2>2, OneMessage
    <3>2. <<>> \in Seq(Message) /\ Whole(<<>>)
      BY DEF Whole
    <3> QED BY <2>3, <3>1, <3>2
  <2>5. log' = log \o new /\ messages' = messages \o Fresh(Len(log), Len(new))
    BY <1>3, <2>1, <2>3 DEF Answer, Newest, Fresh
  <2> QED BY <1>3, <2>4, <2>5 DEF Completes, Grows, Answer, Moves
<1>4. ASSUME NEW r \in Runs, NEW text \in BOOLEAN, CallTool(r, text)
      PROVE  Leaves(r, "tool")
  BY <1>4 DEF CallTool, Leaves, Moves
<1>5. ASSUME NEW r \in Runs, CompactionReturns(r)
      PROVE  Compacts(r)
  BY <1>5 DEF CompactionReturns, Compacts, Moves
<1>6. ASSUME NEW r \in Runs, Close(r)
      PROVE  Leaves(r, "end")
  BY <1>6 DEF Close, Leaves, Moves
<1>7. ASSUME NEW r \in Runs, StreamFails(r)
      PROVE  Leaves(r, "error")
  BY <1>7 DEF StreamFails, Leaves, Moves
<1>8. Finished => UNCHANGED vars
  BY DEF Finished
<1> QED BY <1>1, <1>2, <1>3, <1>4, <1>5, <1>6, <1>7, <1>8 DEF Next

-----------------------------------------------------------------------------
(* Types and conversations.                                                *)

\* Growth, seen by all conversations.
LEMMA AllLonger ==
    ASSUME log \in Seq(Message), Conversation(messages, log), NEW new, Grows(new)
    PROVE  /\ IsLonger(log, new, messages, log', messages')
           /\ Conversation(messages', log')
           /\ \A ms : Conversation(ms, log) => Conversation(ms, log')
<1>1. new \in Seq(Message) /\ Whole(new) /\ messages \in Seq(SUBSET (1..Len(log)))
  BY DEF Grows, Conversation
<1>2. log' = log \o new /\ messages' = messages \o Fresh(Len(log), Len(new))
  BY DEF Grows
<1>3. IsLonger(log, new, messages, log', messages')
  BY <1>1, <1>2, Longer
<1>4. Conversation(messages', log')
  BY <1>1, <1>2, Lengthened
<1>5. /\ log' \in Seq(Message) /\ Len(log) <= Len(log')
      /\ \A i \in 1..Len(log) : log'[i] = log[i]
  <2>1. log' \in Seq(Message) /\ Len(log') = Len(log) + Len(new) /\ Len(new) \in Nat /\ Len(log) \in Nat
    BY <1>1, <1>3 DEF IsLonger
  <2> QED BY <1>3, <2>1 DEF IsLonger
<1>6. \A ms : Conversation(ms, log) => Conversation(ms, log')
  BY <1>5, LogGrows
<1> QED BY <1>3, <1>4, <1>6

LEMMA EmptyConversation ==
    ASSUME NEW lg
    PROVE  Conversation(<<>>, lg)
<1>1. <<>> \in Seq(SUBSET (1..Len(lg))) /\ DOMAIN <<>> = {}
  OBVIOUS
<1> QED BY <1>1 DEF Conversation, Filled, Sorted, Paired

LEMMA ConversationsStep ==
    ASSUME TypeOK, Conversations, [Next]_vars
    PROVE  Conversations' /\ log' \in Seq(Message) /\ phase' \in [Runs -> Phase]
<1>0. /\ log \in Seq(Message) /\ phase \in [Runs -> Phase] /\ DOMAIN snapshot = Runs
      /\ Conversation(messages, log)
      /\ \A r \in Runs : /\ Conversation(snapshot[r], log)
                         /\ phase[r] = "compacting" => Long(snapshot[r])
  BY DEF TypeOK, Conversations
<1>p. {"calling", "compacting", "closing", "tool", "end", "error"} \subseteq Phase
  BY DEF Phase
<1>1. ASSUME NEW r \in Runs, NEW new, GoesOn(r, new)
      PROVE  Conversations' /\ log' \in Seq(Message) /\ phase' \in [Runs -> Phase]
  <2>1. /\ Conversation(messages', log') /\ log' \in Seq(Message)
        /\ \A ms : Conversation(ms, log) => Conversation(ms, log')
    BY <1>0, <1>1, AllLonger DEF GoesOn, IsLonger
  <2>2. CASE Moves(r, "calling") /\ UNCHANGED snapshot
    BY <1>0, <1>p, <2>1, <2>2 DEF Moves, Conversations
  <2>3. CASE /\ Long(messages') /\ Moves(r, "compacting")
             /\ snapshot' = [snapshot EXCEPT ![r] = messages']
    BY <1>0, <1>p, <2>1, <2>3 DEF Moves, Conversations, Long
  <2> QED BY <1>1, <2>2, <2>3 DEF GoesOn
<1>2. ASSUME NEW r \in Runs, NEW new, Completes(r, new)
      PROVE  Conversations' /\ log' \in Seq(Message) /\ phase' \in [Runs -> Phase]
  <2>1. /\ Conversation(messages', log') /\ log' \in Seq(Message)
        /\ \A ms : Conversation(ms, log) => Conversation(ms, log')
    BY <1>0, <1>2, AllLonger DEF Completes, IsLonger
  <2> QED BY <1>0, <1>2, <1>p, <2>1 DEF Completes, Moves, Conversations
<1>3. ASSUME NEW r \in Runs, NEW p \in {"tool", "end", "error"}, Leaves(r, p)
      PROVE  Conversations' /\ log' \in Seq(Message) /\ phase' \in [Runs -> Phase]
  BY <1>0, <1>3, <1>p DEF Leaves, Moves, Conversations
<1>4. ASSUME NEW r \in Runs, Compacts(r)
      PROVE  Conversations' /\ log' \in Seq(Message) /\ phase' \in [Runs -> Phase]
  <2>1. Conversation(messages', log)
    BY <1>0, <1>4, Digested DEF Compacts
  <2>2. Conversation(<<>>, log)
    BY EmptyConversation
  <2> QED BY <1>0, <1>4, <1>p, <2>1, <2>2 DEF Compacts, Moves, Conversations
<1>5. CASE Inject \/ UNCHANGED vars
  <2>1. UNCHANGED <<log, messages, phase, snapshot>>
    BY <1>5 DEF Inject, vars
  <2> QED BY <1>0, <2>1 DEF Conversations
<1> QED BY <1>1, <1>2, <1>3, <1>4, <1>5, StepEffects

LEMMA TypesStep ==
    ASSUME TypeOK, Conversations, [Next]_vars
    PROVE  TypeOK'
<1>1. Conversations' /\ log' \in Seq(Message) /\ phase' \in [Runs -> Phase]
  BY ConversationsStep
<1>2. messages' \in Seq(SUBSET (1..Len(log')))
  BY <1>1 DEF Conversations, Conversation
<1>3. \A r \in Runs : snapshot'[r] \in Seq(SUBSET (1..Len(log')))
  BY <1>1 DEF Conversations, Conversation
<1>4. /\ snapshot \in [Runs -> Seq(SUBSET (1..Len(log)))] /\ worked \in [Runs -> BOOLEAN]
      /\ spoke \in [Runs -> BOOLEAN] /\ transcript \in Seq(Runs)
      /\ steering \in Seq(1..injected) /\ injected \in 0..MaxChunks
      /\ steerable \in BOOLEAN /\ overlapped \in BOOLEAN
  BY DEF TypeOK
<1>5. snapshot' = [r \in Runs |-> snapshot'[r]]
  BY <1>4 DEF Next, Begin, Open, ToolReturns, CompactionReturns, Close, StreamFails, CallTool,
              Answer, Inject, Finished, ManageContext, vars
<1>6. snapshot' \in [Runs -> Seq(SUBSET (1..Len(log')))]
  BY <1>3, <1>5
<1>7. worked' \in [Runs -> BOOLEAN] /\ spoke' \in [Runs -> BOOLEAN]
  BY <1>4 DEF Next, Begin, Open, ToolReturns, CompactionReturns, Close, StreamFails, CallTool,
              Answer, Inject, Finished, ManageContext, vars
<1>8. transcript' \in Seq(Runs)
  <2>1. transcript' = transcript \/ \E r \in Runs : transcript' = Append(transcript, r)
    BY DEF Next, Begin, Open, ToolReturns, CompactionReturns, Close, StreamFails, CallTool,
           Answer, Inject, Finished, ManageContext, vars
  <2>2. transcript \in Seq(Runs)
    BY <1>4
  <2> QED BY <2>1, <2>2
<1>9. steerable' \in BOOLEAN /\ overlapped' \in BOOLEAN
  BY <1>4 DEF Next, Begin, Open, ToolReturns, CompactionReturns, Close, StreamFails, CallTool,
              Answer, Inject, Finished, ManageContext, vars
<1>10. CASE Inject
  <2>1. injected + 1 \in 1..(injected + 1) /\ injected + 1 \in 0..MaxChunks
    BY <1>4, <1>10, RuntimeAssumption DEF Inject
  <2>2. PICK D, E : D = 1..injected /\ E = 1..(injected + 1)
    OBVIOUS
  <2>3. D \subseteq E
    BY <1>4, <2>2
  <2>4. steering \in Seq(E)
    <3>1. \A i \in 1..Len(steering) : steering[i] \in D
      BY <1>4, <2>2
    <3>2. \A i \in 1..Len(steering) : steering[i] \in E
      BY <2>3, <3>1
    <3>3. steering \in Seq(D)
      BY <1>4, <2>2
    <3> QED BY <3>2, <3>3
  <2>5. steering' \in Seq(E)
    BY <1>10, <2>1, <2>2, <2>4 DEF Inject
  <2>6. steering' \in Seq(1..injected') /\ injected' \in 0..MaxChunks
    BY <1>10, <2>1, <2>2, <2>5 DEF Inject
  <2> QED BY <1>1, <1>2, <1>6, <1>7, <1>8, <1>9, <2>6 DEF TypeOK
<1>11. CASE ~Inject
  <2>1. steering' \in {steering, <<>>} /\ UNCHANGED injected
    BY <1>11 DEF Next, Begin, Open, ToolReturns, CompactionReturns, Close, StreamFails, CallTool,
                 Answer, Finished, ManageContext, Drained, vars
  <2>2. steering' \in Seq(1..injected') /\ injected' \in 0..MaxChunks
    <3>1. \A S : <<>> \in Seq(S)
      OBVIOUS
    <3> QED BY <1>4, <2>1, <3>1
  <2> QED BY <1>1, <1>2, <1>6, <1>7, <1>8, <1>9, <2>2 DEF TypeOK
<1> QED BY <1>10, <1>11

-----------------------------------------------------------------------------
(* Nothing is forgotten.                                                   *)

Running == {"calling", "tool", "compacting", "closing"}

\* Whoever moves was executing, or begins.
LEMMA WhoMoves ==
    ASSUME TypeOK, NEW r \in Runs, NEW p \in Phase, Moves(r, p), phase[r] \in Running
    PROVE  Executing' \subseteq Executing
BY DEF TypeOK, Moves, Executing, Running

LEMMA AloneStep ==
    ASSUME TypeOK, Conversations, Alone, [Next]_vars
    PROVE  Alone'
<1>0. /\ log \in Seq(Message) /\ phase \in [Runs -> Phase] /\ DOMAIN snapshot = Runs
      /\ Conversation(messages, log) /\ messages \in Seq(SUBSET (1..Len(log)))
  BY DEF TypeOK, Conversations
<1>p. {"calling", "compacting", "closing", "tool", "end", "error"} \subseteq Phase
  BY DEF Phase
<1>g. ASSUME NEW new, Grows(new), ~overlapped
      PROVE  Stands(messages') = 1..Len(log') /\ Aligned(messages', log')
  <2>1. new \in Seq(Message) /\ IsLonger(log, new, messages, log', messages')
    BY <1>0, <1>g, AllLonger DEF Grows
  <2>2. Stands(messages) = 1..Len(log) /\ Aligned(messages, log)
    BY <1>g DEF Alone
  <2> QED BY <1>0, <2>1, <2>2, LengthenedKeeps
<1>1. ASSUME NEW r \in Runs, NEW new \in Seq(Message), GoesOn(r, new), Begin(r) \/ ToolReturns(r)
      PROVE  Alone'
  <2> SUFFICES ASSUME ~overlapped'
               PROVE  /\ \A q, s \in Executing' : q = s
                      /\ \A q \in Runs : phase'[q] = "compacting" => snapshot'[q] = messages'
                      /\ Stands(messages') = 1..Len(log')
                      /\ Aligned(messages', log')
    BY DEF Alone
  <2>1. ~overlapped
    BY <1>1 DEF Begin, ToolReturns
  <2>2. \A q \in Executing : q = r
    <3>1. CASE Begin(r)
      BY <3>1 DEF Begin
    <3>2. CASE ToolReturns(r)
      BY <2>1, <3>2 DEF ToolReturns, Alone, Executing
    <3> QED BY <1>1, <3>1, <3>2
  <2>3. PICK p \in {"calling", "compacting"} : Moves(r, p)
    BY <1>1 DEF GoesOn
  <2>4. \A q \in Runs : q # r => phase'[q] = phase[q]
    BY <1>0, <2>3 DEF Moves
  <2>5. \A q \in Executing' : q = r
    BY <2>2, <2>4 DEF Executing
  <2>6. \A q \in Runs : phase'[q] = "compacting" => snapshot'[q] = messages'
    <3> SUFFICES ASSUME NEW q \in Runs, phase'[q] = "compacting"
                 PROVE  snapshot'[q] = messages'
      OBVIOUS
    <3>1. q = r
      BY <2>5 DEF Executing
    <3> QED BY <1>0, <1>1, <3>1 DEF GoesOn, Moves
  <2>7. Stands(messages') = 1..Len(log') /\ Aligned(messages', log')
    BY <1>1, <1>g, <2>1 DEF GoesOn
  <2> QED BY <2>5, <2>6, <2>7
<1>2. ASSUME NEW r \in Runs, NEW new \in Seq(Message), NEW text \in BOOLEAN,
             Answer(r, text), Completes(r, new)
      PROVE  Alone'
  <2> SUFFICES ASSUME ~overlapped
               PROVE  /\ \A q, s \in Executing' : q = s
                      /\ \A q \in Runs : phase'[q] = "compacting" => snapshot'[q] = messages'
                      /\ Stands(messages') = 1..Len(log')
                      /\ Aligned(messages', log')
    BY <1>2 DEF Alone, Answer
  <2>1. Executing' \subseteq Executing
    BY <1>2, <1>p, WhoMoves DEF Completes, Answer, Running
  <2>2. r \in Executing /\ phase'[r] = "closing" /\ \A q \in Runs : q # r => phase'[q] = phase[q]
    BY <1>0, <1>2 DEF Completes, Moves, Answer, Executing
  <2>3. \A q \in Runs : phase'[q] = "compacting" => FALSE
    <3> SUFFICES ASSUME NEW q \in Runs, phase'[q] = "compacting"
                 PROVE  FALSE
      OBVIOUS
    <3>1. q \in Executing
      BY <2>1 DEF Executing
    <3>2. q = r
      BY <2>2, <3>1 DEF Alone
    <3> QED BY <2>2, <3>2
  <2>4. Stands(messages') = 1..Len(log') /\ Aligned(messages', log')
    BY <1>2, <1>g DEF Completes
  <2>5. \A q, s \in Executing' : q = s
    BY <2>1 DEF Alone
  <2> QED BY <2>3, <2>4, <2>5
<1>3. ASSUME NEW r \in Runs, NEW p \in {"tool", "end", "error"}, Leaves(r, p),
             phase[r] \in Running, UNCHANGED overlapped
      PROVE  Alone'
  <2>1. Executing' \subseteq Executing
    BY <1>3, <1>p, WhoMoves DEF Leaves
  <2>2. \A q \in Runs : phase'[q] = "compacting" => phase[q] = "compacting"
    BY <1>0, <1>3 DEF Leaves, Moves
  <2> QED BY <1>3, <2>1, <2>2 DEF Alone, Leaves
<1>4. ASSUME NEW r \in Runs, CompactionReturns(r), Compacts(r)
      PROVE  Alone'
  <2> SUFFICES ASSUME ~overlapped
               PROVE  /\ \A q, s \in Executing' : q = s
                      /\ \A q \in Runs : phase'[q] = "compacting" => snapshot'[q] = messages'
                      /\ Stands(messages') = 1..Len(log')
                      /\ Aligned(messages', log')
    BY <1>4 DEF Alone, CompactionReturns
  <2>1. Executing' \subseteq Executing
    BY <1>4, <1>p, WhoMoves DEF Compacts, Running
  <2>2. r \in Executing /\ phase'[r] = "calling" /\ \A q \in Runs : q # r => phase'[q] = phase[q]
    BY <1>0, <1>4 DEF Compacts, Moves, Executing
  <2>3. \A q \in Runs : phase'[q] = "compacting" => FALSE
    <3> SUFFICES ASSUME NEW q \in Runs, phase'[q] = "compacting"
                 PROVE  FALSE
      OBVIOUS
    <3>1. q \in Executing
      BY <2>1 DEF Executing
    <3>2. q = r
      BY <2>2, <3>1 DEF Alone
    <3> QED BY <2>2, <3>2
  <2>4. snapshot[r] = messages /\ Long(messages) /\ log' = log /\ messages' = Digest(messages)
    BY <1>4 DEF Alone, Conversations, Compacts
  <2>5. Stands(messages) = 1..Len(log) /\ Aligned(messages, log)
    BY DEF Alone
  <2>6. PICK N \in Nat : N = Len(log)
    BY <1>0
  <2>7. messages \in Seq(SUBSET (1..N))
    BY <1>0, <2>6
  <2>8. Stands(messages') = 1..Len(log') /\ Aligned(messages', log')
    BY <2>4, <2>5, <2>6, <2>7, DigestKeeps
  <2>9. \A q, s \in Executing' : q = s
    BY <2>1 DEF Alone
  <2> QED BY <2>3, <2>8, <2>9
<1>5. CASE Inject \/ UNCHANGED vars
  <2>1. UNCHANGED <<overlapped, log, messages, phase, snapshot>>
    BY <1>5 DEF Inject, vars
  <2> QED BY <2>1 DEF Alone, Executing
<1>6. ASSUME NEW r \in Runs, NEW text \in BOOLEAN, CallTool(r, text), Leaves(r, "tool")
      PROVE  Alone'
  BY <1>3, <1>6 DEF CallTool, Running
<1>7. ASSUME NEW r \in Runs, Close(r), Leaves(r, "end")
      PROVE  Alone'
  BY <1>3, <1>7 DEF Close, Running
<1>8. ASSUME NEW r \in Runs, StreamFails(r), Leaves(r, "error")
      PROVE  Alone'
  BY <1>3, <1>8 DEF StreamFails, Running
<1> QED BY <1>1, <1>2, <1>4, <1>5, <1>6, <1>7, <1>8, StepEffects

LEMMA AloneRemembers ==
    ASSUME TypeOK, Alone
    PROVE  NothingForgotten
<1> SUFFICES ASSUME ~overlapped
             PROVE  Stands(messages) = DOMAIN log /\ RecentKept
  BY DEF NothingForgotten
<1>1. log \in Seq(Message) /\ messages \in Seq(SUBSET (1..Len(log)))
  BY DEF TypeOK
<1>2. DOMAIN log = 1..Len(log) /\ Len(log) \in Nat
  BY <1>1
<1>3. DOMAIN messages = 1..Len(messages) /\ Len(messages) \in Nat
  BY <1>1
<1>4. RecentKept
  <2> SUFFICES ASSUME NEW n \in 1..Len(log), n > Len(log) - ProtectedTail
               PROVE  \E i \in DOMAIN messages : messages[i] = {n}
    BY <1>2 DEF RecentKept
  <2>1. ProtectedTail \in Nat
    BY RuntimeAssumption
  <2>2. PICK k \in 0..(ProtectedTail - 1) : k = Len(log) - n /\ k < Len(log) /\ Len(log) - k = n
    <3>1. /\ Len(log) - n \in 0..(ProtectedTail - 1) /\ Len(log) - n < Len(log)
          /\ Len(log) - (Len(log) - n) = n
      BY <1>2, <2>1
    <3> QED BY <3>1
  <2>3. k < Len(messages) /\ messages[Len(messages) - k] = {n}
    BY <2>2 DEF Alone, Aligned
  <2>4. Len(messages) - k \in DOMAIN messages
    BY <1>3, <2>1, <2>3
  <2> QED BY <2>3, <2>4
<1> QED BY <1>2, <1>4 DEF Alone

-----------------------------------------------------------------------------
(* Steered chunks.                                                         *)

LEMMA NoChunks ==
    /\ Range(<<>>) = {} /\ Rising(<<>>)
    /\ \A q \in Seq(Nat) : \A i \in DOMAIN q : q[i] \in Range(q)
<1>1. DOMAIN <<>> = {}
  OBVIOUS
<1> QED BY <1>1 DEF Range, Rising

\* Where the messages of a longer log come from.
Extends(lg, new, l) ==
    /\ \A n \in DOMAIN lg : n \in DOMAIN l /\ l[n] = lg[n]
    /\ \A i \in DOMAIN new : Len(lg) + i \in DOMAIN l /\ l[Len(lg) + i] = new[i]
    /\ \A n \in DOMAIN l : n \in DOMAIN lg \/ \E i \in DOMAIN new : n = Len(lg) + i

LEMMA LogParts ==
    ASSUME NEW lg \in Seq(Message), NEW new \in Seq(Message), NEW ms, NEW l, NEW c,
           IsLonger(lg, new, ms, l, c)
    PROVE  Extends(lg, new, l)
<1> USE DEF Extends
<1>1. PICK b \in Nat, k \in Nat : b = Len(lg) /\ k = Len(new)
  OBVIOUS
<1>2. l \in Seq(Message) /\ Len(l) = b + k
  BY <1>1 DEF IsLonger
<1>3. DOMAIN l = 1..(b + k) /\ DOMAIN lg = 1..b /\ DOMAIN new = 1..k
  BY <1>1, <1>2
<1>4. /\ \A n \in 1..b : l[n] = lg[n]
      /\ \A i \in 1..k : l[b + i] = new[i]
  BY <1>1 DEF IsLonger
<1>5. \A n \in 1..b : n \in 1..(b + k)
  OBVIOUS
<1>6. \A i \in 1..k : b + i \in 1..(b + k)
  OBVIOUS
<1>7. ASSUME NEW n \in 1..(b + k), n \notin 1..b
      PROVE  \E i \in 1..k : n = b + i
  <2>1. n - b \in 1..k /\ n = b + (n - b)
    BY <1>7
  <2> QED BY <2>1
<1> QED BY <1>1, <1>3, <1>4, <1>5, <1>6, <1>7

\* The log grows by messages without chunks, but for one, j, if any, that takes
\* all that wait.
Merges(l, j) ==
    /\ j \notin DOMAIN log
    /\ \A n \in DOMAIN log : n \in DOMAIN l /\ l[n] = log[n]
    /\ \A n \in DOMAIN l : \/ n \in DOMAIN log
                           \/ l[n].chunks = <<>>
                           \/ n = j /\ l[n].chunks = steering
    /\ \A n \in DOMAIN log : n < j

LEMMA QuietGrowth ==
    ASSUME SteeringComplete, NEW j, Merges(log', j), UNCHANGED <<steering, injected>>,
           \A n \in DOMAIN log' : n \notin DOMAIN log => log'[n].chunks = <<>>
    PROVE  SteeringComplete'
<1>1. /\ \A n \in DOMAIN log : n \in DOMAIN log' /\ log'[n] = log[n]
      /\ \A n \in DOMAIN log' : n \in DOMAIN log \/ log'[n].chunks = <<>>
  BY DEF Merges
<1> QED BY <1>1, NoChunks DEF SteeringComplete

LEMMA MergingGrowth ==
    ASSUME TypeOK, SteeringComplete, log' \in Seq(Message),
           NEW j \in DOMAIN log', Merges(log', j), log'[j].chunks = steering,
           steering' = <<>>, UNCHANGED injected
    PROVE  SteeringComplete'
<1>a. DOMAIN log' \subseteq Nat
  OBVIOUS
<1>0. /\ \A n \in DOMAIN log : n \in DOMAIN log' /\ log'[n] = log[n] /\ n < j
      /\ \A n \in DOMAIN log' : n \in DOMAIN log \/ log'[n].chunks = <<>> \/ n = j
      /\ j \notin DOMAIN log
  BY DEF Merges
<1>1. \A c \in Range(steering) : c \in 1..injected
  BY DEF TypeOK, Range
<1>2. \A c \in 1..injected : \E n \in DOMAIN log' : c \in Range(log'[n].chunks)
  BY <1>0 DEF SteeringComplete
<1>3. Rising(steering') /\ \A n \in DOMAIN log' : Rising(log'[n].chunks)
  BY <1>0, NoChunks DEF SteeringComplete
<1>4. ASSUME NEW n \in DOMAIN log', NEW c \in Range(log'[n].chunks)
      PROVE  /\ c \in 1..injected
             /\ \A m \in DOMAIN log' : n < m => \A d \in Range(log'[m].chunks) : c < d
  <2>1. n \in DOMAIN log \/ n = j
    BY <1>0, <1>4, NoChunks
  <2>2. c \in 1..injected
    BY <1>0, <1>1, <1>4, <2>1 DEF SteeringComplete
  <2>3. ASSUME NEW m \in DOMAIN log', n < m, NEW d \in Range(log'[m].chunks)
        PROVE  c < d
    <3>1. m \in DOMAIN log \/ m = j
      BY <1>0, <2>3, NoChunks
    <3>2. CASE m \in DOMAIN log
      <4>1. n \in DOMAIN log
        <5>1. n # j
          <6>1. n \in Nat /\ m \in Nat /\ j \in Nat
            BY <1>a, <1>4, <2>3
          <6> QED BY <1>0, <2>3, <3>2, <6>1
        <5> QED BY <2>1, <5>1
      <4> QED BY <1>0, <1>4, <2>3, <3>2, <4>1 DEF SteeringComplete
    <3>3. CASE m = j
      <4>1. n # j
        <5>1. n = j => FALSE
          BY <2>3, <3>3
        <5> QED BY <5>1
      <4>2. n \in DOMAIN log /\ d \in Range(steering)
        BY <2>1, <2>3, <3>3, <4>1
      <4> QED BY <1>0, <1>4, <4>2 DEF SteeringComplete
    <3> QED BY <3>1, <3>2, <3>3
  <2> QED BY <2>2, <2>3
<1> QED BY <1>2, <1>3, <1>4, NoChunks DEF SteeringComplete
\* The log grows by the messages new.
Adds(new) == Extends(log, new, log')

LEMMA Added ==
    ASSUME TypeOK, NEW new \in Seq(Message), log' = log \o new
    PROVE  Adds(new) /\ log' \in Seq(Message)
<1>1. log \in Seq(Message) /\ messages \in Seq(SUBSET (1..Len(log)))
  BY DEF TypeOK
<1>2. PICK c : c = messages \o Fresh(Len(log), Len(new))
  OBVIOUS
<1>3. IsLonger(log, new, messages, log', c)
  BY <1>1, <1>2, Longer
<1>4. Extends(log, new, log')
  BY <1>1, <1>3, LogParts
<1>5. Adds(new)
  BY <1>4 DEF Adds
<1> QED BY <1>3, <1>5 DEF IsLonger

\* What a run appends when it begins, when a tool returns and when it answers.
LEMMA BeginAdds ==
    ASSUME TypeOK, NEW r \in Runs, Begin(r)
    PROVE  \E new \in Seq(Message) :
             Adds(new) /\ \A i \in DOMAIN new : new[i].kind = "input" /\ new[i].chunks = <<>>
<1>0. log \in Seq(Message) /\ <<>> \in Seq(Nat)
  BY DEF TypeOK
<1>1. PICK m : m = Msg("input", r, <<>>)
  OBVIOUS
<1>2. m \in Message /\ m.kind = "input" /\ m.chunks = <<>> /\ m.kind # "tool_result"
  BY <1>0, <1>1 DEF Msg, Message, Kind
<1>3. PICK new : new = <<m>>
  OBVIOUS
<1>4. /\ new \in Seq(Message) /\ DOMAIN new = 1..1 /\ new[1] = m /\ Append(log, m) = log \o new
  BY <1>0, <1>2, <1>3, OneMessage
<1>5. log' = log \o new
  BY <1>1, <1>4 DEF Begin, Open
<1>6. \A i \in DOMAIN new : new[i].kind = "input" /\ new[i].chunks = <<>>
  BY <1>2, <1>4
<1> QED BY <1>4, <1>5, <1>6, Added

LEMMA ToolAdds ==
    ASSUME TypeOK, NEW r \in Runs, ToolReturns(r)
    PROVE  \E new \in Seq(Message) : Adds(new) /\ IsTurn(r, new) /\ log' \in Seq(Message)
<1>1. PICK new : new = ToolMessages(r)
  OBVIOUS
<1>2. IsTurn(r, new)
  BY <1>1, ToolTurn
<1>3. new \in Seq(Message) /\ log' = log \o new
  BY <1>1, <1>2 DEF IsTurn, ToolReturns
<1> QED BY <1>2, <1>3, Added

LEMMA AnswerAdds ==
    ASSUME TypeOK, NEW r \in Runs, NEW text \in BOOLEAN, Answer(r, text)
    PROVE  \E new \in Seq(Message) :
             /\ Adds(new)
             /\ \A i \in DOMAIN new : /\ new[i].kind = "answer" /\ new[i].run = r
                                      /\ new[i].chunks = <<>> /\ (spoke[r] \/ text)
<1>0. log \in Seq(Message) /\ <<>> \in Seq(Nat)
  BY DEF TypeOK
<1>1. PICK m : m = Msg("answer", r, <<>>)
  OBVIOUS
<1>2. m \in Message /\ m.kind = "answer" /\ m.run = r /\ m.chunks = <<>> /\ m.kind # "tool_result"
  BY <1>0, <1>1 DEF Msg, Message, Kind
<1>3. PICK new : new = IF spoke[r] \/ text THEN <<m>> ELSE <<>>
  OBVIOUS
<1>4. log' = log \o new
  BY <1>1, <1>3 DEF Answer
<1>5. CASE spoke[r] \/ text
  <2>1. new = <<m>>
    BY <1>3, <1>5
  <2>2. new \in Seq(Message) /\ DOMAIN new = 1..1 /\ new[1] = m
    BY <1>2, <2>1, OneMessage
  <2>3. \A i \in DOMAIN new : /\ new[i].kind = "answer" /\ new[i].run = r
                              /\ new[i].chunks = <<>> /\ (spoke[r] \/ text)
    BY <1>2, <1>5, <2>2
  <2> QED BY <1>4, <2>2, <2>3, Added
<1>6. CASE ~(spoke[r] \/ text)
  <2>1. new \in Seq(Message) /\ DOMAIN new = {}
    BY <1>3, <1>6
  <2> QED BY <1>4, <2>1, Added
<1> QED BY <1>5, <1>6

\* A chunk is injected: it is the latest, and waits last.
LEMMA InjectStep ==
    ASSUME TypeOK, SteeringComplete, Inject
    PROVE  SteeringComplete'
<1>1. injected \in Nat /\ injected' = injected + 1 /\ log' = log
  BY RuntimeAssumption DEF TypeOK, Inject
<1>2. PICK D : D = 1..injected
  OBVIOUS
<1>3. steering \in Seq(D) /\ \A d \in D : d \in Nat /\ d < injected + 1 /\ d \in 1..(injected + 1)
  BY <1>1, <1>2 DEF TypeOK
<1>4. PICK m \in Nat : m = Len(steering)
  BY <1>3
<1>5. PICK k \in Nat : k = injected + 1
  BY <1>1
<1>6. /\ DOMAIN steering = 1..m /\ DOMAIN steering' = 1..(m + 1)
      /\ \A i \in 1..m : steering'[i] = steering[i] /\ steering[i] \in D
      /\ steering'[m + 1] = k
  <2>1. steering' = Append(steering, k)
    BY <1>5 DEF Inject
  <2> QED BY <1>3, <1>4, <2>1
<1>7. /\ \A d \in Range(steering') : d = k \/ d \in Range(steering)
      /\ \A d \in Range(steering) : d \in Range(steering') /\ d \in D
      /\ k \in Range(steering')
  <2>1. \A i \in 1..(m + 1) : i \in 1..m \/ i = m + 1
    OBVIOUS
  <2>2. \A i \in 1..m : i \in 1..(m + 1)
    OBVIOUS
  <2>3. m + 1 \in 1..(m + 1)
    OBVIOUS
  <2> QED BY <1>6, <2>1, <2>2, <2>3 DEF Range
<1>8. \A c \in 1..injected' : c = k \/ c \in 1..injected
  BY <1>1, <1>5
<1>9. \A c \in 1..injected' : c \in Range(steering') \/ \E n \in DOMAIN log' : c \in Range(log'[n].chunks)
  BY <1>1, <1>7, <1>8 DEF SteeringComplete
<1>10. Rising(steering')
  <2> SUFFICES ASSUME NEW i \in 1..(m + 1), NEW j \in 1..(m + 1), i < j
               PROVE  steering'[i] < steering'[j]
    BY <1>6 DEF Rising
  <2>1. i \in 1..m
    OBVIOUS
  <2>2. CASE j = m + 1
    BY <1>3, <1>5, <1>6, <2>1, <2>2
  <2>3. CASE j \in 1..m
    <3>1. steering[i] < steering[j]
      BY <1>6, <2>1, <2>3 DEF SteeringComplete, Rising
    <3> QED BY <1>6, <2>1, <2>3, <3>1
  <2> QED BY <2>2, <2>3
<1>11. ASSUME NEW n \in DOMAIN log, NEW c \in Range(log[n].chunks)
       PROVE  c \in 1..injected' /\ \A d \in Range(steering') : c < d
  <2>1. c \in 1..injected /\ \A d \in Range(steering) : c < d
    BY <1>11 DEF SteeringComplete
  <2>2. c \in 1..injected' /\ c < k
    BY <1>1, <1>5, <2>1
  <2> QED BY <1>7, <2>1, <2>2
<1> QED BY <1>1, <1>9, <1>10, <1>11 DEF SteeringComplete

LEMMA SteeringStep ==
    ASSUME TypeOK, SteeringComplete, [Next]_vars
    PROVE  SteeringComplete'
<1>d. log \in Seq(Message) /\ DOMAIN log = 1..Len(log) /\ Len(log) \in Nat
  BY DEF TypeOK
<1>n. \A i \in Nat : i > 0 => /\ Len(log) + i \notin DOMAIN log
                              /\ \A n \in DOMAIN log : n < Len(log) + i
  BY <1>d
<1>q. ASSUME NEW new \in Seq(Message), Adds(new), \A i \in DOMAIN new : new[i].chunks = <<>>,
             UNCHANGED <<steering, injected>>
      PROVE  SteeringComplete'
  <2>1. PICK j : j = Len(log) + 1
    OBVIOUS
  <2>2. \A n \in DOMAIN log' : n \notin DOMAIN log => log'[n].chunks = <<>>
    BY <1>q DEF Adds, Extends
  <2>3. j \notin DOMAIN log /\ \A n \in DOMAIN log : n < j
    BY <1>n, <2>1
  <2>4. Merges(log', j)
    BY <1>q, <2>2, <2>3 DEF Merges, Adds, Extends
  <2> QED BY <1>q, <2>2, <2>4, QuietGrowth
<1>1. ASSUME NEW r \in Runs, Begin(r)
      PROVE  SteeringComplete'
  <2>1. PICK new \in Seq(Message) :
          Adds(new) /\ \A i \in DOMAIN new : new[i].kind = "input" /\ new[i].chunks = <<>>
    BY <1>1, BeginAdds
  <2> QED BY <1>q, <1>1, <2>1 DEF Begin
<1>2. ASSUME NEW r \in Runs, NEW text \in BOOLEAN, Answer(r, text)
      PROVE  SteeringComplete'
  <2>1. PICK new \in Seq(Message) :
          /\ Adds(new)
          /\ \A i \in DOMAIN new : /\ new[i].kind = "answer" /\ new[i].run = r
                                   /\ new[i].chunks = <<>> /\ (spoke[r] \/ text)
    BY <1>2, AnswerAdds
  <2>2. UNCHANGED <<steering, injected>>
    BY <1>2 DEF Answer
  <2> QED BY <1>q, <2>1, <2>2
<1>3. ASSUME NEW r \in Runs, ToolReturns(r)
      PROVE  SteeringComplete'
  <2>1. PICK new \in Seq(Message) : Adds(new) /\ IsTurn(r, new) /\ log' \in Seq(Message)
    BY <1>3, ToolAdds
  <2>2. steering' = <<>> /\ UNCHANGED injected
    BY <1>3 DEF ToolReturns, Drained
  <2>3. CASE steering = <<>>
    <3>1. \A i \in DOMAIN new : new[i].chunks = <<>>
      BY <2>1, <2>3 DEF IsTurn
    <3> QED BY <1>q, <2>1, <2>2, <2>3, <3>1
  <2>4. CASE steering # <<>>
    <3>1. PICK i \in DOMAIN new : /\ new[i].chunks = steering
                                  /\ \A k \in DOMAIN new : k # i => new[k].chunks = <<>>
      BY <2>1, <2>4 DEF IsTurn
    <3>2. PICK j : j = Len(log) + i
      OBVIOUS
    <3>3. i \in Nat /\ i > 0
      OBVIOUS
    <3>4. j \notin DOMAIN log /\ \A n \in DOMAIN log : n < j
      BY <1>n, <3>2, <3>3
    <3>5. j \in DOMAIN log' /\ log'[j].chunks = steering
      BY <2>1, <3>1, <3>2 DEF Adds, Extends
    <3>6. ASSUME NEW n \in DOMAIN log'
          PROVE  n \in DOMAIN log \/ log'[n].chunks = <<>> \/ (n = j /\ log'[n].chunks = steering)
      <4>1. CASE \E k \in DOMAIN new : n = Len(log) + k
        <5>1. PICK k \in DOMAIN new : n = Len(log) + k
          BY <4>1
        <5>2. log'[n] = new[k]
          BY <2>1, <5>1 DEF Adds, Extends
        <5> QED BY <3>1, <3>2, <5>1, <5>2
      <4> QED BY <2>1, <3>6, <4>1 DEF Adds, Extends
    <3>7. \A n \in DOMAIN log : n \in DOMAIN log' /\ log'[n] = log[n]
      BY <2>1 DEF Adds, Extends
    <3>8. Merges(log', j)
      BY <3>4, <3>6, <3>7 DEF Merges
    <3> QED BY <2>1, <2>2, <3>5, <3>8, MergingGrowth
  <2> QED BY <2>3, <2>4
<1>4. ASSUME UNCHANGED <<log, steering, injected>>
      PROVE  SteeringComplete'
  BY <1>4 DEF SteeringComplete
<1>5. ASSUME NEW r \in Runs, CompactionReturns(r) \/ Close(r) \/ StreamFails(r)
      PROVE  SteeringComplete'
  BY <1>4, <1>5 DEF CompactionReturns, Close, StreamFails
<1>6. ASSUME NEW r \in Runs, NEW text \in BOOLEAN, CallTool(r, text)
      PROVE  SteeringComplete'
  BY <1>4, <1>6 DEF CallTool
<1>7. CASE Finished \/ UNCHANGED vars
  BY <1>4, <1>7 DEF Finished, vars
<1>8. CASE Inject
  BY <1>8, InjectStep
<1> QED BY <1>1, <1>2, <1>3, <1>5, <1>6, <1>7, <1>8 DEF Next
-----------------------------------------------------------------------------
(* The transcript.                                                         *)

\* Flags are never taken back, and a run that has ended stays so.
Remembered ==
    /\ \A r \in Runs : (spoke[r] => spoke'[r]) /\ (worked[r] => worked'[r])
    /\ \A r \in Runs : phase[r] = "end" => phase'[r] = "end" /\ spoke'[r] = spoke[r]
                                                            /\ worked'[r] = worked[r]

LEMMA AccountsKept ==
    ASSUME TypeOK, Accounts, Remembered, UNCHANGED transcript,
           \A r \in Runs : phase'[r] = "end" => phase[r] = "end",
           NEW new \in Seq(Message), Adds(new),
           \A i \in DOMAIN new : /\ new[i].kind = "tool_result" => worked'[new[i].run]
                                 /\ new[i].kind = "answer" => spoke'[new[i].run]
    PROVE  Accounts'
<1>0. log \in Seq(Message)
  BY DEF TypeOK
<1>1. \A n \in DOMAIN log : log[n].run \in Runs
  <2>1. \A n \in DOMAIN log : log[n] \in Message
    BY <1>0
  <2>2. \A m \in Message : m.run \in Runs
    BY DEF Message
  <2> QED BY <2>1, <2>2
<1>2. \A i \in DOMAIN transcript : transcript[i] \in Runs
  BY DEF TypeOK
<1>3. ASSUME NEW n \in DOMAIN log'
      PROVE  /\ log'[n].kind = "tool_result" => worked'[log'[n].run]
             /\ log'[n].kind = "answer" => spoke'[log'[n].run]
  <2>1. CASE n \in DOMAIN log
    <3>1. log'[n] = log[n]
      BY <2>1 DEF Adds, Extends
    <3> QED BY <1>1, <2>1, <3>1 DEF Accounts, Remembered
  <2>2. CASE \E i \in DOMAIN new : n = Len(log) + i
    <3>1. PICK i \in DOMAIN new : log'[n] = new[i]
      BY <2>2 DEF Adds, Extends
    <3> QED BY <3>1
  <2> QED BY <2>1, <2>2 DEF Adds, Extends
<1>4. \A i \in DOMAIN transcript' : phase'[transcript'[i]] = "end"
  BY <1>2 DEF Accounts, Remembered
<1>5. ASSUME NEW r \in Runs, phase'[r] = "end", spoke'[r] \/ worked'[r]
      PROVE  \E i \in DOMAIN transcript' : transcript'[i] = r
  BY <1>5 DEF Accounts, Remembered
<1>6. \A i, j \in DOMAIN transcript' : transcript'[i] = transcript'[j] => i = j
  BY DEF Accounts
<1> QED BY <1>3, <1>4, <1>5, <1>6 DEF Accounts

LEMMA AccountsUnmoved ==
    ASSUME TypeOK, Accounts, Remembered, UNCHANGED <<log, transcript>>,
           \A r \in Runs : phase'[r] = "end" => phase[r] = "end"
    PROVE  Accounts'
<1>0. log \in Seq(Message)
  BY DEF TypeOK
<1>1. PICK new \in Seq(Message) : new = <<>> /\ DOMAIN new = {}
  <2>1. <<>> \in Seq(Message) /\ DOMAIN <<>> = {}
    OBVIOUS
  <2> QED BY <2>1
<1>2. log' = log \o new
  BY <1>0, <1>1
<1>3. Adds(new)
  BY <1>2, Added
<1> QED BY <1>1, <1>3, AccountsKept

\* A run ends: it is written to the transcript if it has done anything.
LEMMA CloseStep ==
    ASSUME TypeOK, Accounts, NEW r \in Runs, Close(r)
    PROVE  Accounts'
<1>1. /\ phase[r] = "closing" /\ phase' = [phase EXCEPT ![r] = "end"]
      /\ transcript' = (IF spoke[r] \/ worked[r] THEN Append(transcript, r) ELSE transcript)
      /\ UNCHANGED <<log, spoke, worked>>
  BY DEF Close, Persists
<1>2. phase \in [Runs -> Phase] /\ transcript \in Seq(Runs)
  BY DEF TypeOK
<1>3. phase'[r] = "end" /\ \A q \in Runs : q # r => phase'[q] = phase[q]
  BY <1>1, <1>2
<1>4. \A i \in DOMAIN transcript : transcript[i] \in Runs /\ transcript[i] # r
  BY <1>1, <1>2 DEF Accounts
<1>5. CASE ~(spoke[r] \/ worked[r])
  <2>1. transcript' = transcript
    BY <1>1, <1>5
  <2> QED BY <1>1, <1>3, <1>4, <1>5, <2>1 DEF Accounts
<1>6. CASE spoke[r] \/ worked[r]
  <2>1. PICK m \in Nat : m = Len(transcript)
    BY <1>2
  <2>2. /\ DOMAIN transcript = 1..m /\ DOMAIN transcript' = 1..(m + 1)
        /\ \A i \in 1..m : transcript'[i] = transcript[i]
        /\ transcript'[m + 1] = r
    <3>1. transcript' = Append(transcript, r)
      BY <1>1, <1>6
    <3> QED BY <1>2, <2>1, <3>1
  <2>3. /\ \A i \in 1..(m + 1) : i \in 1..m \/ i = m + 1
        /\ \A i \in 1..m : i \in 1..(m + 1)
        /\ m + 1 \in 1..(m + 1)
    OBVIOUS
  <2>4. \A i \in DOMAIN transcript' : phase'[transcript'[i]] = "end"
    BY <1>3, <1>4, <2>2, <2>3 DEF Accounts
  <2>5. \A i, j \in DOMAIN transcript' : transcript'[i] = transcript'[j] => i = j
    BY <1>4, <2>2, <2>3 DEF Accounts
  <2>6. ASSUME NEW q \in Runs, phase'[q] = "end", spoke'[q] \/ worked'[q]
        PROVE  \E i \in DOMAIN transcript' : transcript'[i] = q
    <3>1. CASE q = r
      BY <2>2, <2>3, <3>1
    <3>2. CASE q # r
      <4>1. PICK i \in DOMAIN transcript : transcript[i] = q
        BY <1>1, <1>3, <2>6, <3>2 DEF Accounts
      <4> QED BY <2>2, <2>3, <4>1
    <3> QED BY <3>1, <3>2
  <2>7. \A n \in DOMAIN log' : /\ log'[n].kind = "tool_result" => worked'[log'[n].run]
                               /\ log'[n].kind = "answer" => spoke'[log'[n].run]
    BY <1>1 DEF Accounts
  <2> QED BY <2>4, <2>5, <2>6, <2>7 DEF Accounts
<1> QED BY <1>5, <1>6

LEMMA AccountsStep ==
    ASSUME TypeOK, Accounts, [Next]_vars
    PROVE  Accounts'
<1>0. /\ phase \in [Runs -> Phase]
      /\ spoke \in [Runs -> BOOLEAN] /\ worked \in [Runs -> BOOLEAN]
  BY DEF TypeOK
<1>1. ASSUME NEW r \in Runs, Begin(r)
      PROVE  Accounts'
  <2>1. PICK new \in Seq(Message) :
          Adds(new) /\ \A i \in DOMAIN new : new[i].kind = "input" /\ new[i].chunks = <<>>
    BY <1>1, BeginAdds
  <2>2. /\ phase[r] = "none" /\ UNCHANGED <<spoke, worked, transcript>>
        /\ (Moves(r, "calling") \/ Moves(r, "compacting"))
    BY <1>1 DEF Begin, Open, ManageContext, Moves
  <2>3. Remembered /\ \A q \in Runs : phase'[q] = "end" => phase[q] = "end"
    BY <1>0, <2>2 DEF Remembered, Moves
  <2> QED BY <2>1, <2>2, <2>3, AccountsKept
<1>2. ASSUME NEW r \in Runs, NEW text \in BOOLEAN, Answer(r, text)
      PROVE  Accounts'
  <2>1. PICK new \in Seq(Message) :
          /\ Adds(new)
          /\ \A i \in DOMAIN new : /\ new[i].kind = "answer" /\ new[i].run = r
                                   /\ new[i].chunks = <<>> /\ (spoke[r] \/ text)
    BY <1>2, AnswerAdds
  <2>2. /\ phase[r] = "calling" /\ phase' = [phase EXCEPT ![r] = "closing"]
        /\ spoke' = [spoke EXCEPT ![r] = spoke[r] \/ text] /\ UNCHANGED <<worked, transcript>>
    BY <1>2 DEF Answer
  <2>3. Remembered /\ \A q \in Runs : phase'[q] = "end" => phase[q] = "end"
    BY <1>0, <2>2 DEF Remembered
  <2>4. \A i \in DOMAIN new : /\ new[i].kind = "tool_result" => worked'[new[i].run]
                              /\ new[i].kind = "answer" => spoke'[new[i].run]
    BY <1>0, <2>1, <2>2
  <2> QED BY <2>1, <2>2, <2>3, <2>4, AccountsKept
<1>3. ASSUME NEW r \in Runs, ToolReturns(r)
      PROVE  Accounts'
  <2>1. PICK new \in Seq(Message) : Adds(new) /\ IsTurn(r, new) /\ log' \in Seq(Message)
    BY <1>3, ToolAdds
  <2>2. /\ phase[r] = "tool" /\ (Moves(r, "calling") \/ Moves(r, "compacting"))
        /\ worked' = [worked EXCEPT ![r] = TRUE] /\ UNCHANGED <<spoke, transcript>>
    BY <1>3 DEF ToolReturns, ManageContext, Moves
  <2>3. Remembered /\ \A q \in Runs : phase'[q] = "end" => phase[q] = "end"
    BY <1>0, <2>2 DEF Remembered, Moves
  <2>4. \A i \in DOMAIN new : /\ new[i].kind = "tool_result" => worked'[new[i].run]
                              /\ new[i].kind = "answer" => spoke'[new[i].run]
    BY <1>0, <2>1, <2>2 DEF IsTurn
  <2> QED BY <2>1, <2>2, <2>3, <2>4, AccountsKept
<1>4. ASSUME NEW r \in Runs, CompactionReturns(r) \/ StreamFails(r)
      PROVE  Accounts'
  <2>1. /\ phase[r] # "end" /\ (Moves(r, "calling") \/ Moves(r, "error"))
        /\ UNCHANGED <<log, spoke, worked, transcript>>
    BY <1>4 DEF CompactionReturns, StreamFails, Moves
  <2>2. Remembered /\ \A q \in Runs : phase'[q] = "end" => phase[q] = "end"
    BY <1>0, <2>1 DEF Remembered, Moves
  <2> QED BY <2>1, <2>2, AccountsUnmoved
<1>5. ASSUME NEW r \in Runs, NEW text \in BOOLEAN, CallTool(r, text)
      PROVE  Accounts'
  <2>1. /\ phase[r] = "calling" /\ phase' = [phase EXCEPT ![r] = "tool"]
        /\ spoke' = [spoke EXCEPT ![r] = @ \/ text] /\ UNCHANGED <<log, worked, transcript>>
    BY <1>5 DEF CallTool
  <2>2. Remembered /\ \A q \in Runs : phase'[q] = "end" => phase[q] = "end"
    BY <1>0, <2>1 DEF Remembered
  <2> QED BY <2>1, <2>2, AccountsUnmoved
<1>6. CASE Inject \/ Finished \/ UNCHANGED vars
  BY <1>6 DEF Inject, Finished, vars, Accounts
<1> QED BY <1>1, <1>2, <1>3, <1>4, <1>5, <1>6, CloseStep DEF Next

\* Accounts say that a result or an answer of an ended run is in the transcript.
LEMMA AccountsCover ==
    ASSUME TypeOK, Accounts
    PROVE  TranscriptCovers
<1> SUFFICES ASSUME NEW n \in DOMAIN log, log[n].kind \in {"tool_result", "answer"},
                    phase[log[n].run] = "end"
             PROVE  \E i \in DOMAIN transcript : \A j \in DOMAIN transcript :
                      (transcript[j] = log[n].run) <=> (i = j)
  BY DEF TranscriptCovers
<1>0. log \in Seq(Message)
  BY DEF TypeOK
<1>1. log[n].run \in Runs
  <2>1. log[n] \in Message
    BY <1>0
  <2> QED BY <2>1 DEF Message
<1>2. PICK i \in DOMAIN transcript : transcript[i] = log[n].run
  BY <1>1 DEF Accounts
<1> QED BY <1>2 DEF Accounts

-----------------------------------------------------------------------------
(* The theorems.                                                           *)

RuntimeInv == TypeOK /\ Conversations /\ Alone /\ SteeringComplete /\ Accounts

LEMMA InitRuntime ==
    ASSUME Init
    PROVE  RuntimeInv
<1>0. MaxChunks \in Nat /\ ProtectedTail \in Nat
  BY RuntimeAssumption
<1>1. TypeOK
  <2>1. log \in Seq(Message) /\ messages \in Seq(SUBSET (1..Len(log))) /\ transcript \in Seq(Runs)
    BY DEF Init
  <2>2. injected \in 0..MaxChunks /\ steering \in Seq(1..injected)
    BY <1>0 DEF Init
  <2>3. snapshot \in [Runs -> Seq(SUBSET (1..Len(log)))]
    <3>1. <<>> \in Seq(SUBSET (1..Len(log)))
      OBVIOUS
    <3> QED BY <3>1 DEF Init
  <2>4. /\ steerable \in BOOLEAN /\ overlapped \in BOOLEAN
        /\ phase \in [Runs -> Phase]
        /\ spoke \in [Runs -> BOOLEAN] /\ worked \in [Runs -> BOOLEAN]
    BY DEF Init, Phase
  <2> QED BY <2>1, <2>2, <2>3, <2>4 DEF TypeOK
<1>2. Conversations
  BY EmptyConversation DEF Init, Conversations
<1>3. Executing = {}
  BY DEF Init, Executing
<1>4. Alone
  <2>1. Stands(messages) = 1..Len(log)
    BY DEF Init, Stands
  <2>2. Aligned(messages, log)
    BY DEF Init, Aligned
  <2> QED BY <1>3, <2>1, <2>2 DEF Init, Alone
<1>5. SteeringComplete
  BY NoChunks DEF Init, SteeringComplete
<1>6. Accounts
  BY DEF Init, Accounts
<1> QED BY <1>1, <1>2, <1>4, <1>5, <1>6 DEF RuntimeInv

LEMMA RuntimeStep ==
    ASSUME RuntimeInv, [Next]_vars
    PROVE  RuntimeInv'
<1>1. TypeOK /\ Conversations /\ Alone /\ SteeringComplete /\ Accounts
  BY DEF RuntimeInv
<1>2. TypeOK'
  BY <1>1, TypesStep
<1>3. Conversations'
  BY <1>1, ConversationsStep
<1>4. Alone'
  BY <1>1, AloneStep
<1>5. SteeringComplete'
  BY <1>1, SteeringStep
<1>6. Accounts'
  BY <1>1, AccountsStep
<1> QED BY <1>2, <1>3, <1>4, <1>5, <1>6 DEF RuntimeInv

LEMMA RuntimeInvariant == Spec => []RuntimeInv
<1>1. Init => RuntimeInv
  BY InitRuntime
<1>2. RuntimeInv /\ [Next]_vars => RuntimeInv'
  BY RuntimeStep
<1> QED BY <1>1, <1>2, PTL DEF Spec

\* The runtime keeps its types: what a compaction writes back still only stands
\* for messages of the log, and only chunks that were injected wait.
THEOREM RuntimeTypes == Spec => []TypeOK
<1>1. RuntimeInv => TypeOK
  BY DEF RuntimeInv
<1> QED BY <1>1, RuntimeInvariant, PTL

\* However many runs of the agent overlap and write back each other's lists, the
\* conversation is in the order of the log without repetition, and a tool result
\* stands behind its call or behind the summary that swallowed the call.
THEOREM ConversationInOrder == Spec => []InOrder
<1>1. RuntimeInv => InOrder
  BY DEF RuntimeInv, Conversations, Conversation, Sorted, Paired, InOrder
<1> QED BY <1>1, RuntimeInvariant, PTL

\* While no two runs have overlapped, no compaction loses a message, and the
\* protected tail of the conversation is there as it is.
THEOREM NoMessageForgotten == Spec => []NothingForgotten
<1>1. RuntimeInv => NothingForgotten
  BY AloneRemembers DEF RuntimeInv
<1> QED BY <1>1, RuntimeInvariant, PTL

\* Every chunk steered into a run waits or is in exactly one update, and chunks
\* keep the order of their injection, whichever runs drain them.
THEOREM SteeringKept == Spec => []SteeringComplete
<1>1. RuntimeInv => SteeringComplete
  BY DEF RuntimeInv
<1> QED BY <1>1, RuntimeInvariant, PTL

\* A run that ended and left a tool result or an answer in the conversation is
\* in the persisted transcript, exactly once.
THEOREM EveryRunPersisted == Spec => []TranscriptCovers
<1>1. RuntimeInv => TranscriptCovers
  BY AccountsCover DEF RuntimeInv
<1> QED BY <1>1, RuntimeInvariant, PTL
=============================================================================
