------------------------- MODULE KnowledgeBaseProofs -------------------------
(***************************************************************************)
(* Theorems about KnowledgeBase, for all agents, notes, names, slugs, seeds *)
(* and bounds: its types, that tools tell their agents the truth, and that  *)
(* the seeding replaces nothing it has found.                              *)
(*                                                                         *)
(* ReportsTrue speaks of calls that have returned.  What makes it inductive *)
(* is said of their processes too, which go on when nobody waits for them:  *)
(* a call wrote when it was told so or its process is done with it (Wrote), *)
(* a text in a note comes from a call that wrote (TextsGiven), one that is  *)
(* there twice from a process that was lost sight of (TextsOnce), and what  *)
(* was written is there, covered or torn (Reported).                       *)
(***************************************************************************)
EXTENDS KnowledgeBase, FiniteSetTheorems, TLAPS

(* Notes, calls and processes, as values: fs is the files, cs the calls and *)
(* ps their processes.                                                     *)

\* The text x stands in the note f, and stands there twice; the note is torn.
In(fs, f, x) == f \in DOMAIN fs /\ \E i \in DOMAIN fs[f].texts : fs[f].texts[i] = x

Twice(fs, f, x) ==
    f \in DOMAIN fs /\ \E i, j \in DOMAIN fs[f].texts :
                          i # j /\ fs[f].texts[i] = x /\ fs[f].texts[j] = x

Torn(fs, f) == f \in DOMAIN fs /\ ~fs[f].whole

\* A call or its process has written its note.
Wrote(cs, ps, c) ==
    /\ cs[c].tool \notin Asking
    /\ cs[c].state = "written" \/ (c \in DOMAIN ps /\ ps[c] = "ok")

CoveredIn(cs, c) ==
    \E d \in DOMAIN cs \ {c} :
        /\ cs[d].file = cs[c].file /\ cs[d].tool \in {"vault_write", "create"}
        /\ d > c \/ cs[d].tool = "create"

UnsureIn(cs, x) == \E d \in DOMAIN cs : cs[d].text = x /\ cs[d].state \in {"timed_out", "lost"}

\* Every text in a note comes from a call that wrote, or from a script.
TextsGiven(fs, cs, ps) ==
    \A f \in DOMAIN fs, x \in 1..MaxCalls :
        In(fs, f, x) => \E d \in DOMAIN cs : cs[d].text = x /\ Wrote(cs, ps, d)

\* It is there once, unless the tool lost sight of a process with it.
TextsOnce(fs, cs) ==
    \A f \in DOMAIN fs, x \in 1..MaxCalls : Twice(fs, f, x) => UnsureIn(cs, x)

\* What was written is there, or was replaced, or torn.
Reported(fs, cs, ps) ==
    \A c \in DOMAIN cs :
        Wrote(cs, ps, c) =>
            \/ Torn(fs, cs[c].file)
            \/ In(fs, cs[c].file, cs[c].text) \/ In(fs, cs[c].file, SeedText)
            \/ CoveredIn(cs, c)

\* A text is given again only after a call that failed or timed out.
Superseded(cs) ==
    \A d, e \in DOMAIN cs :
        d < e /\ cs[d].text = cs[e].text => cs[d].state \in {"failed", "timed_out"}

NotesInv(fs, cs, ps) ==
    TextsGiven(fs, cs, ps) /\ TextsOnce(fs, cs) /\ Reported(fs, cs, ps)

\* What a step may make of a call that was there, and of its process.
Kept(n, o) ==
    /\ n.file = o.file /\ n.text = o.text
    /\ n.tool = o.tool \/ (n.tool \in Asking /\ o.tool \in Asking)
    /\ o.state # "running" => n.state = o.state

Evolved(cs, ps, ds, qs) ==
    \A d \in DOMAIN cs : /\ d \in DOMAIN ds /\ Kept(ds[d], cs[d])
                         /\ Wrote(cs, ps, d) => Wrote(ds, qs, d)

\* Only c, if any, has written something since.
NoneWroteBut(cs, ps, ds, qs, c) ==
    \A d \in DOMAIN ds : Wrote(ds, qs, d) /\ d # c => d \in DOMAIN cs /\ Wrote(cs, ps, d)

\* What covers a call, or leaves a text unsure, stays so.
LEMMA EvolvedCovers ==
    ASSUME NEW cs, NEW ps, NEW ds, NEW qs, Evolved(cs, ps, ds, qs)
    PROVE  /\ \A c \in DOMAIN cs : CoveredIn(cs, c) => CoveredIn(ds, c)
           /\ \A x : UnsureIn(cs, x) => UnsureIn(ds, x)
<1>1. ASSUME NEW c \in DOMAIN cs, CoveredIn(cs, c)
      PROVE  CoveredIn(ds, c)
  <2>1. PICK d \in DOMAIN cs \ {c} :
          /\ cs[d].file = cs[c].file /\ cs[d].tool \in {"vault_write", "create"}
          /\ d > c \/ cs[d].tool = "create"
    BY <1>1 DEF CoveredIn
  <2>2. d \in DOMAIN ds \ {c} /\ Kept(ds[d], cs[d]) /\ Kept(ds[c], cs[c])
    BY <2>1 DEF Evolved
  <2>3. ds[d].file = ds[c].file /\ ds[d].tool = cs[d].tool
    BY <2>1, <2>2 DEF Kept, Asking
  <2> QED BY <2>1, <2>2, <2>3 DEF CoveredIn
<1>2. ASSUME NEW x, UnsureIn(cs, x)
      PROVE  UnsureIn(ds, x)
  <2>1. PICK d \in DOMAIN cs : cs[d].text = x /\ cs[d].state \in {"timed_out", "lost"}
    BY <1>2 DEF UnsureIn
  <2>2. d \in DOMAIN ds /\ ds[d].text = x /\ ds[d].state = cs[d].state
    BY <2>1 DEF Evolved, Kept
  <2> QED BY <2>1, <2>2 DEF UnsureIn
<1> QED BY <1>1, <1>2

\* The notes stay as they are.
LEMMA NotesStay ==
    ASSUME NEW fs, NEW cs, NEW ps, NEW ds, NEW qs, NotesInv(fs, cs, ps),
           Evolved(cs, ps, ds, qs), NEW z, z \notin DOMAIN ds, NoneWroteBut(cs, ps, ds, qs, z)
    PROVE  NotesInv(fs, ds, qs)
<1>1. /\ \A c \in DOMAIN cs : CoveredIn(cs, c) => CoveredIn(ds, c)
      /\ \A x : UnsureIn(cs, x) => UnsureIn(ds, x)
  BY EvolvedCovers
<1>2. TextsGiven(fs, ds, qs)
  BY DEF NotesInv, TextsGiven, Evolved, Kept
<1>3. TextsOnce(fs, ds)
  BY <1>1 DEF NotesInv, TextsOnce
<1>4. Reported(fs, ds, qs)
  <2> SUFFICES ASSUME NEW c \in DOMAIN ds, Wrote(ds, qs, c)
               PROVE  \/ Torn(fs, ds[c].file)
                      \/ In(fs, ds[c].file, ds[c].text) \/ In(fs, ds[c].file, SeedText)
                      \/ CoveredIn(ds, c)
    BY DEF Reported
  <2>1. c \in DOMAIN cs /\ Wrote(cs, ps, c)
    BY DEF NoneWroteBut
  <2>2. ds[c].file = cs[c].file /\ ds[c].text = cs[c].text
    BY <2>1 DEF Evolved, Kept
  <2> QED BY <1>1, <2>1, <2>2 DEF NotesInv, Reported
<1> QED BY <1>2, <1>3, <1>4 DEF NotesInv

\* The note f gets a content.
Put(fs, f, texts, whole) ==
    [g \in DOMAIN fs \union {f} |-> IF g = f THEN [texts |-> texts, whole |-> whole] ELSE fs[g]]

Elsewhere(fs, gs, f) ==
    \A g : g # f => /\ g \in DOMAIN gs <=> g \in DOMAIN fs
                    /\ \A x : /\ In(gs, g, x) <=> In(fs, g, x)
                              /\ Twice(gs, g, x) <=> Twice(fs, g, x)
                    /\ Torn(gs, g) <=> Torn(fs, g)

IsPut(gs, fs, f, texts, whole) ==
    /\ DOMAIN gs = DOMAIN fs \union {f}
    /\ gs[f].texts = texts /\ gs[f].whole = whole
    /\ \A g \in DOMAIN fs : g # f => gs[g] = fs[g]
    /\ Elsewhere(fs, gs, f)

\* The note has the content, and all others are as they were.
LEMMA PutIs ==
    ASSUME NEW fs, NEW f, NEW texts, NEW whole
    PROVE  IsPut(Put(fs, f, texts, whole), fs, f, texts, whole)
<1>0. PICK gs : gs = Put(fs, f, texts, whole)
  OBVIOUS
<1>1. DOMAIN gs = DOMAIN fs \union {f} /\ gs[f] = [texts |-> texts, whole |-> whole]
  BY <1>0 DEF Put
<1>2. \A g \in DOMAIN fs : g # f => gs[g] = fs[g]
  BY <1>0 DEF Put
<1>3. gs[f].texts = texts /\ gs[f].whole = whole
  BY <1>1
<1>4. ASSUME NEW g, g # f
      PROVE  /\ g \in DOMAIN gs <=> g \in DOMAIN fs
             /\ \A x : (In(gs, g, x) <=> In(fs, g, x)) /\ (Twice(gs, g, x) <=> Twice(fs, g, x))
             /\ Torn(gs, g) <=> Torn(fs, g)
  <2>1. g \in DOMAIN gs <=> g \in DOMAIN fs
    BY <1>1, <1>4
  <2>2. g \in DOMAIN fs => gs[g] = fs[g]
    BY <1>2, <1>4
  <2> QED BY <2>1, <2>2 DEF In, Twice, Torn
<1>5. IsPut(gs, fs, f, texts, whole)
  BY <1>1, <1>2, <1>3, <1>4 DEF IsPut, Elsewhere
<1> QED BY <1>0, <1>5

\* A write that is torn, and a script's, leave nothing of a call in the note.
LEMMA NotesLost ==
    ASSUME NEW fs, NEW cs, NEW ps, NEW ds, NEW qs, NotesInv(fs, cs, ps),
           Evolved(cs, ps, ds, qs), NEW z, z \notin DOMAIN ds, NoneWroteBut(cs, ps, ds, qs, z),
           NEW f, NEW texts, NEW whole, NEW gs, gs = Put(fs, f, texts, whole),
           (texts = <<>> /\ ~whole) \/ texts = <<SeedText>>
    PROVE  NotesInv(gs, ds, qs)
<1>1. /\ \A c \in DOMAIN cs : CoveredIn(cs, c) => CoveredIn(ds, c)
      /\ \A x : UnsureIn(cs, x) => UnsureIn(ds, x)
  BY EvolvedCovers
<1>2. /\ DOMAIN gs = DOMAIN fs \union {f} /\ gs[f].texts = texts /\ gs[f].whole = whole
      /\ Elsewhere(fs, gs, f)
  <2>1. IsPut(gs, fs, f, texts, whole)
    BY PutIs
  <2> QED BY <2>1 DEF IsPut
<1>3. \A x \in 1..MaxCalls : ~In(gs, f, x) /\ ~Twice(gs, f, x)
  <2>1. CASE texts = <<>>
    BY <1>2, <2>1 DEF In, Twice
  <2>2. CASE texts = <<SeedText>>
    <3>1. DOMAIN texts = {1} /\ texts[1] = 0
      BY <2>2 DEF SeedText
    <3> QED BY <1>2, <3>1 DEF In, Twice
  <2> QED BY <2>1, <2>2
<1>4. Torn(gs, f) \/ In(gs, f, SeedText)
  <2>1. CASE texts = <<>> /\ ~whole
    BY <1>2, <2>1 DEF Torn
  <2>2. CASE texts = <<SeedText>>
    <3>1. DOMAIN texts = {1} /\ texts[1] = SeedText
      BY <2>2
    <3> QED BY <1>2, <3>1 DEF In
  <2> QED BY <2>1, <2>2
<1>5. TextsGiven(gs, ds, qs)
  <2> SUFFICES ASSUME NEW g \in DOMAIN gs, NEW x \in 1..MaxCalls, In(gs, g, x)
               PROVE  \E d \in DOMAIN ds : ds[d].text = x /\ Wrote(ds, qs, d)
    BY DEF TextsGiven
  <2>1. g \in DOMAIN fs /\ In(fs, g, x)
    BY <1>2, <1>3 DEF Elsewhere
  <2>2. PICK d \in DOMAIN cs : cs[d].text = x /\ Wrote(cs, ps, d)
    BY <2>1 DEF NotesInv, TextsGiven
  <2> QED BY <2>2 DEF Evolved, Kept
<1>6. TextsOnce(gs, ds)
  <2> SUFFICES ASSUME NEW g \in DOMAIN gs, NEW x \in 1..MaxCalls, Twice(gs, g, x)
               PROVE  UnsureIn(ds, x)
    BY DEF TextsOnce
  <2>1. g \in DOMAIN fs /\ Twice(fs, g, x)
    BY <1>2, <1>3 DEF Elsewhere
  <2> QED BY <1>1, <2>1 DEF NotesInv, TextsOnce
<1>7. Reported(gs, ds, qs)
  <2> SUFFICES ASSUME NEW c \in DOMAIN ds, Wrote(ds, qs, c)
               PROVE  \/ Torn(gs, ds[c].file)
                      \/ In(gs, ds[c].file, ds[c].text) \/ In(gs, ds[c].file, SeedText)
                      \/ CoveredIn(ds, c)
    BY DEF Reported
  <2>1. c \in DOMAIN cs /\ Wrote(cs, ps, c)
    BY DEF NoneWroteBut
  <2>2. ds[c].file = cs[c].file /\ ds[c].text = cs[c].text
    BY <2>1 DEF Evolved, Kept
  <2>3. CASE ds[c].file = f
    BY <1>4, <2>3
  <2>4. CASE ds[c].file # f
    BY <1>1, <1>2, <2>1, <2>2, <2>4 DEF NotesInv, Reported, Elsewhere
  <2> QED BY <2>3, <2>4
<1> QED BY <1>5, <1>6, <1>7 DEF NotesInv

\* A call, or its process, replaces the note: it covers what others wrote there.
LEMMA NotesReplaced ==
    ASSUME NEW fs, NEW cs, NEW ps, NEW ds, NEW qs, NotesInv(fs, cs, ps),
           Evolved(cs, ps, ds, qs), NEW c \in DOMAIN ds, NoneWroteBut(cs, ps, ds, qs, c),
           Wrote(ds, qs, c),
           \/ ds[c].tool = "create"
           \/ ds[c].tool = "vault_write" /\ \A d \in DOMAIN cs : c > d,
           NEW gs, gs = Put(fs, ds[c].file, <<ds[c].text>>, TRUE)
    PROVE  NotesInv(gs, ds, qs)
<1>0. PICK f : f = ds[c].file
  OBVIOUS
<1>1. /\ \A d \in DOMAIN cs : CoveredIn(cs, d) => CoveredIn(ds, d)
      /\ \A x : UnsureIn(cs, x) => UnsureIn(ds, x)
  BY EvolvedCovers
<1>3. PICK texts : texts = <<ds[c].text>> /\ DOMAIN texts = {1} /\ texts[1] = ds[c].text
  OBVIOUS
<1>2. /\ DOMAIN gs = DOMAIN fs \union {f} /\ gs[f].texts = texts
      /\ Elsewhere(fs, gs, f)
  <2>1. IsPut(gs, fs, f, texts, TRUE)
    BY <1>0, <1>3, PutIs
  <2> QED BY <2>1 DEF IsPut
<1>4. \A x : (In(gs, f, x) <=> x = ds[c].text) /\ ~Twice(gs, f, x)
  <2>1. f \in DOMAIN gs /\ DOMAIN gs[f].texts = {1} /\ gs[f].texts[1] = ds[c].text
    BY <1>2, <1>3
  <2>2. \A x : In(gs, f, x) <=> x = ds[c].text
    BY <2>1 DEF In
  <2>3. \A x : ~Twice(gs, f, x)
    BY <2>1 DEF Twice
  <2> QED BY <2>2, <2>3
<1>5. TextsGiven(gs, ds, qs)
  <2> SUFFICES ASSUME NEW g \in DOMAIN gs, NEW x \in 1..MaxCalls, In(gs, g, x)
               PROVE  \E d \in DOMAIN ds : ds[d].text = x /\ Wrote(ds, qs, d)
    BY DEF TextsGiven
  <2>1. CASE g = f
    BY <1>4, <2>1
  <2>2. CASE g # f
    <3>1. g \in DOMAIN fs /\ In(fs, g, x)
      BY <1>2, <2>2 DEF Elsewhere
    <3>2. PICK d \in DOMAIN cs : cs[d].text = x /\ Wrote(cs, ps, d)
      BY <3>1 DEF NotesInv, TextsGiven
    <3> QED BY <3>2 DEF Evolved, Kept
  <2> QED BY <2>1, <2>2
<1>6. TextsOnce(gs, ds)
  <2> SUFFICES ASSUME NEW g \in DOMAIN gs, NEW x \in 1..MaxCalls, Twice(gs, g, x)
               PROVE  UnsureIn(ds, x)
    BY DEF TextsOnce
  <2>1. g \in DOMAIN fs /\ Twice(fs, g, x)
    BY <1>2, <1>4 DEF Elsewhere
  <2> QED BY <1>1, <2>1 DEF NotesInv, TextsOnce
<1>7. Reported(gs, ds, qs)
  <2> SUFFICES ASSUME NEW d \in DOMAIN ds, Wrote(ds, qs, d)
               PROVE  \/ Torn(gs, ds[d].file)
                      \/ In(gs, ds[d].file, ds[d].text) \/ In(gs, ds[d].file, SeedText)
                      \/ CoveredIn(ds, d)
    BY DEF Reported
  <2>1. CASE d = c
    BY <1>0, <1>4, <2>1
  <2>2. CASE d # c
    <3>1. d \in DOMAIN cs /\ Wrote(cs, ps, d)
      BY <2>2 DEF NoneWroteBut
    <3>2. ds[d].file = cs[d].file /\ ds[d].text = cs[d].text
      BY <3>1 DEF Evolved, Kept
    <3>3. CASE ds[d].file = f
      <4>1. c \in DOMAIN ds \ {d} /\ ds[c].file = ds[d].file
        BY <1>0, <2>2, <3>3
      <4>2. ds[c].tool \in {"vault_write", "create"} /\ (c > d \/ ds[c].tool = "create")
        BY <3>1
      <4>3. CoveredIn(ds, d)
        BY <4>1, <4>2 DEF CoveredIn
      <4> QED BY <4>3
    <3>4. CASE ds[d].file # f
      BY <1>1, <1>2, <3>1, <3>2, <3>4 DEF NotesInv, Reported, Elsewhere
    <3> QED BY <3>3, <3>4
  <2> QED BY <2>1, <2>2
<1> QED BY <1>5, <1>6, <1>7 DEF NotesInv

\* The note as a process finds it that appends to it.
Before(fs, f) == IF f \in DOMAIN fs THEN fs[f] ELSE [texts |-> <<>>, whole |-> TRUE]

\* A process appends a text: it stands twice only if somebody lost sight of it.
LEMMA NotesAppended ==
    ASSUME NEW fs, NEW cs, NEW ps, NEW qs, NotesInv(fs, cs, ps), Superseded(cs),
           Evolved(cs, ps, cs, qs), NEW c \in DOMAIN cs, NoneWroteBut(cs, ps, cs, qs, c),
           DOMAIN cs \subseteq Nat,
           ~Wrote(cs, ps, c), cs[c].state # "failed", Wrote(cs, qs, c),
           \A f \in DOMAIN fs : fs[f].texts \in Seq(0..MaxCalls),
           NEW x \in 1..MaxCalls, x = cs[c].text, NEW f, f = cs[c].file,
           \A d \in DOMAIN cs : Wrote(cs, ps, d) => cs[d].state # "failed",
           NEW gs, gs = Put(fs, f, Append(Before(fs, f).texts, x), Before(fs, f).whole)
    PROVE  NotesInv(gs, cs, qs)
<1>1. PICK old : old = Before(fs, f).texts
  OBVIOUS
<1>2. /\ old \in Seq(0..MaxCalls)
      /\ f \in DOMAIN fs => old = fs[f].texts
      /\ f \notin DOMAIN fs => old = <<>>
  <2>1. CASE f \in DOMAIN fs
    BY <1>1, <2>1 DEF Before
  <2>2. CASE f \notin DOMAIN fs
    <3>1. Before(fs, f).texts = <<>>
      BY <2>2 DEF Before
    <3>2. <<>> \in Seq(0..MaxCalls)
      OBVIOUS
    <3> QED BY <1>1, <2>2, <3>1, <3>2
  <2> QED BY <2>1, <2>2
<1>3. PICK n \in Nat : n = Len(old) /\ DOMAIN old = 1..n
  BY <1>2
<1>4. PICK new : new = Append(old, x)
  OBVIOUS
<1>5. DOMAIN new = 1..(n + 1) /\ new[n + 1] = x /\ \A i \in 1..n : new[i] = old[i]
  BY <1>2, <1>3, <1>4
<1>6. /\ DOMAIN gs = DOMAIN fs \union {f} /\ gs[f].texts = new
      /\ gs[f].whole = Before(fs, f).whole /\ Elsewhere(fs, gs, f)
  <2>1. IsPut(gs, fs, f, new, Before(fs, f).whole)
    BY <1>1, <1>4, PutIs
  <2> QED BY <2>1 DEF IsPut
<1>7. \A y : In(gs, f, y) <=> (y = x \/ In(fs, f, y))
  <2>1. \A i \in 1..(n + 1) : i = n + 1 \/ i \in 1..n
    BY <1>3
  <2>2. n + 1 \in 1..(n + 1) /\ \A i \in 1..n : i \in 1..(n + 1)
    BY <1>3
  <2>3. ASSUME NEW y
        PROVE  In(fs, f, y) <=> \E i \in 1..n : old[i] = y
    <3>1. CASE f \in DOMAIN fs
      BY <1>2, <1>3, <3>1 DEF In
    <3>2. CASE f \notin DOMAIN fs
      <4>1. 1..n = {}
        BY <1>2, <1>3, <3>2
      <4> QED BY <3>2, <4>1 DEF In
    <3> QED BY <3>1, <3>2
  <2>4. ASSUME NEW y
        PROVE  In(gs, f, y) <=> \E i \in 1..(n + 1) : new[i] = y
    BY <1>5, <1>6 DEF In
  <2> QED BY <1>5, <2>1, <2>2, <2>3, <2>4
<1>8. Torn(fs, f) => Torn(gs, f)
  BY <1>6 DEF Torn, Before
<1>9. ASSUME NEW y, Twice(gs, f, y), ~Twice(fs, f, y)
      PROVE  y = x /\ In(fs, f, x)
  <2>1. PICK i \in 1..(n + 1), j \in 1..(n + 1) : i # j /\ new[i] = y /\ new[j] = y
    BY <1>5, <1>6, <1>9 DEF Twice
  <2>2. ~(i \in 1..n /\ j \in 1..n)
    <3>1. SUFFICES ASSUME i \in 1..n, j \in 1..n
                   PROVE  FALSE
      OBVIOUS
    <3>2. old[i] = y /\ old[j] = y /\ i \in DOMAIN old /\ j \in DOMAIN old
      BY <1>3, <1>5, <2>1, <3>1
    <3>3. f \in DOMAIN fs
      BY <1>2, <3>2
    <3> QED BY <1>2, <1>9, <2>1, <3>2, <3>3 DEF Twice
  <2>3. PICK k \in 1..n : new[k] = y /\ new[n + 1] = y
    <3>1. (i = n + 1 /\ j \in 1..n) \/ (j = n + 1 /\ i \in 1..n)
      BY <1>3, <2>1, <2>2
    <3> QED BY <2>1, <3>1
  <2>4. old[k] = x /\ k \in DOMAIN old /\ y = x
    BY <1>3, <1>5, <2>3
  <2>5. f \in DOMAIN fs
    BY <1>2, <2>4
  <2> QED BY <1>2, <2>4, <2>5 DEF In
<1>10. /\ \A d \in DOMAIN cs : CoveredIn(cs, d) => CoveredIn(cs, d)
       /\ \A y : UnsureIn(cs, y) => UnsureIn(cs, y)
  OBVIOUS
<1>11. TextsGiven(gs, cs, qs)
  <2> SUFFICES ASSUME NEW g \in DOMAIN gs, NEW y \in 1..MaxCalls, In(gs, g, y)
               PROVE  \E d \in DOMAIN cs : cs[d].text = y /\ Wrote(cs, qs, d)
    BY DEF TextsGiven
  <2>1. (g = f /\ y = x) \/ (g \in DOMAIN fs /\ In(fs, g, y))
    <3>1. CASE g = f
      <4>1. y = x \/ In(fs, f, y)
        BY <1>7, <3>1
      <4> QED BY <3>1, <4>1 DEF In
    <3>2. CASE g # f
      BY <1>6, <3>2 DEF Elsewhere
    <3> QED BY <3>1, <3>2
  <2>2. CASE g = f /\ y = x
    BY <2>2
  <2>3. CASE g \in DOMAIN fs /\ In(fs, g, y)
    <3>1. PICK d \in DOMAIN cs : cs[d].text = y /\ Wrote(cs, ps, d)
      BY <2>3 DEF NotesInv, TextsGiven
    <3> QED BY <3>1 DEF Evolved
  <2> QED BY <2>1, <2>2, <2>3
<1>12. TextsOnce(gs, cs)
  <2> SUFFICES ASSUME NEW g \in DOMAIN gs, NEW y \in 1..MaxCalls, Twice(gs, g, y)
               PROVE  UnsureIn(cs, y)
    BY DEF TextsOnce
  <2>1. CASE Twice(fs, g, y)
    BY <2>1 DEF NotesInv, TextsOnce, Twice
  <2>2. CASE ~Twice(fs, g, y)
    <3>1. g = f
      BY <1>6, <2>2 DEF Elsewhere
    <3>2. y = x /\ In(fs, f, x) /\ f \in DOMAIN fs
      BY <1>9, <2>2, <3>1 DEF In
    <3>3. PICK d \in DOMAIN cs : cs[d].text = x /\ Wrote(cs, ps, d)
      BY <3>2 DEF NotesInv, TextsGiven
    <3>4. d # c /\ d \in Nat /\ c \in Nat /\ cs[d].state # "failed"
      BY <3>3
    <3>5. d < c \/ c < d
      BY <3>4
    <3>6. cs[d].state = "timed_out" \/ cs[c].state = "timed_out"
      BY <3>3, <3>4, <3>5 DEF Superseded
    <3> QED BY <3>2, <3>3, <3>6 DEF UnsureIn
  <2> QED BY <2>1, <2>2
<1>13. Reported(gs, cs, qs)
  <2> SUFFICES ASSUME NEW d \in DOMAIN cs, Wrote(cs, qs, d)
               PROVE  \/ Torn(gs, cs[d].file)
                      \/ In(gs, cs[d].file, cs[d].text) \/ In(gs, cs[d].file, SeedText)
                      \/ CoveredIn(cs, d)
    BY DEF Reported
  <2>1. CASE d = c
    BY <1>7, <2>1
  <2>2. CASE d # c
    <3>1. Wrote(cs, ps, d)
      BY <2>2 DEF NoneWroteBut
    <3>2. \/ Torn(fs, cs[d].file)
          \/ In(fs, cs[d].file, cs[d].text) \/ In(fs, cs[d].file, SeedText)
          \/ CoveredIn(cs, d)
      BY <3>1 DEF NotesInv, Reported
    <3>3. CASE cs[d].file = f
      BY <1>7, <1>8, <3>2, <3>3
    <3>4. CASE cs[d].file # f
      BY <1>6, <3>2, <3>4 DEF Elsewhere
    <3> QED BY <3>3, <3>4
  <2> QED BY <2>1, <2>2
<1> QED BY <1>11, <1>12, <1>13 DEF NotesInv
-----------------------------------------------------------------------------
(* The calls and their processes.                                          *)

CallRecord ==
    [agent : Agents, tool : Tools, file : Files \union {NoFile}, text : 1..MaxCalls, state : States]

\* The call c and its process go together.
CallFits(cs, ps, c) ==
    /\ cs[c].text <= c
    /\ c \in DOMAIN ps =>
         cs[c].state \in {"running", "timed_out", "lost"} /\ cs[c].tool # "vault_write"
    /\ cs[c].tool \in {"create", "append"} => cs[c].file # NoFile
    /\ cs[c].tool \in Asking => cs[c].file = NoFile

CallsPart(cs, ps) ==
    /\ cs \in Seq(CallRecord)
    /\ DOMAIN ps \subseteq DOMAIN cs
    /\ \A c \in DOMAIN ps : ps[c] \in {"works", "ok", "error"}
    /\ \A c \in DOMAIN cs : CallFits(cs, ps, c)
    /\ Superseded(cs)

\* A call waits for its process.
AllRun(cs, ps) == \A c \in DOMAIN cs : cs[c].state = "running" => c \in DOMAIN ps

CallsInv(cs, ps) == CallsPart(cs, ps) /\ AllRun(cs, ps)

\* Two steps in a row.
LEMMA EvolvedOn ==
    ASSUME NEW cs, NEW ps, NEW ds, NEW qs, NEW es, NEW rs,
           Evolved(cs, ps, ds, qs), Evolved(ds, qs, es, rs)
    PROVE  Evolved(cs, ps, es, rs)
<1> SUFFICES ASSUME NEW d \in DOMAIN cs
             PROVE  /\ d \in DOMAIN es /\ Kept(es[d], cs[d])
                    /\ Wrote(cs, ps, d) => Wrote(es, rs, d)
  BY DEF Evolved
<1>1. d \in DOMAIN ds /\ Kept(ds[d], cs[d]) /\ (Wrote(cs, ps, d) => Wrote(ds, qs, d))
  BY DEF Evolved
<1>2. d \in DOMAIN es /\ Kept(es[d], ds[d]) /\ (Wrote(ds, qs, d) => Wrote(es, rs, d))
  BY <1>1 DEF Evolved
<1>3. Kept(es[d], cs[d])
  BY <1>1, <1>2 DEF Kept
<1> QED BY <1>1, <1>2, <1>3

\* A call that is made now: r, of which no process has written yet.
NewCall(cs, r) ==
    /\ r \in CallRecord /\ r.text <= Len(cs) + 1
    /\ \A d \in DOMAIN cs : cs[d].text = r.text => cs[d].state \in {"failed", "timed_out"}
    /\ r.tool \in {"create", "append"} => r.file # NoFile
    /\ r.tool \in Asking => r.file = NoFile

\* The process of the call n.
StartedFor(ps, n) ==
    [c \in DOMAIN ps \union {n} |-> IF c \in DOMAIN ps THEN ps[c] ELSE "works"]

IsAdded(cs, ps, ds, qs, r, n) ==
    /\ n \in DOMAIN ds /\ ds[n] = r /\ \A d \in DOMAIN cs : n > d
    /\ CallsPart(ds, qs) /\ Evolved(cs, ps, ds, qs) /\ NoneWroteBut(cs, ps, ds, qs, n)
    /\ \A d \in DOMAIN cs : ds[d] = cs[d]
    /\ DOMAIN ds = DOMAIN cs \union {n} /\ n \notin DOMAIN cs
    /\ r.state # "written" => NoneWroteBut(cs, ps, ds, qs, 0) /\ 0 \notin DOMAIN ds
    /\ r.state = "written" /\ r.tool = "vault_write" => Wrote(ds, qs, n)

\* A call is added, with its process if it has one.
LEMMA CallAdded ==
    ASSUME NEW cs, NEW ps, CallsPart(cs, ps), NEW r, NewCall(cs, r), NEW ds, ds = Append(cs, r),
           NEW qs,
           \/ qs = ps /\ r.tool = "vault_write"
           \/ qs = StartedFor(ps, Len(cs) + 1) /\ r.tool # "vault_write" /\ r.state = "running"
    PROVE  IsAdded(cs, ps, ds, qs, r, Len(cs) + 1)
<1>1. PICK b \in Nat : b = Len(cs) /\ DOMAIN cs = 1..b
  BY DEF CallsPart
<1>2. PICK n \in Nat : n = b + 1 /\ n = Len(cs) + 1
  BY <1>1
<1>3. cs \in Seq(CallRecord) /\ r \in CallRecord
  BY DEF CallsPart, NewCall
<1>4. /\ ds \in Seq(CallRecord) /\ DOMAIN ds = 1..n /\ ds[n] = r
      /\ \A d \in 1..b : ds[d] = cs[d]
  BY <1>1, <1>2, <1>3
<1>5. DOMAIN ds = DOMAIN cs \union {n} /\ n \notin DOMAIN cs /\ \A d \in DOMAIN cs : n > d
  BY <1>1, <1>2, <1>4
<1>6. /\ DOMAIN ps \subseteq DOMAIN cs /\ n \notin DOMAIN ps
      /\ \A c \in DOMAIN ps : ps[c] \in {"works", "ok", "error"}
  BY <1>5 DEF CallsPart
<1>7. /\ \A d \in DOMAIN cs : d \in DOMAIN qs <=> d \in DOMAIN ps
      /\ \A d \in DOMAIN ps : qs[d] = ps[d]
      /\ n \in DOMAIN qs => qs[n] = "works" /\ r.tool # "vault_write" /\ r.state = "running"
      /\ DOMAIN qs \subseteq DOMAIN cs \union {n}
  <2>1. CASE qs = ps
    BY <1>6, <2>1
  <2>2. CASE qs # ps
    <3>1. qs = StartedFor(ps, n) /\ r.tool # "vault_write" /\ r.state = "running"
      BY <1>2, <2>2
    <3>2. DOMAIN qs = DOMAIN ps \union {n} /\ qs[n] = "works" /\ \A d \in DOMAIN ps : qs[d] = ps[d]
      BY <1>6, <3>1 DEF StartedFor
    <3> QED BY <1>5, <1>6, <3>1, <3>2
  <2> QED BY <2>1, <2>2
<1>8. ASSUME NEW d \in DOMAIN cs
      PROVE  ds[d] = cs[d] /\ (Wrote(ds, qs, d) <=> Wrote(cs, ps, d)) /\ Kept(ds[d], cs[d])
  <2>1. ds[d] = cs[d]
    BY <1>1, <1>4
  <2> QED BY <1>7, <2>1 DEF Wrote, Kept
<1>9. Evolved(cs, ps, ds, qs)
  BY <1>5, <1>8 DEF Evolved
<1>10. NoneWroteBut(cs, ps, ds, qs, n)
  BY <1>5, <1>8 DEF NoneWroteBut
<1>11. r.state # "written" => ~Wrote(ds, qs, n)
  BY <1>4, <1>7 DEF Wrote
<1>12. r.state # "written" => NoneWroteBut(cs, ps, ds, qs, 0) /\ 0 \notin DOMAIN ds
  <2>1. 0 \notin DOMAIN ds
    BY <1>4
  <2> QED BY <1>5, <1>8, <1>11, <2>1 DEF NoneWroteBut
<1>13. r.state = "written" /\ r.tool = "vault_write" => Wrote(ds, qs, n)
  BY <1>4 DEF Wrote, Asking
<1>14. ASSUME NEW c \in DOMAIN ds
       PROVE  CallFits(ds, qs, c)
  <2>1. CASE c \in DOMAIN cs
    <3>1. CallFits(cs, ps, c)
      BY <2>1 DEF CallsPart
    <3> QED BY <1>7, <1>8, <2>1, <3>1 DEF CallFits
  <2>2. CASE c = n
    BY <1>2, <1>4, <1>7, <2>2 DEF CallFits, NewCall
  <2> QED BY <1>5, <2>1, <2>2
<1>15. Superseded(ds)
  <2> SUFFICES ASSUME NEW d \in DOMAIN ds, NEW e \in DOMAIN ds, d < e, ds[d].text = ds[e].text
               PROVE  ds[d].state \in {"failed", "timed_out"}
    BY DEF Superseded
  <2>1. d \in DOMAIN cs
    BY <1>1, <1>2, <1>4
  <2>2. CASE e \in DOMAIN cs
    BY <1>8, <2>1, <2>2 DEF CallsPart, Superseded
  <2>3. CASE e = n
    BY <1>4, <1>8, <2>1, <2>3 DEF NewCall
  <2> QED BY <1>5, <2>2, <2>3
<1>16. \A c \in DOMAIN qs : qs[c] \in {"works", "ok", "error"}
  BY <1>5, <1>6, <1>7
<1>17. CallsPart(ds, qs)
  BY <1>4, <1>5, <1>7, <1>14, <1>15, <1>16 DEF CallsPart
<1>18. IsAdded(cs, ps, ds, qs, r, n)
  BY <1>4, <1>5, <1>8, <1>9, <1>10, <1>12, <1>13, <1>17 DEF IsAdded
<1> QED BY <1>2, <1>18

\* A running call gets another tool or state, r, and its process with it.
LEMMA CallChanged ==
    ASSUME NEW cs, NEW ps, CallsInv(cs, ps), NEW c \in DOMAIN cs, cs[c].state = "running",
           NEW r \in CallRecord, Kept(r, cs[c]), NEW ds, ds = [cs EXCEPT ![c] = r],
           NEW qs, DOMAIN qs \subseteq DOMAIN ps,
           \A d \in DOMAIN ps : d # c => d \in DOMAIN qs /\ qs[d] = ps[d],
           c \in DOMAIN qs => qs[c] \in {"works", "ok", "error"},
           c \in DOMAIN qs => r.state \in {"running", "timed_out", "lost"},
           r.state = "running" => c \in DOMAIN qs,
           Wrote(ds, qs, c) <=> Wrote(cs, ps, c)
    PROVE  CallsInv(ds, qs) /\ Evolved(cs, ps, ds, qs) /\ NoneWroteBut(cs, ps, ds, qs, 0)
<1>0. CallsPart(cs, ps) /\ AllRun(cs, ps)
  BY DEF CallsInv
<1>1. /\ cs \in Seq(CallRecord) /\ DOMAIN ps \subseteq DOMAIN cs
      /\ \A d \in DOMAIN cs : CallFits(cs, ps, d)
  BY <1>0 DEF CallsPart
<1>2. /\ ds \in Seq(CallRecord) /\ DOMAIN ds = DOMAIN cs /\ ds[c] = r
      /\ \A d \in DOMAIN cs : d # c => ds[d] = cs[d]
  BY <1>1
<1>3. \A d \in DOMAIN cs : d # c => (Wrote(ds, qs, d) <=> Wrote(cs, ps, d))
  BY <1>2 DEF Wrote
<1>4. Evolved(cs, ps, ds, qs)
  <2>1. \A d \in DOMAIN cs : Kept(ds[d], cs[d])
    <3>1. \A d \in DOMAIN cs : d # c => Kept(ds[d], cs[d])
      BY <1>2 DEF Kept
    <3> QED BY <1>2, <3>1
  <2> QED BY <1>2, <1>3, <2>1 DEF Evolved
<1>5. NoneWroteBut(cs, ps, ds, qs, 0)
  BY <1>2, <1>3 DEF NoneWroteBut
<1>6. ASSUME NEW d \in DOMAIN ds
      PROVE  CallFits(ds, qs, d)
  <2>0. CallFits(cs, ps, d)
    BY <1>1, <1>2
  <2>1. CASE d = c
    <3>1. r.file = cs[c].file /\ r.text = cs[c].text
          /\ (r.tool = cs[c].tool \/ (r.tool \in Asking /\ cs[c].tool \in Asking))
      BY DEF Kept
    <3>2. c \in DOMAIN ps
      BY <1>0 DEF AllRun
    <3> QED BY <1>2, <2>0, <2>1, <3>1, <3>2 DEF CallFits, Asking
  <2>2. CASE d # c
    BY <1>2, <2>0, <2>2 DEF CallFits
  <2> QED BY <2>1, <2>2
<1>7. Superseded(ds)
  <2> SUFFICES ASSUME NEW d \in DOMAIN ds, NEW e \in DOMAIN ds, d < e, ds[d].text = ds[e].text
               PROVE  ds[d].state \in {"failed", "timed_out"}
    BY DEF Superseded
  <2>1. cs[d].text = ds[d].text /\ cs[e].text = ds[e].text
    BY <1>2 DEF Kept
  <2>2. cs[d].state \in {"failed", "timed_out"}
    BY <1>0, <1>2, <2>1 DEF CallsPart, Superseded
  <2>3. d # c
    BY <2>2
  <2> QED BY <1>2, <2>2, <2>3
<1>8. DOMAIN qs \subseteq DOMAIN ds /\ \A d \in DOMAIN qs : qs[d] \in {"works", "ok", "error"}
  BY <1>0, <1>1, <1>2 DEF CallsPart
<1>9. CallsPart(ds, qs)
  BY <1>2, <1>6, <1>7, <1>8 DEF CallsPart
<1>10. AllRun(ds, qs)
  BY <1>0, <1>2 DEF AllRun
<1> QED BY <1>4, <1>5, <1>9, <1>10 DEF CallsInv

\* The process of a call does its work, or fails.
LEMMA ProcessDone ==
    ASSUME NEW cs, NEW ps, CallsInv(cs, ps), NEW c \in DOMAIN ps, ps[c] = "works",
           NEW v \in {"ok", "error"}, NEW qs, qs = [ps EXCEPT ![c] = v]
    PROVE  /\ CallsInv(cs, qs) /\ Evolved(cs, ps, cs, qs) /\ NoneWroteBut(cs, ps, cs, qs, c)
           /\ v = "error" \/ cs[c].tool \in Asking => NoneWroteBut(cs, ps, cs, qs, 0)
           /\ v = "ok" /\ cs[c].tool \notin Asking => Wrote(cs, qs, c) /\ ~Wrote(cs, ps, c)
<1>0. CallsPart(cs, ps) /\ AllRun(cs, ps)
  BY DEF CallsInv
<1>1. DOMAIN qs = DOMAIN ps /\ qs[c] = v /\ \A d \in DOMAIN ps : d # c => qs[d] = ps[d]
  OBVIOUS
<1>2. c \in DOMAIN cs /\ cs[c].state # "written"
  BY <1>0 DEF CallsPart, CallFits
<1>3. \A d \in DOMAIN cs : d # c => (Wrote(cs, qs, d) <=> Wrote(cs, ps, d))
  BY <1>1 DEF Wrote
<1>4. ~Wrote(cs, ps, c)
  BY <1>2 DEF Wrote
<1>5. Evolved(cs, ps, cs, qs)
  BY <1>3, <1>4 DEF Evolved, Kept
<1>6. NoneWroteBut(cs, ps, cs, qs, c)
  BY <1>3 DEF NoneWroteBut
<1>7. v = "error" \/ cs[c].tool \in Asking => ~Wrote(cs, qs, c)
  BY <1>1, <1>2 DEF Wrote
<1>8. v = "ok" /\ cs[c].tool \notin Asking => Wrote(cs, qs, c)
  BY <1>1 DEF Wrote
<1>9. CallsPart(cs, qs)
  BY <1>0, <1>1 DEF CallsPart, CallFits
<1>10. AllRun(cs, qs)
  BY <1>0, <1>1 DEF AllRun
<1>11. v = "error" \/ cs[c].tool \in Asking => NoneWroteBut(cs, ps, cs, qs, 0)
  BY <1>3, <1>7 DEF NoneWroteBut
<1> QED BY <1>4, <1>5, <1>6, <1>8, <1>9, <1>10, <1>11 DEF CallsInv

\* The server is gone: what ran is lost.
LEMMA CallsForgotten ==
    ASSUME NEW cs, NEW ps, CallsPart(cs, ps), NEW ds, ds = Forgotten(cs)
    PROVE  CallsInv(ds, ps) /\ Evolved(cs, ps, ds, ps) /\ NoneWroteBut(cs, ps, ds, ps, 0)
<1>1. PICK b \in Nat : b = Len(cs) /\ DOMAIN cs = 1..b /\ cs \in Seq(CallRecord)
  BY DEF CallsPart
<1>2. ASSUME NEW d \in 1..b
      PROVE  /\ ds[d] \in CallRecord
             /\ ds[d].file = cs[d].file /\ ds[d].text = cs[d].text /\ ds[d].tool = cs[d].tool
             /\ cs[d].state # "running" => ds[d] = cs[d]
             /\ cs[d].state = "running" => ds[d].state = "lost"
  <2>0. cs[d] \in CallRecord
    BY <1>1
  <2>1. CASE cs[d].state # "running"
    BY <1>1, <2>0, <2>1 DEF Forgotten
  <2>2. CASE cs[d].state = "running"
    <3>1. ds[d] = [cs[d] EXCEPT !.state = "lost"]
      BY <1>1, <2>2 DEF Forgotten
    <3>2. PICK o \in CallRecord : o = cs[d]
      BY <2>0
    <3>3. PICK q : q = [o EXCEPT !.state = "lost"]
      OBVIOUS
    <3>4. q \in CallRecord /\ q.file = o.file /\ q.text = o.text /\ q.tool = o.tool /\ q.state = "lost"
      BY <3>3 DEF CallRecord, States
    <3> QED BY <2>2, <3>1, <3>2, <3>3, <3>4
  <2> QED BY <2>1, <2>2
<1>3. DOMAIN ds = 1..b /\ ds \in Seq(CallRecord)
  <2>1. DOMAIN ds = 1..b /\ ds = [d \in 1..b |-> ds[d]]
    BY <1>1 DEF Forgotten
  <2> QED BY <1>2, <2>1
<1>4. \A d \in 1..b : Kept(ds[d], cs[d])
  BY <1>2 DEF Kept
<1>5. \A d \in 1..b : Wrote(ds, ps, d) <=> Wrote(cs, ps, d)
  <2>1. ASSUME NEW d \in 1..b
        PROVE  ds[d].tool = cs[d].tool /\ (ds[d].state = "written" <=> cs[d].state = "written")
    BY <1>2
  <2> QED BY <2>1 DEF Wrote
<1>6. Evolved(cs, ps, ds, ps) /\ NoneWroteBut(cs, ps, ds, ps, 0)
  BY <1>1, <1>3, <1>4, <1>5 DEF Evolved, NoneWroteBut
<1>7. \A d \in 1..b : CallFits(ds, ps, d)
  <2> SUFFICES ASSUME NEW d \in 1..b
               PROVE  CallFits(ds, ps, d)
    OBVIOUS
  <2>1. CallFits(cs, ps, d)
    BY <1>1 DEF CallsPart
  <2> QED BY <1>2, <2>1 DEF CallFits
<1>8. Superseded(ds)
  <2> SUFFICES ASSUME NEW d \in 1..b, NEW e \in 1..b, d < e, ds[d].text = ds[e].text
               PROVE  ds[d].state \in {"failed", "timed_out"}
    BY <1>3 DEF Superseded
  <2>1. cs[d].state \in {"failed", "timed_out"}
    BY <1>1, <1>2 DEF CallsPart, Superseded
  <2> QED BY <1>2, <2>1
<1>9. CallsPart(ds, ps)
  BY <1>1, <1>3, <1>7, <1>8 DEF CallsPart
<1>10. AllRun(ds, ps)
  BY <1>2, <1>3 DEF AllRun
<1> QED BY <1>6, <1>9, <1>10 DEF CallsInv
-----------------------------------------------------------------------------
(* The notes, the calls and the processes through a step.                  *)

FilesFit(fs) ==
    /\ DOMAIN fs \subseteq Files
    /\ \A f \in DOMAIN fs : fs[f] \in [texts : Seq(0..MaxCalls), whole : BOOLEAN]

NoteInv(fs, cs, ps) == FilesFit(fs) /\ CallsInv(cs, ps) /\ NotesInv(fs, cs, ps)

Bounded ==
    /\ counts \in [crashes : 0..MaxCrashes, seedings : 0..MaxSeedings, uses : 0..MaxCalls]
    /\ Len(calls) + counts.uses <= MaxCalls

\* A note that is put keeps the type of the files.
LEMMA PutFits ==
    ASSUME NEW fs, FilesFit(fs), NEW f \in Files, NEW texts \in Seq(0..MaxCalls),
           NEW whole \in BOOLEAN
    PROVE  FilesFit(Put(fs, f, texts, whole))
<1>1. PICK gs : gs = Put(fs, f, texts, whole)
  OBVIOUS
<1>2. PICK n : n = [texts |-> texts, whole |-> whole]
  OBVIOUS
<1>3. n \in [texts : Seq(0..MaxCalls), whole : BOOLEAN]
  BY <1>2
<1>4. DOMAIN gs = DOMAIN fs \union {f} /\ gs[f] = n /\ \A g \in DOMAIN fs : g # f => gs[g] = fs[g]
  BY <1>1, <1>2 DEF Put
<1>5. \A g \in DOMAIN gs : gs[g] \in [texts : Seq(0..MaxCalls), whole : BOOLEAN]
  BY <1>3, <1>4 DEF FilesFit
<1>6. DOMAIN gs \subseteq Files
  BY <1>4 DEF FilesFit
<1> QED BY <1>1, <1>5, <1>6 DEF FilesFit

\* Nothing changes.
LEMMA EvolvedSame ==
    ASSUME NEW cs, NEW ps
    PROVE  /\ Evolved(cs, ps, cs, ps)
           /\ \A z : NoneWroteBut(cs, ps, cs, ps, z)
BY DEF Evolved, Kept, NoneWroteBut

\* Whatever a kind and a name, the note is one of Files, and a pattern or a
\* concept is no term.
LEMMA FilesOfKinds ==
    ASSUME NEW kind \in Kinds, NEW name \in DOMAIN SlugOf, NEW f \in FilesOf(kind, name)
    PROVE  f \in Files /\ f # NoFile /\ f[1] = kind
<1>1. SlugOf[name] \in Range(SlugOf)
  BY DEF Range
<1>2. PICK slug \in Range(SlugOf) : slug = SlugOf[name]
  BY <1>1
<1>3. \E day \in Days \union {0} : f = <<kind, day, slug>>
  <2>1. CASE kind = "papers"
    BY <1>2, <2>1 DEF FilesOf, PaperFile
  <2>2. CASE kind = "terms"
    BY <1>2, <2>2 DEF FilesOf, TermFile
  <2>3. CASE kind = "insights"
    BY <1>2, <2>3 DEF FilesOf, InsightFile
  <2>4. CASE kind = "patterns"
    BY <1>2, <2>4 DEF FilesOf, PatternFile
  <2>5. CASE kind = "concepts"
    BY <1>2, <2>5 DEF FilesOf, ConceptFile
  <2> QED BY <2>1, <2>2, <2>3, <2>4, <2>5 DEF Kinds
<1>4. PICK day \in Days \union {0} : f = <<kind, day, slug>>
  BY <1>3
<1>5. f \in Files /\ f[1] = kind
  BY <1>4 DEF Files
<1>6. 1 \in DOMAIN f
  BY <1>4
<1>7. 1 \notin DOMAIN NoFile
  BY DEF NoFile
<1>8. f # NoFile
  BY <1>6, <1>7, Zenon
<1> QED BY <1>5, <1>8

\* What agents, the seeding and the other script may write to.
LEMMA TargetsFit ==
    ASSUME NEW f \in Targets
    PROVE  f \in Files /\ f # NoFile
<1>1. PICK n \in Notes : f \in FilesOf(n[1], n[2])
  BY DEF Targets
<1>2. n[1] \in Kinds /\ n[2] \in DOMAIN SlugOf
  BY KnowledgeAssumption
<1> QED BY <1>1, <1>2, FilesOfKinds

LEMMA SeedFits ==
    ASSUME NEW i \in DOMAIN SeedTerms
    PROVE  TermFile(SeedTerms[i]) \in Files
<1>1. SeedTerms[i] \in DOMAIN SlugOf
  BY KnowledgeAssumption
<1>2. TermFile(SeedTerms[i]) \in FilesOf("terms", SeedTerms[i]) /\ "terms" \in Kinds
  BY DEF FilesOf, Kinds
<1> QED BY <1>1, <1>2, FilesOfKinds

LEMMA OthersFit ==
    ASSUME NEW n \in SeedOthers, NEW f \in FilesOf(n[1], n[2])
    PROVE  f \in Files /\ f[1] # "terms"
<1>1. n[1] \in {"patterns", "concepts"} /\ n[2] \in DOMAIN SlugOf
  BY KnowledgeAssumption
<1>2. n[1] \in Kinds /\ n[1] # "terms"
  BY <1>1 DEF Kinds
<1>3. f \in Files /\ f[1] = n[1]
  BY <1>1, <1>2, FilesOfKinds
<1> QED BY <1>2, <1>3

\* A text that an agent may give now.
LEMMA NewText ==
    ASSUME CallsInv(calls, process), Bounded, NEW a \in Agents, MayCall(a),
           NEW f, NEW text \in TextsOf(a, f)
    PROVE  /\ text \in 1..MaxCalls /\ text <= Len(calls) + 1
           /\ \A d \in DOMAIN calls : calls[d].text = text => calls[d].state \in {"failed", "timed_out"}
<1>1. PICK b \in Nat : b = Len(calls) /\ DOMAIN calls = 1..b /\ calls \in Seq(CallRecord)
  BY DEF CallsInv, CallsPart
<1>2. \A d \in 1..b : calls[d].text \in 1..MaxCalls /\ calls[d].text <= d
  <2>1. \A d \in 1..b : calls[d] \in CallRecord /\ CallFits(calls, process, d)
    BY <1>1 DEF CallsInv, CallsPart
  <2> QED BY <2>1 DEF CallRecord, CallFits
<1>3. b + 1 \in 1..MaxCalls
  <2>1. counts.uses \in Nat /\ MaxCalls \in Nat
    BY KnowledgeAssumption DEF Bounded
  <2> QED BY <1>1, <2>1 DEF MayCall
<1>4. CASE text = b + 1
  <2>1. \A d \in 1..b : calls[d].text # text
    BY <1>1, <1>2, <1>4
  <2> QED BY <1>1, <1>3, <1>4, <2>1
<1>5. CASE text # b + 1
  <2>1. PICK c \in DOMAIN calls :
          /\ text = calls[c].text
          /\ \A e \in Given(calls[c].text) : calls[e].state \in {"failed", "timed_out"}
    BY <1>1, <1>5 DEF TextsOf
  <2>2. text \in 1..MaxCalls /\ text <= b + 1
    BY <1>1, <1>2, <2>1
  <2> QED BY <1>1, <2>1, <2>2 DEF Given
<1> QED BY <1>4, <1>5

Record(a, tool, f, text, state) ==
    [agent |-> a, tool |-> tool, file |-> f, text |-> text, state |-> state]

\* The record of a call.
LEMMA RecordIs ==
    ASSUME NEW a \in Agents, NEW tool \in Tools, NEW f \in Files \union {NoFile},
           NEW text \in 1..MaxCalls, NEW state \in States
    PROVE  /\ Record(a, tool, f, text, state) \in CallRecord
           /\ Record(a, tool, f, text, state).tool = tool
           /\ Record(a, tool, f, text, state).file = f
           /\ Record(a, tool, f, text, state).text = text
           /\ Record(a, tool, f, text, state).state = state
BY DEF Record, CallRecord

\* Each action keeps what is said of the notes: first the tools,
LEMMA VaultWriteNotes ==
    ASSUME NoteInv(files, calls, process), Bounded, NEW a \in Agents, VaultWrite(a)
    PROVE  NoteInv(files', calls', process')
<1>0. FilesFit(files) /\ CallsInv(calls, process) /\ NotesInv(files, calls, process)
  BY DEF NoteInv
<1>1. PICK f \in Targets, ok \in BOOLEAN : \E text \in TextsOf(a, f) :
        /\ files' = Replaced(f, text, ok)
        /\ calls' = Call(a, "vault_write", f, text, IF ok THEN "written" ELSE "failed")
  BY DEF VaultWrite
<1>2. PICK text \in TextsOf(a, f) :
        /\ files' = Replaced(f, text, ok)
        /\ calls' = Call(a, "vault_write", f, text, IF ok THEN "written" ELSE "failed")
  BY <1>1
<1>3. process' = process /\ MayCall(a)
  BY DEF VaultWrite
<1>4. /\ text \in 1..MaxCalls /\ text <= Len(calls) + 1
      /\ \A d \in DOMAIN calls : calls[d].text = text => calls[d].state \in {"failed", "timed_out"}
  BY <1>0, <1>3, NewText
<1>5. f \in Files /\ f # NoFile
  BY TargetsFit
<1>6. PICK state \in States : state = IF ok THEN "written" ELSE "failed"
  BY DEF States
<1>7. PICK r : r = Record(a, "vault_write", f, text, state)
  OBVIOUS
<1>8. /\ r \in CallRecord /\ r.tool = "vault_write" /\ r.file = f
      /\ r.text = text /\ r.state = state
  <2>1. "vault_write" \in Tools /\ f \in Files \union {NoFile}
    BY <1>5 DEF Tools
  <2> QED BY <1>4, <1>7, <2>1, RecordIs
<1>9. NewCall(calls, r)
  BY <1>4, <1>5, <1>8 DEF NewCall, Asking
<1>10. calls' = Append(calls, r)
  BY <1>2, <1>6, <1>7 DEF Call, Record
<1>11. PICK n : n = Len(calls) + 1
  OBVIOUS
<1>12. IsAdded(calls, process, calls', process, r, n)
  <2>1. CallsPart(calls, process)
    BY <1>0 DEF CallsInv
  <2> QED BY <1>8, <1>9, <1>10, <1>11, <2>1, CallAdded
<1>13. CallsInv(calls', process)
  <2>1. AllRun(calls, process) /\ CallsPart(calls', process)
    BY <1>0, <1>12 DEF CallsInv, IsAdded
  <2>2. r.state # "running"
    BY <1>6, <1>8
  <2>3. AllRun(calls', process)
    BY <1>12, <2>1, <2>2 DEF AllRun, IsAdded
  <2> QED BY <2>1, <2>3 DEF CallsInv
<1>14. /\ n \in DOMAIN calls' /\ calls'[n] = r /\ \A d \in DOMAIN calls : n > d
       /\ Evolved(calls, process, calls', process)
       /\ NoneWroteBut(calls, process, calls', process, n)
  BY <1>12 DEF IsAdded
<1>15. CASE ok
  <2>1. files' = Put(files, f, <<text>>, TRUE)
    BY <1>2, <1>15 DEF Replaced, Holding, Put
  <2>2. FilesFit(files')
    <3>1. <<text>> \in Seq(0..MaxCalls)
      BY <1>4
    <3> QED BY <1>0, <1>5, <2>1, <3>1, PutFits
  <2>3. Wrote(calls', process, n)
    BY <1>6, <1>8, <1>12, <1>15 DEF IsAdded
  <2>4. /\ files' = Put(files, calls'[n].file, <<calls'[n].text>>, TRUE)
        /\ calls'[n].tool = "vault_write"
    BY <1>8, <1>14, <2>1
  <2>5. NotesInv(files', calls', process)
    BY <1>0, <1>14, <2>3, <2>4, NotesReplaced
  <2> QED BY <1>3, <1>13, <2>2, <2>5 DEF NoteInv
<1>16. CASE ~ok
  <2>1. files' = Put(files, f, <<>>, FALSE)
    BY <1>2, <1>16 DEF Replaced, Holding, Put
  <2>2. FilesFit(files')
    <3>1. <<>> \in Seq(0..MaxCalls)
      OBVIOUS
    <3> QED BY <1>0, <1>5, <2>1, <3>1, PutFits
  <2>3. NoneWroteBut(calls, process, calls', process, 0) /\ 0 \notin DOMAIN calls'
    BY <1>6, <1>8, <1>12, <1>16 DEF IsAdded
  <2>4. NotesInv(files', calls', process)
    BY <1>0, <1>14, <2>1, <2>3, NotesLost
  <2> QED BY <1>3, <1>13, <2>2, <2>4 DEF NoteInv
<1> QED BY <1>15, <1>16

LEMMA RefusesNotes ==
    ASSUME NoteInv(files, calls, process), Bounded, NEW a \in Agents, Refuses(a)
    PROVE  NoteInv(files', calls', process')
<1>0. FilesFit(files) /\ CallsInv(calls, process) /\ NotesInv(files, calls, process)
  BY DEF NoteInv
<1>1. PICK n : n = Len(calls) + 1
  OBVIOUS
<1>2. /\ n \in 1..MaxCalls /\ n <= Len(calls) + 1
      /\ \A d \in DOMAIN calls : calls[d].text = n => calls[d].state \in {"failed", "timed_out"}
  <2>1. n \in TextsOf(a, NoFile)
    BY <1>1 DEF TextsOf
  <2>2. MayCall(a)
    BY DEF Refuses
  <2> QED BY <1>0, <2>1, <2>2, NewText
<1>3. PICK r : r = Record(a, "vault_write", NoFile, n, "failed")
  OBVIOUS
<1>4. /\ r \in CallRecord /\ r.tool = "vault_write" /\ r.file = NoFile
      /\ r.text = n /\ r.state = "failed"
  <2>1. "vault_write" \in Tools /\ NoFile \in Files \union {NoFile} /\ "failed" \in States
    BY DEF Tools, States
  <2> QED BY <1>2, <1>3, <2>1, RecordIs
<1>5. NewCall(calls, r)
  BY <1>2, <1>4 DEF NewCall, Asking
<1>6. calls' = Append(calls, r) /\ process' = process /\ files' = files
  BY <1>1, <1>3 DEF Refuses, Call, Record
<1>7. IsAdded(calls, process, calls', process, r, n)
  <2>1. CallsPart(calls, process)
    BY <1>0 DEF CallsInv
  <2> QED BY <1>1, <1>4, <1>5, <1>6, <2>1, CallAdded
<1>8. CallsInv(calls', process)
  <2>1. AllRun(calls, process) /\ CallsPart(calls', process)
    BY <1>0, <1>7 DEF CallsInv, IsAdded
  <2>2. AllRun(calls', process)
    BY <1>4, <1>7, <2>1 DEF AllRun, IsAdded
  <2> QED BY <2>1, <2>2 DEF CallsInv
<1>9. /\ Evolved(calls, process, calls', process)
      /\ NoneWroteBut(calls, process, calls', process, 0) /\ 0 \notin DOMAIN calls'
  BY <1>4, <1>7 DEF IsAdded
<1>10. NotesInv(files, calls', process)
  BY <1>0, <1>9, NotesStay
<1> QED BY <1>0, <1>6, <1>8, <1>10 DEF NoteInv

\* A call that waits for its process.
LEMMA WaitingNotes ==
    ASSUME NoteInv(files, calls, process), Bounded, NEW a \in Agents, MayCall(a),
           NEW tool \in Tools, tool # "vault_write", NEW f,
           (tool \in Asking /\ f = NoFile) \/ (tool \notin Asking /\ f \in Targets),
           NEW text \in TextsOf(a, f), calls' = Call(a, tool, f, text, "running"),
           process' = Started, files' = files
    PROVE  NoteInv(files', calls', process')
<1>0. FilesFit(files) /\ CallsInv(calls, process) /\ NotesInv(files, calls, process)
  BY DEF NoteInv
<1>1. PICK n : n = Len(calls) + 1
  OBVIOUS
<1>2. /\ text \in 1..MaxCalls /\ text <= Len(calls) + 1
      /\ \A d \in DOMAIN calls : calls[d].text = text => calls[d].state \in {"failed", "timed_out"}
  BY <1>0, NewText
<1>3. PICK r : r = Record(a, tool, f, text, "running")
  OBVIOUS
<1>4. f \in Files \union {NoFile} /\ (tool \notin Asking => f # NoFile)
  BY TargetsFit
<1>5. /\ r \in CallRecord /\ r.tool = tool /\ r.file = f /\ r.text = text /\ r.state = "running"
  <2>1. "running" \in States
    BY DEF States
  <2> QED BY <1>2, <1>3, <1>4, <2>1, RecordIs
<1>6. NewCall(calls, r)
  BY <1>2, <1>4, <1>5 DEF NewCall, Asking
<1>7. calls' = Append(calls, r) /\ process' = StartedFor(process, n)
  BY <1>1, <1>3 DEF Call, Record, Started, StartedFor
<1>8. IsAdded(calls, process, calls', process', r, n)
  <2>1. CallsPart(calls, process)
    BY <1>0 DEF CallsInv
  <2> QED BY <1>1, <1>5, <1>6, <1>7, <2>1, CallAdded
<1>9. CallsInv(calls', process')
  <2>1. AllRun(calls, process) /\ CallsPart(calls', process')
    BY <1>0, <1>8 DEF CallsInv, IsAdded
  <2>2. DOMAIN process' = DOMAIN process \union {n}
    BY <1>7 DEF StartedFor
  <2>3. AllRun(calls', process')
    BY <1>8, <2>1, <2>2 DEF AllRun, IsAdded
  <2> QED BY <2>1, <2>3 DEF CallsInv
<1>10. /\ Evolved(calls, process, calls', process')
       /\ NoneWroteBut(calls, process, calls', process', 0) /\ 0 \notin DOMAIN calls'
  BY <1>5, <1>8 DEF IsAdded
<1>11. NotesInv(files, calls', process')
  BY <1>0, <1>10, NotesStay
<1> QED BY <1>0, <1>9, <1>11 DEF NoteInv

LEMMA AskingNotes ==
    ASSUME NoteInv(files, calls, process), Bounded, NEW a \in Agents,
           \/ ObsidianCreate(a) \/ QmdSearch(a) \/ WebSearch(a) \/ BlogScan(a) \/ RssFetch(a)
    PROVE  NoteInv(files', calls', process')
<1>1. CASE ObsidianCreate(a)
  <2>1. PICK f \in Targets, tool \in {"create", "append"} : \E text \in TextsOf(a, f) :
          calls' = Call(a, tool, f, text, "running")
    BY <1>1 DEF ObsidianCreate
  <2>2. PICK text \in TextsOf(a, f) : calls' = Call(a, tool, f, text, "running")
    BY <2>1
  <2>3. tool \in Tools /\ tool # "vault_write" /\ tool \notin Asking
    BY DEF Tools, Asking
  <2>4. MayCall(a) /\ process' = Started /\ files' = files
    BY <1>1 DEF ObsidianCreate
  <2> QED BY <2>2, <2>3, <2>4, WaitingNotes
<1>2. ASSUME NEW tool \in Asking, Asks(a, tool)
      PROVE  NoteInv(files', calls', process')
  <2>1. tool \in Tools /\ tool # "vault_write"
    BY DEF Tools, Asking
  <2>2. Len(calls) + 1 \in TextsOf(a, NoFile)
    BY DEF TextsOf
  <2>3. /\ MayCall(a) /\ process' = Started /\ files' = files
        /\ calls' = Call(a, tool, NoFile, Len(calls) + 1, "running")
    BY <1>2 DEF Asks
  <2> QED BY <2>1, <2>2, <2>3, WaitingNotes
<1> QED BY <1>1, <1>2 DEF QmdSearch, WebSearch, BlogScan, RssFetch, Asking

\* the processes, and the answers to those that wait,
LEMMA ProcessEndsNotes ==
    ASSUME NoteInv(files, calls, process), NEW c \in DOMAIN calls, ProcessEnds(c)
    PROVE  NoteInv(files', calls', process')
<1>0. FilesFit(files) /\ CallsInv(calls, process) /\ NotesInv(files, calls, process)
  BY DEF NoteInv
<1>1. c \in DOMAIN process /\ process[c] = "works" /\ calls' = calls
  BY DEF ProcessEnds
<1>2. PICK f : f = calls[c].file
  OBVIOUS
<1>3. PICK b \in Nat : b = Len(calls) /\ DOMAIN calls = 1..b /\ calls \in Seq(CallRecord)
  BY <1>0 DEF CallsInv, CallsPart
<1>4. /\ calls[c].tool \in Tools /\ f \in Files \union {NoFile} /\ calls[c].text \in 1..MaxCalls
      /\ CallFits(calls, process, c) /\ Superseded(calls)
  <2>1. calls[c] \in CallRecord
    BY <1>3
  <2> QED BY <1>0, <1>2, <2>1 DEF CallRecord, CallsInv, CallsPart
<1>5. calls[c].state # "failed" /\ calls[c].tool # "vault_write"
  BY <1>1, <1>4 DEF CallFits
<1>6. CASE process' = [process EXCEPT ![c] = "error"] /\ files' = files
  <2>1. /\ CallsInv(calls, process') /\ Evolved(calls, process, calls, process')
        /\ NoneWroteBut(calls, process, calls, process', 0)
    BY <1>0, <1>1, <1>6, ProcessDone
  <2>2. 0 \notin DOMAIN calls
    BY <1>3
  <2>3. NotesInv(files, calls, process')
    BY <1>0, <2>1, <2>2, NotesStay
  <2> QED BY <1>0, <1>1, <1>6, <2>1, <2>3 DEF NoteInv
<1>7. CASE calls[c].tool \in Asking /\ process' = [process EXCEPT ![c] = "ok"] /\ files' = files
  <2>1. /\ CallsInv(calls, process') /\ Evolved(calls, process, calls, process')
        /\ NoneWroteBut(calls, process, calls, process', 0)
    BY <1>0, <1>1, <1>7, ProcessDone
  <2>2. 0 \notin DOMAIN calls
    BY <1>3
  <2>3. NotesInv(files, calls, process')
    BY <1>0, <2>1, <2>2, NotesStay
  <2> QED BY <1>0, <1>1, <1>7, <2>1, <2>3 DEF NoteInv
<1>8. CASE /\ calls[c].tool \notin Asking /\ process' = [process EXCEPT ![c] = "ok"]
           /\ files' = IF calls[c].tool = "create" THEN Replaced(f, calls[c].text, TRUE)
                       ELSE Holding(f, Append(Before(files, f).texts, calls[c].text),
                                    Before(files, f).whole)
  <2>1. /\ CallsInv(calls, process') /\ Evolved(calls, process, calls, process')
        /\ NoneWroteBut(calls, process, calls, process', c)
        /\ Wrote(calls, process', c) /\ ~Wrote(calls, process, c)
    BY <1>0, <1>1, <1>8, ProcessDone
  <2>2. calls[c].tool \in {"create", "append"}
    BY <1>4, <1>5, <1>8 DEF Tools
  <2>3. f \in Files
    BY <1>2, <1>4, <2>2 DEF CallFits
  <2>4. CASE calls[c].tool = "create"
    <3>1. files' = Put(files, calls[c].file, <<calls[c].text>>, TRUE)
      BY <1>2, <1>8, <2>4 DEF Replaced, Holding, Put
    <3>2. FilesFit(files')
      <4>1. <<calls[c].text>> \in Seq(0..MaxCalls)
        BY <1>4
      <4> QED BY <1>0, <1>2, <2>3, <3>1, <4>1, PutFits
    <3>3. NotesInv(files', calls, process')
      BY <1>0, <2>1, <2>4, <3>1, NotesReplaced
    <3> QED BY <1>1, <2>1, <3>2, <3>3 DEF NoteInv
  <2>5. CASE calls[c].tool # "create"
    <3>1. PICK x \in 1..MaxCalls : x = calls[c].text
      BY <1>4
    <3>2. files' = Put(files, f, Append(Before(files, f).texts, x), Before(files, f).whole)
      BY <1>8, <2>5, <3>1 DEF Holding, Put
    <3>3. Before(files, f).texts \in Seq(0..MaxCalls) /\ Before(files, f).whole \in BOOLEAN
      <4>1. CASE f \in DOMAIN files
        BY <1>0, <4>1 DEF FilesFit, Before
      <4>2. CASE f \notin DOMAIN files
        <5>1. Before(files, f).texts = <<>> /\ Before(files, f).whole = TRUE
          BY <4>2 DEF Before
        <5>2. <<>> \in Seq(0..MaxCalls)
          OBVIOUS
        <5> QED BY <5>1, <5>2
      <4> QED BY <4>1, <4>2
    <3>4. FilesFit(files')
      <4>1. Append(Before(files, f).texts, x) \in Seq(0..MaxCalls)
        BY <3>3
      <4> QED BY <1>0, <2>3, <3>2, <3>3, <4>1, PutFits
    <3>5. \A g \in DOMAIN files : files[g].texts \in Seq(0..MaxCalls)
      BY <1>0 DEF FilesFit
    <3>6. \A d \in DOMAIN calls : Wrote(calls, process, d) => calls[d].state # "failed"
      BY <1>0 DEF CallsInv, CallsPart, CallFits, Wrote
    <3>7. DOMAIN calls \subseteq Nat
      BY <1>3
    <3>8. NotesInv(files', calls, process')
      BY <1>0, <1>2, <1>4, <1>5, <2>1, <3>1, <3>2, <3>5, <3>6, <3>7, NotesAppended
    <3> QED BY <1>1, <2>1, <3>4, <3>8 DEF NoteInv
  <2> QED BY <2>4, <2>5
<1> QED BY <1>2, <1>6, <1>7, <1>8 DEF ProcessEnds, Before

\* A call that ran goes on, or returns: the notes stay.
LEMMA ChangedNotes ==
    ASSUME NoteInv(files, calls, process), NEW c \in DOMAIN calls,
           AsksAgain(c) \/ Returns(c) \/ TimesOut(c)
    PROVE  NoteInv(files', calls', process')
<1>0. FilesFit(files) /\ CallsInv(calls, process) /\ NotesInv(files, calls, process)
  BY DEF NoteInv
<1>1. calls[c].state = "running" /\ files' = files
  BY DEF AsksAgain, Returns, TimesOut, Running
<1>2. PICK b \in Nat : b = Len(calls) /\ DOMAIN calls = 1..b /\ calls \in Seq(CallRecord)
  BY <1>0 DEF CallsInv, CallsPart
<1>3. PICK o \in CallRecord : o = calls[c]
  BY <1>2
<1>4. c \in DOMAIN process /\ DOMAIN process \subseteq DOMAIN calls /\ process[c] \in {"works", "ok", "error"}
  BY <1>0, <1>1 DEF CallsInv, AllRun, CallsPart
<1>5. \E r \in CallRecord :
        /\ Kept(r, calls[c]) /\ calls' = [calls EXCEPT ![c] = r]
        /\ DOMAIN process' \subseteq DOMAIN process
        /\ \A d \in DOMAIN process : d # c => d \in DOMAIN process' /\ process'[d] = process[d]
        /\ c \in DOMAIN process' => process'[c] \in {"works", "ok", "error"}
        /\ c \in DOMAIN process' => r.state \in {"running", "timed_out", "lost"}
        /\ r.state = "running" => c \in DOMAIN process'
        /\ Wrote(calls', process', c) <=> Wrote(calls, process, c)
  <2>1. CASE AsksAgain(c)
    <3>1. PICK r : r = [o EXCEPT !.tool = "ask"]
      OBVIOUS
    <3>2. /\ r \in CallRecord /\ r.tool = "ask" /\ r.file = o.file /\ r.text = o.text
          /\ r.state = o.state
      <4>1. "ask" \in Tools
        BY DEF Tools, Asking
      <4> QED BY <3>1, <4>1 DEF CallRecord
    <3>3. calls' = [calls EXCEPT ![c] = r]
      BY <1>3, <2>1, <3>1 DEF AsksAgain
    <3>4. calls[c].tool \in Asking
      BY <2>1 DEF AsksAgain, SecondFollows, Asking
    <3>5. Kept(r, calls[c])
      BY <1>3, <3>2, <3>4 DEF Kept, Asking
    <3>6. calls'[c] = r
      BY <1>2, <3>2, <3>3
    <3>7. ~Wrote(calls', process', c) /\ ~Wrote(calls, process, c)
      BY <3>2, <3>4, <3>6 DEF Wrote, Asking
    <3>8. /\ DOMAIN process' = DOMAIN process /\ process'[c] = "works"
          /\ \A d \in DOMAIN process : d # c => process'[d] = process[d]
      BY <1>4, <2>1 DEF AsksAgain
    <3> QED BY <1>1, <1>3, <1>4, <3>2, <3>3, <3>5, <3>7, <3>8
  <2>2. CASE Returns(c)
    <3>1. PICK state : state = Report(c)
      OBVIOUS
    <3>2. /\ state \in {"answered", "written", "failed"}
          /\ calls[c].tool \notin Asking => (state = "written" <=> process[c] = "ok")
      BY <3>1 DEF Report
    <3>3. PICK r : r = [o EXCEPT !.state = state]
      OBVIOUS
    <3>4. /\ r \in CallRecord /\ r.tool = o.tool /\ r.file = o.file /\ r.text = o.text
          /\ r.state = state
      <4>1. state \in States
        BY <3>2 DEF States
      <4> QED BY <3>3, <4>1 DEF CallRecord
    <3>5. calls' = [calls EXCEPT ![c] = r]
      BY <1>3, <2>2, <3>1, <3>3 DEF Returns
    <3>6. Kept(r, calls[c])
      BY <1>1, <1>3, <3>4 DEF Kept
    <3>7. calls'[c] = r
      BY <1>2, <3>4, <3>5
    <3>8. /\ DOMAIN process' = DOMAIN process \ {c}
          /\ \A d \in DOMAIN process : d # c => process'[d] = process[d]
      BY <2>2 DEF Returns
    <3>9. Wrote(calls', process', c) <=> Wrote(calls, process, c)
      BY <1>1, <1>3, <1>4, <3>2, <3>4, <3>7, <3>8 DEF Wrote
    <3> QED BY <3>2, <3>4, <3>5, <3>6, <3>8, <3>9
  <2>3. CASE TimesOut(c)
    <3>1. PICK state : state = IF calls[c].tool \in Asking THEN "answered" ELSE "timed_out"
      OBVIOUS
    <3>2. PICK r : r = [o EXCEPT !.state = state]
      OBVIOUS
    <3>3. /\ r \in CallRecord /\ r.tool = o.tool /\ r.file = o.file /\ r.text = o.text
          /\ r.state = state
      <4>1. state \in States
        BY <3>1 DEF States
      <4> QED BY <3>2, <4>1 DEF CallRecord
    <3>4. calls' = [calls EXCEPT ![c] = r]
      BY <1>3, <2>3, <3>1, <3>2 DEF TimesOut
    <3>5. Kept(r, calls[c])
      BY <1>1, <1>3, <3>3 DEF Kept
    <3>6. calls'[c] = r
      BY <1>2, <3>3, <3>4
    <3>7. process[c] = "works"
      BY <2>3 DEF TimesOut
    <3>8. CASE calls[c].tool \in Asking
      <4>1. /\ DOMAIN process' = DOMAIN process \ {c}
            /\ \A d \in DOMAIN process : d # c => process'[d] = process[d]
        BY <2>3, <3>8 DEF TimesOut
      <4>2. ~Wrote(calls', process', c) /\ ~Wrote(calls, process, c)
        BY <1>3, <3>3, <3>6, <3>8 DEF Wrote
      <4>3. state = "answered"
        BY <3>1, <3>8
      <4> QED BY <3>3, <3>4, <3>5, <4>1, <4>2, <4>3
    <3>9. CASE calls[c].tool \notin Asking
      <4>1. process' = process
        BY <2>3, <3>9 DEF TimesOut
      <4>2. state = "timed_out"
        BY <3>1, <3>9
      <4>3. ~Wrote(calls', process', c) /\ ~Wrote(calls, process, c)
        BY <1>1, <3>3, <3>6, <3>7, <4>1, <4>2 DEF Wrote
      <4> QED BY <1>4, <3>3, <3>4, <3>5, <4>1, <4>2, <4>3
    <3> QED BY <3>8, <3>9
  <2> QED BY <2>1, <2>2, <2>3
<1>6. /\ CallsInv(calls', process') /\ Evolved(calls, process, calls', process')
      /\ NoneWroteBut(calls, process, calls', process', 0) /\ 0 \notin DOMAIN calls'
  <2>1. PICK r \in CallRecord :
        /\ Kept(r, calls[c]) /\ calls' = [calls EXCEPT ![c] = r]
        /\ DOMAIN process' \subseteq DOMAIN process
        /\ \A d \in DOMAIN process : d # c => d \in DOMAIN process' /\ process'[d] = process[d]
        /\ c \in DOMAIN process' => process'[c] \in {"works", "ok", "error"}
        /\ c \in DOMAIN process' => r.state \in {"running", "timed_out", "lost"}
        /\ r.state = "running" => c \in DOMAIN process'
        /\ Wrote(calls', process', c) <=> Wrote(calls, process, c)
    BY <1>5
  <2>2. 0 \notin DOMAIN calls'
    BY <1>2, <2>1
  <2>3. /\ CallsInv(calls', process') /\ Evolved(calls, process, calls', process')
        /\ NoneWroteBut(calls, process, calls', process', 0)
    BY <1>0, <1>1, <2>1, CallChanged, Zenon
  <2> QED BY <2>2, <2>3
<1>7. NotesInv(files, calls', process')
  BY <1>0, <1>6, NotesStay
<1> QED BY <1>0, <1>1, <1>6, <1>7 DEF NoteInv

\* Two steps in a row in which nobody writes.
LEMMA NoneWroteOn ==
    ASSUME NEW cs, NEW ps, NEW ds, NEW es, NoneWroteBut(cs, ps, ds, ps, 0),
           NoneWroteBut(ds, ps, es, ps, 0), 0 \notin DOMAIN ds, 0 \notin DOMAIN es
    PROVE  NoneWroteBut(cs, ps, es, ps, 0)
BY DEF NoneWroteBut

\* a crash of the server, and the scripts.
LEMMA ServerDiesNotes ==
    ASSUME NoteInv(files, calls, process), Bounded, ServerDies
    PROVE  NoteInv(files', calls', process')
<1>0. FilesFit(files) /\ CallsInv(calls, process) /\ NotesInv(files, calls, process)
  BY DEF NoteInv
<1>1. process' = process
  BY DEF ServerDies
<1>2. PICK b \in Nat : b = Len(calls) /\ DOMAIN calls = 1..b
  BY <1>0 DEF CallsInv, CallsPart
<1>3. CASE calls' = Forgotten(calls) /\ files' = files
  <2>1. /\ CallsInv(calls', process) /\ Evolved(calls, process, calls', process)
        /\ NoneWroteBut(calls, process, calls', process, 0)
    BY <1>0, <1>3, CallsForgotten DEF CallsInv
  <2>2. 0 \notin DOMAIN calls'
    BY <1>2, <1>3 DEF Forgotten
  <2>3. NotesInv(files, calls', process)
    BY <1>0, <2>1, <2>2, NotesStay
  <2> QED BY <1>0, <1>1, <1>3, <2>1, <2>3 DEF NoteInv
<1>4. ASSUME NEW a \in Agents, NEW f \in Targets, MayCall(a),
             files' = Replaced(f, Len(calls) + 1, FALSE),
             calls' = Forgotten(Call(a, "vault_write", f, Len(calls) + 1, "running"))
      PROVE  NoteInv(files', calls', process')
  <2>1. PICK n : n = Len(calls) + 1
    OBVIOUS
  <2>2. /\ n \in 1..MaxCalls /\ n <= Len(calls) + 1
        /\ \A d \in DOMAIN calls : calls[d].text = n => calls[d].state \in {"failed", "timed_out"}
    <3>1. n \in TextsOf(a, f)
      BY <2>1 DEF TextsOf
    <3> QED BY <1>0, <1>4, <3>1, NewText
  <2>3. PICK r : r = Record(a, "vault_write", f, n, "running")
    OBVIOUS
  <2>4. f \in Files
    BY TargetsFit
  <2>5. /\ r \in CallRecord /\ r.tool = "vault_write" /\ r.file = f
        /\ r.text = n /\ r.state = "running"
    <3>1. "vault_write" \in Tools /\ f \in Files \union {NoFile} /\ "running" \in States
      BY <2>4 DEF Tools, States
    <3> QED BY <2>2, <2>3, <3>1, RecordIs
  <2>6. NewCall(calls, r)
    BY <2>2, <2>5 DEF NewCall, Asking
  <2>7. PICK ds : ds = Append(calls, r)
    OBVIOUS
  <2>8. calls' = Forgotten(ds)
    BY <1>4, <2>1, <2>3, <2>7 DEF Call, Record
  <2>9. IsAdded(calls, process, ds, process, r, n)
    <3>1. CallsPart(calls, process)
      BY <1>0 DEF CallsInv
    <3> QED BY <2>1, <2>5, <2>6, <2>7, <3>1, CallAdded
  <2>10. /\ CallsPart(ds, process) /\ Evolved(calls, process, ds, process)
         /\ NoneWroteBut(calls, process, ds, process, 0) /\ 0 \notin DOMAIN ds
    BY <2>5, <2>9 DEF IsAdded
  <2>11. /\ CallsInv(calls', process) /\ Evolved(ds, process, calls', process)
         /\ NoneWroteBut(ds, process, calls', process, 0)
    BY <2>8, <2>10, CallsForgotten
  <2>12. 0 \notin DOMAIN calls'
    BY <2>8, <2>10 DEF Forgotten
  <2>13. Evolved(calls, process, calls', process)
    BY <2>10, <2>11, EvolvedOn
  <2>14. NoneWroteBut(calls, process, calls', process, 0)
    BY <2>10, <2>11, <2>12, NoneWroteOn
  <2>15. files' = Put(files, f, <<>>, FALSE)
    BY <1>4 DEF Replaced, Holding, Put
  <2>16. FilesFit(files')
    <3>1. <<>> \in Seq(0..MaxCalls)
      OBVIOUS
    <3> QED BY <1>0, <2>4, <2>15, <3>1, PutFits
  <2>17. NotesInv(files', calls', process)
    BY <1>0, <2>12, <2>13, <2>14, <2>15, NotesLost
  <2> QED BY <1>1, <2>11, <2>16, <2>17 DEF NoteInv
<1> QED BY <1>3, <1>4 DEF ServerDies

\* The scripts write over notes, in whole or torn.
LEMMA ScriptsNotes ==
    ASSUME NoteInv(files, calls, process), seeder.state # "off" => seeder.next \in DOMAIN SeedTerms,
           Scripts
    PROVE  NoteInv(files', calls', process')
<1>0. FilesFit(files) /\ CallsInv(calls, process) /\ NotesInv(files, calls, process)
  BY DEF NoteInv
<1>1. calls' = calls /\ process' = process
  BY DEF Scripts, SeedingStarts, SeedChecks, SeedWrites, SeederDies, SeedOther, noteVars
<1>2. 0 \notin DOMAIN calls
  <2>1. calls \in Seq(CallRecord)
    BY <1>0 DEF CallsInv, CallsPart
  <2> QED BY <2>1
<1>3. Evolved(calls, process, calls, process) /\ NoneWroteBut(calls, process, calls, process, 0)
  BY EvolvedSame
<1>4. ASSUME NEW f \in Files, NEW whole \in BOOLEAN, files' = Replaced(f, SeedText, whole)
      PROVE  NoteInv(files', calls', process')
  <2>1. PICK texts : texts = IF whole THEN <<SeedText>> ELSE <<>>
    OBVIOUS
  <2>2. files' = Put(files, f, texts, whole)
    BY <1>4, <2>1 DEF Replaced, Holding, Put
  <2>3. texts \in Seq(0..MaxCalls)
    <3>1. 0 \in 0..MaxCalls
      BY KnowledgeAssumption
    <3>2. <<SeedText>> \in Seq(0..MaxCalls) /\ <<>> \in Seq(0..MaxCalls)
      BY <3>1 DEF SeedText
    <3> QED BY <2>1, <3>2
  <2>4. FilesFit(files')
    BY <1>0, <1>4, <2>2, <2>3, PutFits
  <2>5. (texts = <<>> /\ ~whole) \/ texts = <<SeedText>>
    BY <2>1
  <2>6. NotesInv(files', calls, process)
    BY <1>0, <1>2, <1>3, <2>2, <2>5, NotesLost
  <2> QED BY <1>0, <1>1, <2>4, <2>6 DEF NoteInv
<1>5. CASE files' = files
  BY <1>0, <1>1, <1>5 DEF NoteInv
<1>6. CASE seeder.state = "writing" /\ \E whole \in BOOLEAN :
             files' = Replaced(TermFile(SeedTerms[seeder.next]), SeedText, whole)
  <2>1. TermFile(SeedTerms[seeder.next]) \in Files
    BY <1>6, SeedFits
  <2> QED BY <1>4, <1>6, <2>1
<1>7. CASE SeedOther
  <2>1. PICK n \in SeedOthers : \E f \in FilesOf(n[1], n[2]) : files' = Replaced(f, SeedText, TRUE)
    BY <1>7 DEF SeedOther
  <2>2. PICK f \in FilesOf(n[1], n[2]) : files' = Replaced(f, SeedText, TRUE)
    BY <2>1
  <2> QED BY <1>4, <2>2, OthersFit
<1> QED BY <1>5, <1>6, <1>7 DEF Scripts, SeedingStarts, SeedChecks, SeedWrites, SeederDies, noteVars
-----------------------------------------------------------------------------
(* The seeding.                                                            *)

SeedNote(i) == TermFile(SeedTerms[i])

\* What the seeding has passed is there; what it is about to write, only if an agent
\* has come between.
SeedInv ==
    /\ seeder \in Seeder
    /\ seeder.state # "off" => seeder.next \in DOMAIN SeedTerms
    /\ \A i \in DOMAIN SeedTerms : i < seeder.next => SeedNote(i) \in DOMAIN files
    /\ seeder.state = "writing" /\ SeedNote(seeder.next) \in DOMAIN files => seeder.raced

\* A write of an agent, or of a process of its.
AgentWrites(f, texts, whole) ==
    /\ files' = Put(files, f, texts, whole) /\ seeder' = Raced(f)
    /\ texts # <<SeedText>>

\* Only the scripts write a note without its being seen, or with their own text only.
LEMMA AgentsWrite ==
    ASSUME NoteInv(files, calls, process), Bounded,
           \/ \E a \in Agents : ToolActs(a)
           \/ \E c \in DOMAIN calls : ProcessActs(c)
           \/ ServerDies
    PROVE  \/ files' = files /\ seeder' = seeder
           \/ \E f, texts, whole : AgentWrites(f, texts, whole)
<1>0. CallsInv(calls, process) /\ FilesFit(files)
  BY DEF NoteInv
<1>1. ASSUME NEW a \in Agents, VaultWrite(a)
      PROVE  \E f, texts, whole : AgentWrites(f, texts, whole)
  <2>1. PICK f \in Targets, ok \in BOOLEAN : \E text \in TextsOf(a, f) :
          files' = Replaced(f, text, ok) /\ seeder' = Raced(f)
    BY <1>1 DEF VaultWrite
  <2>2. PICK text \in TextsOf(a, f) : files' = Replaced(f, text, ok) /\ seeder' = Raced(f)
    BY <2>1
  <2>3. text \in 1..MaxCalls
    BY <1>0, <1>1, NewText DEF VaultWrite
  <2>4. PICK texts : texts = IF ok THEN <<text>> ELSE <<>>
    OBVIOUS
  <2>5. texts # <<SeedText>>
    BY <2>3, <2>4 DEF SeedText
  <2>6. files' = Put(files, f, texts, ok)
    BY <2>2, <2>4 DEF Replaced, Holding, Put
  <2> QED BY <2>2, <2>5, <2>6 DEF AgentWrites
<1>2. ASSUME NEW c \in DOMAIN calls, ProcessEnds(c)
      PROVE  \/ files' = files /\ seeder' = seeder
             \/ \E f, texts, whole : AgentWrites(f, texts, whole)
  <2>1. PICK f : f = calls[c].file
    OBVIOUS
  <2>2. calls[c].text \in 1..MaxCalls
    <3>1. calls[c] \in CallRecord
      BY <1>0 DEF CallsInv, CallsPart
    <3> QED BY <3>1 DEF CallRecord
  <2>3. \/ files' = files /\ seeder' = seeder
        \/ /\ seeder' = Raced(f)
           /\ \/ files' = Replaced(f, calls[c].text, TRUE)
              \/ files' = Holding(f, Append(Before(files, f).texts, calls[c].text),
                                  Before(files, f).whole)
    BY <1>2, <2>1 DEF ProcessEnds, Before
  <2>4. CASE files' = Replaced(f, calls[c].text, TRUE) /\ seeder' = Raced(f)
    <3>1. files' = Put(files, f, <<calls[c].text>>, TRUE)
      BY <2>4 DEF Replaced, Holding, Put
    <3>2. <<calls[c].text>> # <<SeedText>>
      BY <2>2 DEF SeedText
    <3> QED BY <2>4, <3>1, <3>2 DEF AgentWrites
  <2>5. CASE /\ files' = Holding(f, Append(Before(files, f).texts, calls[c].text),
                                 Before(files, f).whole)
             /\ seeder' = Raced(f)
    <3>1. PICK texts : texts = Append(Before(files, f).texts, calls[c].text)
      OBVIOUS
    <3>2. files' = Put(files, f, texts, Before(files, f).whole)
      BY <2>5, <3>1 DEF Holding, Put
    <3>3. Before(files, f).texts \in Seq(0..MaxCalls)
      <4>1. CASE f \in DOMAIN files
        BY <1>0, <4>1 DEF FilesFit, Before
      <4>2. CASE f \notin DOMAIN files
        <5>1. Before(files, f).texts = <<>> /\ <<>> \in Seq(0..MaxCalls)
          BY <4>2 DEF Before
        <5> QED BY <5>1
      <4> QED BY <4>1, <4>2
    <3>4. texts # <<SeedText>>
      <4>1. PICK old \in Seq(0..MaxCalls) : old = Before(files, f).texts
        BY <3>3
      <4>2. texts[Len(old) + 1] \in 1..MaxCalls /\ Len(texts) = Len(old) + 1
        BY <2>2, <3>1, <4>1
      <4>3. PICK one : one = <<SeedText>> /\ Len(one) = 1 /\ one[1] = 0
        <5>1. Len(<<SeedText>>) = 1 /\ <<SeedText>>[1] = 0
          BY DEF SeedText
        <5> QED BY <5>1
      <4>4. texts # one
        BY <4>1, <4>2, <4>3
      <4> QED BY <4>3, <4>4
    <3> QED BY <2>5, <3>2, <3>4 DEF AgentWrites
  <2> QED BY <2>3, <2>4, <2>5
<1>3. ASSUME NEW f \in Targets, files' = Replaced(f, Len(calls) + 1, FALSE), seeder' = Raced(f)
      PROVE  \E g, texts, whole : AgentWrites(g, texts, whole)
  <2>1. files' = Put(files, f, <<>>, FALSE) /\ <<>> # <<SeedText>>
    BY <1>3 DEF Replaced, Holding, Put
  <2> QED BY <1>3, <2>1 DEF AgentWrites
<1>4. CASE ServerDies
  BY <1>3, <1>4 DEF ServerDies
<1>5. ASSUME NEW c \in DOMAIN calls, AsksAgain(c) \/ Returns(c) \/ TimesOut(c)
      PROVE  files' = files /\ seeder' = seeder
  BY <1>5 DEF AsksAgain, Returns, TimesOut
<1>6. ASSUME NEW a \in Agents,
             \/ Refuses(a) \/ ObsidianCreate(a) \/ QmdSearch(a) \/ WebSearch(a)
             \/ BlogScan(a) \/ RssFetch(a) \/ \E t \in Terms : TermFeedback(a, t)
      PROVE  files' = files /\ seeder' = seeder
  BY <1>6 DEF Refuses, ObsidianCreate, QmdSearch, WebSearch, BlogScan, RssFetch, Asks,
              TermFeedback, noteVars
<1> QED BY <1>1, <1>2, <1>4, <1>5, <1>6 DEF ToolActs, ProcessActs

\* Only the flag of the race changes, and it is never taken back.
LEMMA RacedIs ==
    ASSUME seeder \in Seeder, NEW f, NEW s, s = Raced(f)
    PROVE  /\ s \in Seeder /\ s.state = seeder.state /\ s.next = seeder.next
           /\ seeder.raced => s.raced
           /\ seeder.state = "writing" /\ f = SeedNote(seeder.next) => s.raced
<1>1. PICK v \in BOOLEAN :
        v <=> (seeder.raced \/ (seeder.state = "writing" /\ f = TermFile(SeedTerms[seeder.next])))
  OBVIOUS
<1>2. s = [seeder EXCEPT !.raced = v]
  BY <1>1 DEF Raced, Seeder
<1>3. s \in Seeder /\ s.state = seeder.state /\ s.next = seeder.next /\ s.raced = v
  BY <1>2 DEF Seeder
<1> QED BY <1>1, <1>3 DEF SeedNote

\* What agents write leaves the notes that the seeding has passed.
LEMMA AgentsSeed ==
    ASSUME SeedInv, \/ files' = files /\ seeder' = seeder
                    \/ \E f, texts, whole : AgentWrites(f, texts, whole)
    PROVE  SeedInv'
<1>1. CASE files' = files /\ seeder' = seeder
  BY <1>1 DEF SeedInv
<1>2. ASSUME NEW f, NEW texts, NEW whole, AgentWrites(f, texts, whole)
      PROVE  SeedInv'
  <2>1. DOMAIN files' = DOMAIN files \union {f}
    BY <1>2 DEF AgentWrites, Put
  <2>2. /\ seeder' \in Seeder /\ seeder'.state = seeder.state /\ seeder'.next = seeder.next
        /\ seeder.raced => seeder'.raced
        /\ seeder.state = "writing" /\ f = SeedNote(seeder.next) => seeder'.raced
    BY <1>2, RacedIs DEF AgentWrites, SeedInv
  <2>3. seeder'.state = "writing" /\ SeedNote(seeder'.next) \in DOMAIN files' => seeder'.raced
    BY <2>1, <2>2 DEF SeedInv
  <2> QED BY <2>1, <2>2, <2>3 DEF SeedInv
<1> QED BY <1>1, <1>2

Moved(s, state, next) == [s EXCEPT !.state = state, !.next = next]

\* The seeder with another state and place.
LEMMA MovedIs ==
    ASSUME NEW s \in Seeder, NEW state \in {"off", "checking", "writing"},
           NEW next \in 1..(Len(SeedTerms) + 1)
    PROVE  /\ Moved(s, state, next) \in Seeder
           /\ Moved(s, state, next).state = state /\ Moved(s, state, next).next = next
<1>1. PICK p : p = [s EXCEPT !.state = state]
  OBVIOUS
<1>2. p \in Seeder /\ p.state = state
  BY <1>1 DEF Seeder
<1>3. PICK q : q = [p EXCEPT !.next = next]
  OBVIOUS
<1>4. q \in Seeder /\ q.state = state /\ q.next = next
  BY <1>2, <1>3 DEF Seeder
<1>5. q = Moved(s, state, next)
  BY <1>1, <1>3 DEF Moved
<1> QED BY <1>4, <1>5

\* The seeding goes on, and knows of what it is about to write that it is not there.
LEMMA ScriptsSeed ==
    ASSUME SeedInv, Scripts
    PROVE  SeedInv'
<1>0. PICK b \in Nat \ {0} : b = Len(SeedTerms) /\ DOMAIN SeedTerms = 1..b
  <2>1. SeedTerms \in Seq(DOMAIN SlugOf) /\ SeedTerms # <<>>
    BY KnowledgeAssumption
  <2> QED BY <2>1
<1>1. PICK n \in 1..(b + 1) : n = seeder.next
  BY <1>0 DEF SeedInv, Seeder
<1>2. seeder \in Seeder /\ Seeder = [state : {"off", "checking", "writing"}, next : 1..(b + 1), raced : BOOLEAN]
  BY <1>0 DEF SeedInv, Seeder
<1>3. \A i \in 1..b : i < n => SeedNote(i) \in DOMAIN files
  BY <1>0, <1>1 DEF SeedInv
<1>4. CASE SeedingStarts
  <2>1. /\ seeder' \in Seeder /\ seeder'.state = "checking" /\ seeder'.next = 1 /\ files' = files
    BY <1>2, <1>4 DEF SeedingStarts, noteVars
  <2> QED BY <1>0, <2>1 DEF SeedInv
<1>5. ASSUME n \in 1..b, seeder' = NextSeed, DOMAIN files \subseteq DOMAIN files',
             SeedNote(n) \in DOMAIN files'
      PROVE  SeedInv'
  <2>1. /\ seeder' \in Seeder /\ seeder'.next = n + 1
        /\ seeder'.state = (IF n = b THEN "off" ELSE "checking")
    <3>1. CASE n = b
      <4>1. seeder' = [seeder EXCEPT !.state = "off", !.next = @ + 1]
        BY <1>0, <1>1, <1>5, <3>1 DEF NextSeed
      <4>2. seeder' = Moved(seeder, "off", n + 1)
        BY <1>1, <4>1 DEF Moved
      <4>3. n + 1 \in 1..(Len(SeedTerms) + 1)
        BY <1>0, <1>5
      <4> QED BY <1>2, <3>1, <4>2, <4>3, MovedIs
    <3>2. CASE n # b
      <4>1. seeder' = [seeder EXCEPT !.state = "checking", !.next = @ + 1]
        BY <1>0, <1>1, <1>5, <3>2 DEF NextSeed
      <4>2. seeder' = Moved(seeder, "checking", n + 1)
        BY <1>1, <4>1 DEF Moved
      <4>3. n + 1 \in 1..(Len(SeedTerms) + 1)
        BY <1>0, <1>5
      <4> QED BY <1>2, <3>2, <4>2, <4>3, MovedIs
    <3> QED BY <3>1, <3>2
  <2>2. seeder'.state # "writing" /\ (seeder'.state # "off" => n + 1 \in 1..b)
    BY <1>5, <2>1
  <2>3. \A i \in 1..b : i < n + 1 => SeedNote(i) \in DOMAIN files'
    <3>1. \A i \in 1..b : i < n + 1 => i < n \/ i = n
      OBVIOUS
    <3> QED BY <1>3, <1>5, <3>1
  <2> QED BY <1>0, <2>1, <2>2, <2>3 DEF SeedInv
<1>6. CASE SeedChecks
  <2>1. n \in 1..b /\ files' = files /\ seeder.state = "checking"
    BY <1>0, <1>1, <1>6 DEF SeedChecks, SeedInv, noteVars
  <2>2. CASE SeedNote(n) \in DOMAIN files
    <3>1. seeder' = NextSeed
      BY <1>1, <1>6, <2>2 DEF SeedChecks, Exists, SeedNote
    <3> QED BY <1>5, <2>1, <2>2, <3>1
  <2>3. CASE SeedNote(n) \notin DOMAIN files
    <3>1. seeder' = [seeder EXCEPT !.state = "writing", !.raced = FALSE]
      BY <1>1, <1>6, <2>3 DEF SeedChecks, Exists, SeedNote
    <3>2. seeder' \in Seeder /\ seeder'.state = "writing" /\ seeder'.next = n
      BY <1>1, <1>2, <3>1
    <3> QED BY <1>0, <1>3, <2>1, <2>3, <3>2 DEF SeedInv
  <2> QED BY <2>2, <2>3
<1>7. CASE SeedWrites
  <2>1. n \in 1..b /\ seeder' = NextSeed
    BY <1>0, <1>1, <1>7 DEF SeedWrites, SeedInv
  <2>2. DOMAIN files' = DOMAIN files \union {SeedNote(n)}
    BY <1>1, <1>7 DEF SeedWrites, Replaced, Holding, SeedNote
  <2> QED BY <1>5, <2>1, <2>2
<1>8. CASE SeederDies
  <2>1. seeder' = [seeder EXCEPT !.state = "off", !.next = 1]
    BY <1>8 DEF SeederDies
  <2>2. seeder' \in Seeder /\ seeder'.state = "off" /\ seeder'.next = 1
    <3>1. seeder' = Moved(seeder, "off", 1)
      BY <2>1 DEF Moved
    <3>2. 1 \in 1..(Len(SeedTerms) + 1)
      BY <1>0
    <3> QED BY <1>2, <3>1, <3>2, MovedIs
  <2>3. \A i \in 1..b : ~(i < 1)
    OBVIOUS
  <2> QED BY <1>0, <2>2, <2>3 DEF SeedInv
<1>9. CASE SeedOther
  <2>1. PICK k \in SeedOthers : \E f \in FilesOf(k[1], k[2]) : files' = Replaced(f, SeedText, TRUE)
    BY <1>9 DEF SeedOther
  <2>2. PICK f \in FilesOf(k[1], k[2]) : files' = Replaced(f, SeedText, TRUE)
    BY <2>1
  <2>3. f[1] # "terms" /\ DOMAIN files' = DOMAIN files \union {f} /\ seeder' = seeder
    BY <1>9, <2>2, OthersFit DEF Replaced, Holding, SeedOther
  <2>4. SeedNote(seeder.next) # f
    <3>1. SeedNote(seeder.next)[1] = "terms"
      BY DEF SeedNote, TermFile
    <3> QED BY <2>3, <3>1
  <2> QED BY <2>3, <2>4 DEF SeedInv
<1> QED BY <1>4, <1>6, <1>7, <1>8, <1>9 DEF Scripts
-----------------------------------------------------------------------------
(* The counters of the feedback, and the bounds.                           *)

Row(rs, t) == IF t \in DOMAIN rs THEN rs[t] ELSE 0

\* Every feedback that was confirmed is counted, and none that was not begun.
FeedbackInv ==
    /\ DOMAIN rows \subseteq Terms /\ \A t \in DOMAIN rows : rows[t] \in Nat
    /\ uses \in [Terms -> [told : Nat, begun : Nat]]
    /\ \A t \in Terms : uses[t].told <= Row(rows, t) /\ Row(rows, t) <= uses[t].begun

\* A row that is made counts nothing yet; a bump counts one.
LEMMA RowsAre ==
    ASSUME FeedbackInv, NEW t \in Terms, NEW rs, NEW v \in {0, 1},
           \/ v = 0 /\ rs \in {rows, WithRow(t)}
           \/ v = 1 /\ rs = Bumped(t)
    PROVE  /\ DOMAIN rs \subseteq Terms /\ \A u \in DOMAIN rs : rs[u] \in Nat
           /\ \A u \in Terms : u # t => Row(rs, u) = Row(rows, u)
           /\ Row(rs, t) = Row(rows, t) + v
<1>0. DOMAIN rows \subseteq Terms /\ \A u \in DOMAIN rows : rows[u] \in Nat
  BY DEF FeedbackInv
<1>1. PICK w : w = WithRow(t)
  OBVIOUS
<1>2. /\ DOMAIN w = DOMAIN rows \union {t}
      /\ \A u \in DOMAIN rows : w[u] = rows[u]
      /\ t \notin DOMAIN rows => w[t] = 0
  BY <1>1 DEF WithRow
<1>3. /\ DOMAIN w \subseteq Terms /\ \A u \in DOMAIN w : w[u] \in Nat
      /\ \A u \in Terms : Row(w, u) = Row(rows, u)
  BY <1>0, <1>2 DEF Row
<1>4. Row(rows, t) \in Nat
  BY <1>0 DEF Row
<1>5. CASE v = 0
  BY <1>0, <1>1, <1>3, <1>4, <1>5
<1>6. CASE v = 1
  <2>1. rs = [w EXCEPT ![t] = @ + 1]
    BY <1>1, <1>6 DEF Bumped
  <2>2. /\ DOMAIN rs = DOMAIN w /\ rs[t] = w[t] + 1 /\ t \in DOMAIN w
        /\ \A u \in DOMAIN w : u # t => rs[u] = w[u]
    BY <1>2, <2>1
  <2>3. /\ DOMAIN rs \subseteq Terms /\ \A u \in DOMAIN rs : rs[u] \in Nat
        /\ \A u \in Terms : u # t => Row(rs, u) = Row(w, u)
    BY <1>3, <2>2 DEF Row
  <2>4. Row(rs, t) = Row(w, t) + 1
    BY <1>3, <2>2 DEF Row
  <2> QED BY <1>3, <1>6, <2>3, <2>4
<1> QED BY <1>5, <1>6

\* One more call for a term has begun, and v of them were confirmed.
Used(t, v) == [uses EXCEPT ![t] = [told |-> uses[t].told + v, begun |-> uses[t].begun + 1]]

\* What the calls of a term have come to: no more is told than was counted.
LEMMA UsesGrow ==
    ASSUME FeedbackInv, NEW t \in Terms, NEW v \in {0, 1}, NEW w \in {0, 1}, v <= w,
           uses' = Used(t, v),
           \/ w = 0 /\ rows' \in {rows, WithRow(t)}
           \/ w = 1 /\ rows' = Bumped(t)
    PROVE  FeedbackInv'
<1>1. /\ DOMAIN rows' \subseteq Terms /\ \A u \in DOMAIN rows' : rows'[u] \in Nat
      /\ \A u \in Terms : u # t => Row(rows', u) = Row(rows, u)
      /\ Row(rows', t) = Row(rows, t) + w
  BY RowsAre
<1>2. PICK o : o = uses[t]
  OBVIOUS
<1>3. o.told \in Nat /\ o.begun \in Nat /\ o.told <= Row(rows, t) /\ Row(rows, t) <= o.begun
  BY <1>2 DEF FeedbackInv
<1>4. PICK n : n = [told |-> o.told + v, begun |-> o.begun + 1]
  OBVIOUS
<1>5. /\ n \in [told : Nat, begun : Nat] /\ n.told = o.told + v /\ n.begun = o.begun + 1
  BY <1>3, <1>4
<1>6. uses' = [uses EXCEPT ![t] = n]
  BY <1>2, <1>4 DEF Used
<1>7. /\ uses' \in [Terms -> [told : Nat, begun : Nat]] /\ uses'[t] = n
      /\ \A u \in Terms : u # t => uses'[u] = uses[u]
  BY <1>5, <1>6 DEF FeedbackInv
<1>8. Row(rows, t) \in Nat
  BY DEF Row, FeedbackInv
<1>9. uses'[t].told <= Row(rows', t) /\ Row(rows', t) <= uses'[t].begun
  BY <1>1, <1>3, <1>5, <1>7, <1>8
<1>10. \A u \in Terms : uses'[u].told <= Row(rows', u) /\ Row(rows', u) <= uses'[u].begun
  BY <1>1, <1>7, <1>9 DEF FeedbackInv
<1> QED BY <1>1, <1>7, <1>10 DEF FeedbackInv

\* Only term_feedback, whole or interrupted, touches the counters.
LEMMA FeedbackStep ==
    ASSUME FeedbackInv, Next
    PROVE  FeedbackInv'
<1>1. CASE UNCHANGED feedbackVars
  BY <1>1 DEF feedbackVars, FeedbackInv
<1>2. ASSUME NEW t \in Terms, rows' = Bumped(t),
             uses' = [uses EXCEPT ![t] = [told |-> @.told + 1, begun |-> @.begun + 1]]
      PROVE  FeedbackInv'
  <2>1. uses' = Used(t, 1)
    BY <1>2 DEF Used
  <2>2. 1 \in {0, 1} /\ 1 <= 1
    OBVIOUS
  <2> QED BY <1>2, <2>1, <2>2, UsesGrow
<1>3. ASSUME NEW t \in Terms, rows' \in {rows, WithRow(t), Bumped(t)},
             uses' = [uses EXCEPT ![t].begun = @ + 1]
      PROVE  FeedbackInv'
  <2>1. uses' = Used(t, 0)
    <3>1. PICK o : o = uses[t]
      OBVIOUS
    <3>2. o \in [told : Nat, begun : Nat]
      BY <3>1 DEF FeedbackInv
    <3>3. [o EXCEPT !.begun = @ + 1] = [told |-> o.told + 0, begun |-> o.begun + 1]
      BY <3>2
    <3>4. uses' = [uses EXCEPT ![t] = [o EXCEPT !.begun = @ + 1]]
      BY <1>3, <3>1
    <3> QED BY <3>1, <3>3, <3>4 DEF Used
  <2>0. 0 \in {0, 1} /\ 1 \in {0, 1} /\ 0 <= 0 /\ 0 <= 1
    OBVIOUS
  <2>2. CASE rows' \in {rows, WithRow(t)}
    BY <2>0, <2>1, <2>2, UsesGrow
  <2>3. CASE rows' = Bumped(t)
    BY <2>0, <2>1, <2>3, UsesGrow
  <2> QED BY <1>3, <2>2, <2>3
<1>4. ASSUME NEW a \in Agents, NEW t \in Terms, TermFeedback(a, t)
      PROVE  FeedbackInv'
  BY <1>2, <1>3, <1>4 DEF TermFeedback
<1>5. CASE ServerDies
  BY <1>1, <1>3, <1>5 DEF ServerDies
<1>6. ASSUME NEW a \in Agents, ToolActs(a)
      PROVE  FeedbackInv'
  BY <1>1, <1>4, <1>6 DEF ToolActs, VaultWrite, Refuses, ObsidianCreate, QmdSearch, WebSearch,
                          BlogScan, RssFetch, Asks
<1>7. ASSUME NEW c \in DOMAIN calls, ProcessActs(c)
      PROVE  FeedbackInv'
  BY <1>1, <1>7 DEF ProcessActs, ProcessEnds, AsksAgain, Returns, TimesOut
<1>8. CASE Scripts
  BY <1>1, <1>8 DEF Scripts, SeedingStarts, SeedChecks, SeedWrites, SeederDies, SeedOther
<1> QED BY <1>5, <1>6, <1>7, <1>8 DEF Next

\* Every call and every crash is counted for the bounds.
LEMMA BoundedStep ==
    ASSUME CallsInv(calls, process), CallsInv(calls', process'), Bounded, Next
    PROVE  Bounded'
<1>0. PICK b \in Nat : b = Len(calls) /\ DOMAIN calls = 1..b /\ calls \in Seq(CallRecord)
  BY DEF CallsInv, CallsPart
<1>1. PICK d \in Nat : d = Len(calls') /\ DOMAIN calls' = 1..d
  BY DEF CallsInv, CallsPart
<1>2. MaxCalls \in Nat /\ MaxCrashes \in Nat /\ MaxSeedings \in Nat
  BY KnowledgeAssumption
<1>3. PICK x \in 0..MaxCrashes, y \in 0..MaxSeedings, z \in 0..MaxCalls :
        counts = [crashes |-> x, seedings |-> y, uses |-> z] /\ b + z <= MaxCalls
  BY <1>0 DEF Bounded
<1>4. counts.crashes = x /\ counts.seedings = y /\ counts.uses = z
  BY <1>3
<1>5. ASSUME DOMAIN calls' = DOMAIN calls
      PROVE  d = b
  BY <1>0, <1>1, <1>5
<1>6. CASE counts' = counts /\ DOMAIN calls' = DOMAIN calls
  BY <1>0, <1>1, <1>5, <1>6 DEF Bounded
<1>7. ASSUME NEW a \in Agents, NEW r, MayCall(a), counts' = counts, calls' = Append(calls, r)
      PROVE  Bounded'
  <2>1. b + z < MaxCalls /\ d = b + 1
    BY <1>0, <1>1, <1>4, <1>7 DEF MayCall
  <2> QED BY <1>1, <1>2, <1>3, <1>4, <1>7, <2>1 DEF Bounded
<1>8. ASSUME NEW a \in Agents, ToolActs(a)
      PROVE  Bounded'
  <2>1. CASE \E t \in Terms : TermFeedback(a, t)
    <3>1. MayCall(a) /\ counts' = [counts EXCEPT !.uses = @ + 1] /\ calls' = calls
      BY <2>1 DEF TermFeedback, noteVars
    <3>2. counts' = [crashes |-> x, seedings |-> y, uses |-> z + 1] /\ b + z < MaxCalls
      BY <1>0, <1>3, <1>4, <3>1 DEF MayCall
    <3> QED BY <1>0, <1>2, <1>3, <3>1, <3>2 DEF Bounded
  <2>2. CASE VaultWrite(a)
    <3>1. PICK r : calls' = Append(calls, r)
      BY <2>2 DEF VaultWrite, Call
    <3> QED BY <1>7, <2>2, <3>1 DEF VaultWrite
  <2>3. CASE Refuses(a)
    BY <1>7, <2>3 DEF Refuses, Call
  <2>4. CASE ObsidianCreate(a)
    <3>1. PICK r : calls' = Append(calls, r)
      BY <2>4 DEF ObsidianCreate, Call
    <3> QED BY <1>7, <2>4, <3>1 DEF ObsidianCreate
  <2>5. ASSUME NEW tool, Asks(a, tool)
        PROVE  Bounded'
    BY <1>7, <2>5 DEF Asks, Call
  <2> QED BY <1>8, <2>1, <2>2, <2>3, <2>4, <2>5
          DEF ToolActs, QmdSearch, WebSearch, BlogScan, RssFetch
<1>9. ASSUME NEW c \in DOMAIN calls, ProcessActs(c)
      PROVE  Bounded'
  <2>1. counts' = counts /\ DOMAIN calls' = DOMAIN calls
    BY <1>9 DEF ProcessActs, ProcessEnds, AsksAgain, Returns, TimesOut
  <2> QED BY <1>6, <2>1
<1>10. ASSUME MayCrash, NEW k \in 0..1, counts' = [crashes |-> x + 1, seedings |-> y, uses |-> z + k],
              d + z + k <= MaxCalls
       PROVE  Bounded'
  <2>1. x + 1 \in 0..MaxCrashes /\ z + k \in 0..MaxCalls
    BY <1>1, <1>2, <1>4, <1>10 DEF MayCrash
  <2>2. counts'.uses = z + k /\ d + (z + k) <= MaxCalls
    BY <1>1, <1>3, <1>10
  <2> QED BY <1>1, <1>10, <2>1, <2>2 DEF Bounded
<1>11. Crashed = [crashes |-> x + 1, seedings |-> y, uses |-> z + 0]
  BY <1>3 DEF Crashed
<1>12. CASE ServerDies
  <2>0. MayCrash
    BY <1>12 DEF ServerDies
  <2>1. CASE counts' = Crashed /\ calls' = Forgotten(calls)
    <3>1. d = b
      BY <1>0, <1>1, <2>1 DEF Forgotten
    <3> QED BY <1>3, <1>10, <1>11, <2>0, <2>1, <3>1
  <2>2. ASSUME NEW a \in Agents, MayCall(a), counts' = Crashed, NEW r,
               calls' = Forgotten(Append(calls, r))
        PROVE  Bounded'
    <3>1. PICK ds : ds = Append(calls, r)
      OBVIOUS
    <3>2. DOMAIN ds = 1..(b + 1)
      BY <1>0, <3>1
    <3>3. d = b + 1
      BY <1>0, <1>1, <2>2, <3>1, <3>2 DEF Forgotten
    <3>4. d + z + 0 <= MaxCalls
      BY <1>0, <1>2, <1>3, <1>4, <2>2, <3>3 DEF MayCall
    <3> QED BY <1>10, <1>11, <2>0, <2>2, <3>4
  <2>3. ASSUME NEW a \in Agents, MayCall(a), counts' = [Crashed EXCEPT !.uses = @ + 1],
               calls' = Forgotten(calls)
        PROVE  Bounded'
    <3>1. counts' = [crashes |-> x + 1, seedings |-> y, uses |-> z + 1]
      BY <1>11, <2>3
    <3>2. d = b
      BY <1>0, <1>1, <2>3 DEF Forgotten
    <3>3. d + z + 1 <= MaxCalls
      BY <1>0, <1>2, <1>3, <1>4, <2>3, <3>2 DEF MayCall
    <3> QED BY <1>10, <2>0, <3>1, <3>3
  <2> QED BY <1>12, <2>1, <2>2, <2>3 DEF ServerDies, Call
<1>13. CASE Scripts
  <2>1. calls' = calls
    BY <1>13 DEF Scripts, SeedingStarts, SeedChecks, SeedWrites, SeederDies, SeedOther, noteVars
  <2>2. CASE SeedingStarts
    <3>1. counts' = [crashes |-> x, seedings |-> y + 1, uses |-> z] /\ y < MaxSeedings
      BY <1>3, <1>4, <2>2 DEF SeedingStarts
    <3> QED BY <1>0, <1>2, <1>3, <2>1, <3>1 DEF Bounded
  <2>3. CASE SeederDies
    <3>1. MayCrash /\ counts' = Crashed
      BY <2>3 DEF SeederDies
    <3>2. d + z + 0 <= MaxCalls
      BY <1>0, <1>1, <1>3, <2>1
    <3> QED BY <1>10, <1>11, <3>1, <3>2
  <2>4. CASE SeedChecks \/ SeedWrites \/ SeedOther
    BY <1>6, <2>1, <2>4 DEF SeedChecks, SeedWrites, SeedOther
  <2> QED BY <1>13, <2>2, <2>3, <2>4 DEF Scripts
<1> QED BY <1>8, <1>9, <1>12, <1>13 DEF Next
-----------------------------------------------------------------------------
(* The inductive invariant: the notes tell what the calls and their        *)
(* processes did, the seeding has left what it found, and the counters and *)
(* the bounds hold.                                                        *)

KInv == NoteInv(files, calls, process) /\ SeedInv /\ FeedbackInv /\ Bounded

LEMMA InitK == Init => KInv
<1> SUFFICES ASSUME Init
             PROVE  KInv
  OBVIOUS
<1>1. /\ files = <<>> /\ calls = <<>> /\ process = <<>> /\ rows = <<>>
      /\ DOMAIN files = {} /\ DOMAIN calls = {} /\ DOMAIN process = {} /\ DOMAIN rows = {}
      /\ Len(calls) = 0
  BY DEF Init
<1>2. FilesFit(files)
  BY <1>1 DEF FilesFit
<1>3. CallsInv(calls, process)
  <2>1. calls \in Seq(CallRecord)
    BY <1>1
  <2> QED BY <1>1, <2>1 DEF CallsInv, CallsPart, AllRun, Superseded
<1>4. NotesInv(files, calls, process)
  BY <1>1 DEF NotesInv, TextsGiven, TextsOnce, Reported
<1>5. SeedInv
  <2>1. Len(SeedTerms) \in Nat /\ DOMAIN SeedTerms = 1..Len(SeedTerms)
    BY KnowledgeAssumption
  <2>2. seeder \in Seeder /\ seeder.state = "off" /\ seeder.next = 1
    BY <2>1 DEF Init, Seeder
  <2>3. \A i \in DOMAIN SeedTerms : ~(i < 1)
    BY <2>1
  <2> QED BY <2>2, <2>3 DEF SeedInv
<1>6. FeedbackInv
  <2>1. \A t \in Terms : Row(rows, t) = 0 /\ uses[t].told = 0 /\ uses[t].begun = 0
    BY <1>1 DEF Row, Init
  <2>2. uses \in [Terms -> [told : Nat, begun : Nat]]
    BY DEF Init
  <2> QED BY <1>1, <2>1, <2>2 DEF FeedbackInv
<1>7. Bounded
  BY <1>1, KnowledgeAssumption DEF Bounded, Init
<1> QED BY <1>2, <1>3, <1>4, <1>5, <1>6, <1>7 DEF KInv, NoteInv

LEMMA FeedbackNotes ==
    ASSUME NoteInv(files, calls, process), NEW a \in Agents, NEW t \in Terms, TermFeedback(a, t)
    PROVE  NoteInv(files', calls', process')
<1>1. files' = files /\ calls' = calls /\ process' = process
  BY DEF TermFeedback, noteVars
<1> QED BY <1>1

\* Every step keeps the inductive invariant.
LEMMA NextK ==
    ASSUME KInv, Next
    PROVE  KInv'
<1>0. NoteInv(files, calls, process) /\ SeedInv /\ FeedbackInv /\ Bounded
  BY DEF KInv
<1>1. NoteInv(files', calls', process')
  <2>1. ASSUME NEW a \in Agents, ToolActs(a)
        PROVE  NoteInv(files', calls', process')
    BY <1>0, <2>1, VaultWriteNotes, RefusesNotes, AskingNotes, FeedbackNotes DEF ToolActs
  <2>2. ASSUME NEW c \in DOMAIN calls, ProcessActs(c)
        PROVE  NoteInv(files', calls', process')
    BY <1>0, <2>2, ProcessEndsNotes, ChangedNotes DEF ProcessActs
  <2>3. CASE ServerDies
    BY <1>0, <2>3, ServerDiesNotes
  <2>4. CASE Scripts
    <3>1. seeder.state # "off" => seeder.next \in DOMAIN SeedTerms
      BY <1>0 DEF SeedInv
    <3> QED BY <1>0, <2>4, <3>1, ScriptsNotes
  <2> QED BY <2>1, <2>2, <2>3, <2>4 DEF Next
<1>2. SeedInv'
  <2>1. CASE Scripts
    BY <1>0, <2>1, ScriptsSeed
  <2>2. CASE ~Scripts
    <3>1. \/ files' = files /\ seeder' = seeder
          \/ \E f, texts, whole : AgentWrites(f, texts, whole)
      BY <1>0, <2>2, AgentsWrite DEF Next
    <3> QED BY <1>0, <3>1, AgentsSeed
  <2> QED BY <2>1, <2>2
<1>3. FeedbackInv'
  BY <1>0, FeedbackStep
<1>4. Bounded'
  <2>1. CallsInv(calls, process) /\ CallsInv(calls', process')
    BY <1>0, <1>1 DEF NoteInv
  <2> QED BY <1>0, <2>1, BoundedStep
<1> QED BY <1>1, <1>2, <1>3, <1>4 DEF KInv

(* KInvariant: whatever agents, their processes, the scripts and crashes do  *)
(* in whatever order, the inductive invariant holds.                         *)
THEOREM KInvariant == Spec => []KInv
<1>1. ASSUME KInv, UNCHANGED vars
      PROVE  KInv'
  BY <1>1 DEF KInv, vars, SeedInv, FeedbackInv, Bounded
<1>2. KInv /\ [Next]_vars => KInv'
  BY <1>1, NextK
<1> QED BY InitK, <1>2, PTL DEF Spec
-----------------------------------------------------------------------------
LEMMA KnowledgeFits ==
    ASSUME KInv
    PROVE  TypeOK
<1>1. FilesFit(files) /\ CallsPart(calls, process)
  BY DEF KInv, NoteInv, CallsInv
<1>2. /\ DOMAIN files \subseteq Files
      /\ \A f \in DOMAIN files : files[f] \in [texts : Seq(0..MaxCalls), whole : BOOLEAN]
  BY <1>1 DEF FilesFit
<1>3. calls \in Seq([agent : Agents, tool : Tools, file : Files \union {NoFile}, text : 1..MaxCalls, state : States])
  BY <1>1 DEF CallsPart, CallRecord
<1>4. DOMAIN process \subseteq DOMAIN calls /\ Range(process) \subseteq {"works", "ok", "error"}
  BY <1>1 DEF CallsPart, Range
<1>5. DOMAIN rows \subseteq Terms /\ Range(rows) \subseteq Nat
  BY DEF KInv, FeedbackInv, Range
<1>6. uses \in [Terms -> [told : Nat, begun : Nat]] /\ seeder \in Seeder
  BY DEF KInv, FeedbackInv, SeedInv
<1>7. counts \in [crashes : 0..MaxCrashes, seedings : 0..MaxSeedings, uses : 0..MaxCalls]
  BY DEF KInv, Bounded
<1> QED BY <1>2, <1>3, <1>4, <1>5, <1>6, <1>7 DEF TypeOK

(* KnowledgeTypes: notes, calls, processes, rows, the seeder and the bounds   *)
(* keep their types: no tool or script writes a note outside the five         *)
(* folders, no process belongs to a call that was not made, and the seeder    *)
(* never reads behind the end of SEED_TERMS.                                  *)
THEOREM KnowledgeTypes == Spec => []TypeOK
<1>1. KInv => TypeOK
  BY KnowledgeFits
<1> QED BY <1>1, KInvariant, PTL

\* How often a text stands in a note, by what the invariant says of it.
LEMMA TimesIs ==
    ASSUME FilesFit(files), NEW f, NEW x
    PROVE  /\ Times(x, f) \in Nat
           /\ Times(x, f) > 0 <=> In(files, f, x)
           /\ Times(x, f) > 1 => Twice(files, f, x)
<1>1. CASE f \notin DOMAIN files
  BY <1>1 DEF Times, In
<1>2. CASE f \in DOMAIN files
  <2>1. PICK texts \in Seq(0..MaxCalls) : texts = files[f].texts
    BY <1>2 DEF FilesFit
  <2>2. PICK n \in Nat : DOMAIN texts = 1..n
    <3>1. Len(texts) \in Nat /\ DOMAIN texts = 1..Len(texts)
      BY <2>1
    <3> QED BY <3>1
  <2>3. PICK S : S = {i \in 1..n : texts[i] = x}
    OBVIOUS
  <2>4. Times(x, f) = Cardinality(S)
    BY <1>2, <2>1, <2>2, <2>3 DEF Times
  <2>5. IsFiniteSet(1..n)
    BY FS_Interval
  <2>6. S \in SUBSET (1..n)
    BY <2>3
  <2>7. IsFiniteSet(S)
    BY <2>5, <2>6, FS_Subset
  <2>8. Cardinality(S) \in Nat
    BY <2>7, FS_CardinalityType
  <2>9. Cardinality(S) = 0 <=> S = {}
    BY <2>7, FS_EmptySet
  <2>10. S # {} <=> In(files, f, x)
    BY <1>2, <2>1, <2>2, <2>3 DEF In
  <2>11. ASSUME Cardinality(S) > 1
         PROVE  Twice(files, f, x)
    <3>1. S # {}
      BY <2>8, <2>9, <2>11
    <3>2. PICK i : i \in S
      BY <3>1
    <3>3. Cardinality({i}) = 1
      BY FS_Singleton
    <3>4. S # {i}
      BY <2>11, <3>3
    <3>5. PICK j : j \in S /\ j # i
      BY <3>2, <3>4
    <3> QED BY <1>2, <2>1, <2>2, <2>3, <3>2, <3>5 DEF Twice
  <2>12. Cardinality(S) > 0 <=> S # {}
    BY <2>8, <2>9
  <2> QED BY <2>4, <2>8, <2>10, <2>11, <2>12
<1> QED BY <1>1, <1>2

\* What one call was told.
CallTrue(c) ==
    LET f == calls[c].file
        n == Times(calls[c].text, f)
    IN  f # NoFile =>
          /\ calls[c].state = "written" =>
               \/ n > 0 \/ Covered(c) \/ SeedText \in Texts(f)
               \/ f \in DOMAIN files /\ ~files[f].whole
          /\ calls[c].state = "failed" /\ Given(calls[c].text) = {c} => n = 0
          /\ n <= 1 \/ Unsure(calls[c].text)

\* Each report is true by what its process did.
LEMMA CallsTold ==
    ASSUME NoteInv(files, calls, process), NEW c \in DOMAIN calls
    PROVE  CallTrue(c)
<1>1. FilesFit(files) /\ NotesInv(files, calls, process) /\ CallFits(calls, process, c)
  BY DEF NoteInv, CallsInv, CallsPart
<1>2. PICK f : f = calls[c].file
  OBVIOUS
<1>3. PICK x \in 1..MaxCalls : x = calls[c].text
  <2>1. calls \in Seq(CallRecord)
    BY DEF NoteInv, CallsInv, CallsPart
  <2>2. calls[c] \in CallRecord
    BY <2>1
  <2> QED BY <2>2 DEF CallRecord
<1>4. PICK n \in Nat : n = Times(x, f)
  BY <1>1, TimesIs
<1>5. (n > 0 <=> In(files, f, x)) /\ (n > 1 => Twice(files, f, x))
  BY <1>1, <1>4, TimesIs
<1>6. ASSUME f # NoFile, calls[c].state = "written"
      PROVE  \/ n > 0 \/ Covered(c) \/ SeedText \in Texts(f)
             \/ f \in DOMAIN files /\ ~files[f].whole
  <2>1. Wrote(calls, process, c)
    BY <1>1, <1>2, <1>6 DEF CallFits, Wrote
  <2>2. \/ Torn(files, f)
        \/ In(files, f, x) \/ In(files, f, SeedText)
        \/ CoveredIn(calls, c)
    BY <1>1, <1>2, <1>3, <2>1 DEF NotesInv, Reported
  <2>3. CoveredIn(calls, c) => Covered(c)
    BY DEF CoveredIn, Covered, Overwrites
  <2>4. In(files, f, SeedText) => SeedText \in Texts(f)
    BY DEF In, Texts, Range
  <2>5. Torn(files, f) => f \in DOMAIN files /\ ~files[f].whole
    BY DEF Torn
  <2> QED BY <1>5, <2>2, <2>3, <2>4, <2>5
<1>7. ASSUME calls[c].state = "failed", Given(x) = {c}
      PROVE  n = 0
  <2>1. SUFFICES ASSUME In(files, f, x)
                 PROVE  FALSE
    BY <1>5
  <2>2. PICK d \in DOMAIN calls : calls[d].text = x /\ Wrote(calls, process, d)
    BY <1>1, <2>1 DEF NotesInv, TextsGiven, In
  <2>3. d = c
    BY <1>7, <2>2 DEF Given
  <2> QED BY <1>1, <1>7, <2>2, <2>3 DEF CallFits, Wrote
<1>8. n <= 1 \/ Unsure(x)
  <2>1. SUFFICES ASSUME n > 1
                 PROVE  Unsure(x)
    BY <1>4
  <2>2. Twice(files, f, x) /\ f \in DOMAIN files
    BY <1>5, <2>1 DEF Twice
  <2> QED BY <1>1, <2>2 DEF NotesInv, TextsOnce, UnsureIn, Unsure
<1> QED BY <1>2, <1>3, <1>4, <1>6, <1>7, <1>8 DEF CallTrue

LEMMA AllTold ==
    ASSUME KInv
    PROVE  ReportsTrue
<1>1. \A c \in DOMAIN calls : CallTrue(c)
  BY CallsTold DEF KInv
<1>2. \A t \in Terms :
        LET n == IF t \in DOMAIN rows THEN rows[t] ELSE 0
        IN  uses[t].told <= n /\ n <= uses[t].begun
  BY DEF KInv, FeedbackInv, Row
<1> QED BY <1>1, <1>2 DEF ReportsTrue, CallTrue

(* ToolsTellTheTruth: what vault_write, obsidian_create and term_feedback     *)
(* told their agent is so, for any number of agents, calls, hung processes,   *)
(* timeouts, full disks and crashes; where it is not, another call, a script, *)
(* a torn write or a process that was given up is the reason.                 *)
THEOREM ToolsTellTheTruth == Spec => []ReportsTrue
<1>1. KInv => ReportsTrue
  BY AllTold
<1> QED BY <1>1, KInvariant, PTL
-----------------------------------------------------------------------------
\* The seeding replaces a note, that is there, only where an agent has come between.
SeedReplaces(f) ==
    f[1] = "terms" /\ files'[f] # files[f] /\ files'[f].texts = <<SeedText>>

\* A note of the terms that a step replaces by a seed was raced for.
LEMMA SeedStep ==
    ASSUME KInv, Next, NEW f \in DOMAIN files, SeedReplaces(f)
    PROVE  seeder.raced
<1>0. NoteInv(files, calls, process) /\ SeedInv /\ Bounded
  BY DEF KInv
<1>1. ASSUME NEW g, NEW texts, NEW whole, files' = Put(files, g, texts, whole)
      PROVE  f = g /\ texts = <<SeedText>>
  <2>1. files'[f] = IF f = g THEN [texts |-> texts, whole |-> whole] ELSE files[f]
    BY <1>1 DEF Put
  <2> QED BY <2>1 DEF SeedReplaces
<1>2. CASE Scripts
  <2>1. files' # files
    BY DEF SeedReplaces
  <2>2. CASE SeedWrites
    <3>1. files' = Put(files, SeedNote(seeder.next), <<SeedText>>, TRUE)
      BY <2>2 DEF SeedWrites, SeedNote, Replaced, Holding, Put
    <3>2. f = SeedNote(seeder.next) /\ seeder.state = "writing"
      BY <1>1, <2>2, <3>1 DEF SeedWrites
    <3> QED BY <1>0, <3>2 DEF SeedInv
  <2>3. CASE SeederDies
    <3>1. files' = Put(files, SeedNote(seeder.next), <<>>, FALSE)
      BY <2>1, <2>3 DEF SeederDies, SeedNote, Replaced, Holding, Put
    <3>2. <<>> = <<SeedText>>
      BY <1>1, <3>1
    <3>3. Len(<<>>) = 0 /\ Len(<<SeedText>>) = 1
      OBVIOUS
    <3> QED BY <3>2, <3>3
  <2>4. CASE SeedOther
    <3>1. PICK k \in SeedOthers : \E g \in FilesOf(k[1], k[2]) : files' = Replaced(g, SeedText, TRUE)
      BY <2>4 DEF SeedOther
    <3>2. PICK g \in FilesOf(k[1], k[2]) : files' = Replaced(g, SeedText, TRUE)
      BY <3>1
    <3>3. files' = Put(files, g, <<SeedText>>, TRUE)
      BY <3>2 DEF Replaced, Holding, Put
    <3>4. f = g
      BY <1>1, <3>3
    <3> QED BY <3>4, OthersFit DEF SeedReplaces
  <2> QED BY <1>2, <2>1, <2>2, <2>3, <2>4 DEF Scripts, SeedingStarts, SeedChecks, noteVars
<1>3. CASE ~Scripts
  <2>1. \/ files' = files /\ seeder' = seeder
        \/ \E g, texts, whole : AgentWrites(g, texts, whole)
    BY <1>0, <1>3, AgentsWrite DEF Next
  <2>2. files' # files
    BY DEF SeedReplaces
  <2>3. PICK g, texts, whole : AgentWrites(g, texts, whole)
    BY <2>1, <2>2
  <2> QED BY <1>1, <2>3 DEF AgentWrites
<1> QED BY <1>2, <1>3

(* SeedingYields: load_seed_terms replaces no note that it has found, and     *)
(* leaves every seed term with one, for any list of terms, equal slugs        *)
(* included, and however often it dies and is started again; an agent's write *)
(* between the check and the write is the only exception.                     *)
THEOREM SeedingYields == Spec => SeedsYield
<1>1. KInv /\ [Next]_vars =>
        [\A f \in DOMAIN files :
            f[1] = "terms" /\ files'[f] # files[f] /\ files'[f].texts = <<SeedText>> => seeder.raced]_vars
  BY SeedStep DEF SeedReplaces
<1>2. KInv => (seeder.next > Len(SeedTerms) =>
                 \A i \in DOMAIN SeedTerms : TermFile(SeedTerms[i]) \in DOMAIN files)
  <2> SUFFICES ASSUME KInv, seeder.next > Len(SeedTerms), NEW i \in DOMAIN SeedTerms
               PROVE  TermFile(SeedTerms[i]) \in DOMAIN files
    OBVIOUS
  <2>1. SeedInv
    BY DEF KInv
  <2>2. Len(SeedTerms) \in Nat /\ DOMAIN SeedTerms = 1..Len(SeedTerms)
    BY KnowledgeAssumption
  <2>3. seeder.next \in 1..(Len(SeedTerms) + 1)
    BY <2>1 DEF SeedInv, Seeder
  <2>4. i < seeder.next
    BY <2>2, <2>3
  <2> QED BY <2>1, <2>4 DEF SeedInv, SeedNote
<1> QED BY <1>1, <1>2, KInvariant, PTL DEF Spec, SeedsYield
=============================================================================
