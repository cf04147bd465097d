----------------------------- MODULE EditsProofs -----------------------------
(***************************************************************************)
(* Proofs about the file tools, FileEdits, for any editors, files, texts   *)
(* and patches.                                                            *)
(***************************************************************************)
EXTENDS FileEdits, SequenceTheorems, WellFoundedInduction, TLAPS

-----------------------------------------------------------------------------
(* What a list of replacements makes of a text                             *)

\* Induction, as a statement about sets of numbers.
LEMMA LeastNumber ==
  ASSUME NEW T \in SUBSET Nat, T # {}
  PROVE  \E m \in T : \A k \in T : m <= k
<1> DEFINE R == OpToRel(<, Nat)
<1>1. IsWellFoundedOn(R, Nat)
  BY NatLessThanWellFounded
<1>2. \A k, m \in Nat : k < m => <<k, m>> \in R
  BY DEF OpToRel
<1> HIDE DEF R
<1>3. PICK m \in T : \A k \in T : ~ (<<k, m>> \in R)
  BY <1>1, WFMin
<1>4. \A k \in T : ~ (k < m)
  BY <1>2, <1>3
<1> QED BY <1>4

LEMMA NumberInduction ==
  ASSUME NEW T \in SUBSET Nat, 0 \in T, \A n \in T : n + 1 \in T
  PROVE  T = Nat
<1> SUFFICES ASSUME Nat \ T # {} PROVE FALSE
  OBVIOUS
<1> DEFINE U == Nat \ T
<1>1. U \in SUBSET Nat /\ U # {}
  OBVIOUS
<1> HIDE DEF U
<1>2. PICK m \in U : \A k \in U : m <= k
  BY <1>1, LeastNumber
<1>3. m \in Nat /\ m # 0 /\ m - 1 \in Nat
  BY <1>2 DEF U
<1>4. m - 1 \in T
  BY <1>2, <1>3 DEF U
<1> QED BY <1>2, <1>3, <1>4 DEF U

\* A replacement keeps every word but the old one and adds nothing but the new one.
LEMMA ReplacedWords ==
  ASSUME NEW t \in Text \cup {NoFile}, NEW edit \in Replacement, Replaced(t, edit) # NoFile
  PROVE  /\ t \in Text
         /\ Replaced(t, edit) \in Text
         /\ edit.new \in Range(Replaced(t, edit))
         /\ \A w : w \notin {edit.old, edit.new} =>
              (w \in Range(Replaced(t, edit)) <=> w \in Range(t))
<1> DEFINE s == [i \in DOMAIN t |-> IF t[i] = edit.old THEN edit.new ELSE t[i]]
<1>1. t # NoFile /\ edit.old \in Range(t) /\ Replaced(t, edit) = s
  BY DEF Replaced
<1>2. t \in Text
  BY <1>1
<1>3. t \in [1 .. Len(t) -> Word] /\ Len(t) \in Nat
  BY <1>2 DEF Text
<1>4. s \in [1 .. Len(t) -> Word]
  BY <1>3 DEF Replacement
<1>5. s \in Text
  BY <1>3, <1>4, SeqDef DEF Text
<1>6. edit.new \in Range(s)
  BY <1>1 DEF Range
<1>7. \A w : w \notin {edit.old, edit.new} => (w \in Range(s) <=> w \in Range(t))
  BY DEF Range
<1> QED BY <1>1, <1>2, <1>5, <1>6, <1>7

LEMMA ReplacedType ==
  ASSUME NEW t \in Text \cup {NoFile}, NEW edit \in Replacement
  PROVE  Replaced(t, edit) \in Text \cup {NoFile}
BY ReplacedWords

\* The texts between the replacements: Patched is the last of them.
IsRun(f, t, q, n) ==
  /\ f \in [0 .. n -> Text \cup {NoFile}]
  /\ f[0] = t
  /\ \A i \in 1 .. n : f[i] = Replaced(f[i - 1], q[i])

LEMMA RunExists ==
  ASSUME NEW t \in Text \cup {NoFile}, NEW q \in Seq(Replacement)
  PROVE  \E f : IsRun(f, t, q, Len(q))
<1> DEFINE T == {n \in Nat : n <= Len(q) => \E f : IsRun(f, t, q, n)}
<1>1. 0 \in T
  <2>1. IsRun([i \in 0 .. 0 |-> t], t, q, 0)
    BY DEF IsRun
  <2> QED BY <2>1
<1>2. ASSUME NEW n \in T, n + 1 <= Len(q) PROVE \E f : IsRun(f, t, q, n + 1)
  <2>1. PICK f : IsRun(f, t, q, n)
    BY <1>2
  <2> DEFINE g == [i \in 0 .. n + 1 |-> IF i = n + 1 THEN Replaced(f[n], q[n + 1]) ELSE f[i]]
  <2>2. n \in Nat /\ f[n] \in Text \cup {NoFile} /\ q[n + 1] \in Replacement
    BY <1>2, <2>1 DEF IsRun
  <2>3. Replaced(f[n], q[n + 1]) \in Text \cup {NoFile}
    BY <2>2, ReplacedType
  <2>4. g \in [0 .. n + 1 -> Text \cup {NoFile}]
    BY <2>1, <2>2, <2>3 DEF IsRun
  <2>5. g[0] = t
    BY <2>1, <2>2 DEF IsRun
  <2>6. ASSUME NEW i \in 1 .. n + 1 PROVE g[i] = Replaced(g[i - 1], q[i])
    <3>1. i - 1 \in 0 .. n /\ i - 1 # n + 1 /\ g[i - 1] = f[i - 1]
      BY <2>2
    <3>2. CASE i = n + 1
      BY <3>1, <3>2
    <3>3. CASE i # n + 1
      BY <2>1, <2>2, <3>1, <3>3 DEF IsRun
    <3> QED BY <3>2, <3>3
  <2> QED BY <2>4, <2>5, <2>6 DEF IsRun
<1>3. \A n \in T : n + 1 \in T
  BY <1>2
<1> HIDE DEF T
<1>4. T \in SUBSET Nat
  BY DEF T
<1>5. T = Nat
  BY <1>1, <1>3, <1>4, NumberInduction
<1> QED BY <1>5 DEF T

LEMMA PatchedIsRun ==
  ASSUME NEW t \in Text \cup {NoFile}, NEW q \in Seq(Replacement)
  PROVE  \E f : IsRun(f, t, q, Len(q)) /\ Patched(t, q) = f[Len(q)]
<1> DEFINE D(g) == [i \in 0 .. Len(q) |-> IF i = 0 THEN t ELSE Replaced(g[i - 1], q[i])]
           after == CHOOSE g : g = D(g)
<1>1. PICK f : IsRun(f, t, q, Len(q))
  BY RunExists
<1>2. f = D(f)
  BY <1>1 DEF IsRun
<1>3. after = D(after)
  BY <1>2
<1>4. Patched(t, q) = after[Len(q)]
  BY DEF Patched
<1> HIDE DEF after
<1>5. after[0] = t /\ \A i \in 1 .. Len(q) : after[i] = Replaced(after[i - 1], q[i])
  BY <1>3
<1> DEFINE T == {n \in Nat : n <= Len(q) => after[n] \in Text \cup {NoFile}}
<1>6. 0 \in T
  BY <1>5
<1>7. ASSUME NEW n \in T, n + 1 <= Len(q) PROVE after[n + 1] \in Text \cup {NoFile}
  <2>1. after[n] \in Text \cup {NoFile} /\ q[n + 1] \in Replacement
    BY <1>7
  <2>2. after[n + 1] = Replaced(after[n], q[n + 1])
    BY <1>5, <1>7
  <2> QED BY <2>1, <2>2, ReplacedType
<1>8. \A n \in T : n + 1 \in T
  BY <1>7
<1> HIDE DEF T
<1>9. T = Nat
  BY <1>6, <1>8, NumberInduction DEF T
<1>10. \A n \in 0 .. Len(q) : after[n] \in Text \cup {NoFile}
  BY <1>9 DEF T
<1>11. after \in [0 .. Len(q) -> Text \cup {NoFile}]
  BY <1>3, <1>10
<1> QED BY <1>4, <1>5, <1>11 DEF IsRun
LEMMA PatchedType ==
  ASSUME NEW t \in Text \cup {NoFile}, NEW q \in Seq(Replacement)
  PROVE  Patched(t, q) \in Text \cup {NoFile}
<1>1. PICK f : IsRun(f, t, q, Len(q)) /\ Patched(t, q) = f[Len(q)]
  BY PatchedIsRun
<1>2. Len(q) \in 0 .. Len(q)
  OBVIOUS
<1> QED BY <1>1, <1>2 DEF IsRun

LEMMA PatchIsSeq == ASSUME NEW q \in Patch
                    PROVE  q \in Seq(Replacement) /\ DOMAIN q = 1 .. Len(q) /\ Len(q) \in Nat
<1>1. q \in Seq(Replacement)
  BY EditsAssumption
<1> QED BY <1>1

\* A patch that applies shows as a whole afterwards, and changes nothing about what
\* others show.
LEMMA PatchedWhole ==
  ASSUME NewWordsTell, NEW t \in Text \cup {NoFile}, Whole(t), NEW q \in Patch,
         Patched(t, q) # NoFile
  PROVE  Whole(Patched(t, q))
<1>1. q \in Seq(Replacement) /\ DOMAIN q = 1 .. Len(q) /\ Len(q) \in Nat
  BY PatchIsSeq
<1>2. PICK f : IsRun(f, t, q, Len(q)) /\ Patched(t, q) = f[Len(q)]
  BY <1>1, PatchedIsRun
<1> DEFINE Shown(n) ==
             /\ f[n] # NoFile
             /\ \A j \in 1 .. n : q[j].new \in Range(f[n])
             /\ \A r \in Patch \ {q} : \A j \in DOMAIN r :
                  r[j].new \in Range(f[n]) <=> r[j].new \in Range(t)
           T == {n \in Nat : n <= Len(q) /\ f[n] # NoFile => Shown(n)}
<1>3. 0 \in T
  BY <1>2 DEF IsRun
<1>4. ASSUME NEW n \in T, n + 1 <= Len(q), f[n + 1] # NoFile PROVE Shown(n + 1)
  <2> DEFINE edit == q[n + 1]
  <2>1. n \in Nat /\ n + 1 \in DOMAIN q /\ edit \in Replacement /\ f[n] \in Text \cup {NoFile}
    BY <1>1, <1>2, <1>4 DEF IsRun
  <2>2. f[n + 1] = Replaced(f[n], edit)
    BY <1>2, <1>4, <2>1 DEF IsRun
  <2>3. /\ f[n] \in Text
        /\ edit.new \in Range(f[n + 1])
        /\ \A w : w \notin {edit.old, edit.new} => (w \in Range(f[n + 1]) <=> w \in Range(f[n]))
    BY <1>4, <2>1, <2>2, ReplacedWords
  <2>4. Shown(n)
    BY <1>4, <2>1, <2>3, EditsAssumption DEF Text
  <2>5. ASSUME NEW j \in 1 .. n + 1 PROVE q[j].new \in Range(f[n + 1])
    <3>1. CASE j = n + 1
      BY <3>1, <2>3
    <3>2. CASE j # n + 1
      <4>1. j \in 1 .. n /\ j \in DOMAIN q
        BY <3>2, <2>1, <1>1
      <4>2. q[j].new # edit.old /\ q[j].new \in Range(f[n])
        BY <4>1, <2>1, <2>4 DEF NewWordsTell
      <4> QED BY <4>2, <2>3
    <3> QED BY <3>1, <3>2
  <2>6. ASSUME NEW r \in Patch \ {q}, NEW j \in DOMAIN r
        PROVE  r[j].new \in Range(f[n + 1]) <=> r[j].new \in Range(t)
    <3>1. r[j].new \notin {edit.old, edit.new}
      BY <2>1 DEF NewWordsTell
    <3> QED BY <3>1, <2>3, <2>4
  <2> QED BY <1>4, <2>5, <2>6
<1>5. \A n \in T : n + 1 \in T
  BY <1>4
<1> HIDE DEF T
<1>6. T = Nat
  BY <1>3, <1>5, NumberInduction DEF T
<1>7. Shown(Len(q))
  BY <1>1, <1>2, <1>6 DEF T
<1> HIDE DEF Shown
<1>8. \A j \in DOMAIN q : q[j].new \in Range(Patched(t, q))
  BY <1>1, <1>2, <1>7 DEF Shown
<1>9. \A r \in Patch \ {q} : \A j \in DOMAIN r :
        r[j].new \in Range(Patched(t, q)) <=> r[j].new \in Range(t)
  BY <1>2, <1>7 DEF Shown
<1> QED BY <1>8, <1>9 DEF Whole
-----------------------------------------------------------------------------
(* What calls know of each other and of the files                          *)

Busy(e) == work[e] # Idle

\* A caller that can count on something.
CountsOn(e) == work[e].was # Unsure \/ work[e].goal # Unsure

\* What the fields of a call say of each other.
WellFormed(c) ==
  /\ c.op # "move" => c.to = c.path
  /\ c.op \in {"write", "append"} => c.arg \in Document
  /\ c.op = "patch" => c.arg \in Patch
  /\ c.stage \in {"open", "cut"} => c.op \in {"write", "append"}
  /\ c.stage \in {"copied", "ready"} => c.op = "patch" /\ c.copy # NoFile
  /\ c.op \notin {"write", "append"} \/ c.stage = "called" => c.fd = NoFile
  /\ c.op = "move" => c.to # c.path
  /\ c.goal # Unsure =>
       IF c.op = "write" THEN c.goal = c.arg
       ELSE c.was # Unsure /\ c.goal = Outcome(c.op, c.was, c.arg)

\* What a call that is sure finds, and what it leaves behind.
Progress(e) ==
  LET c == work[e] IN
  /\ c.stage \in {"called", "copied", "ready", "failed"} /\ c.was # Unsure =>
       text[c.path] = c.was
  /\ c.stage = "open" /\ c.goal # Unsure =>
       /\ c.fd = c.path
       /\ text[c.path] = IF c.op = "append" /\ c.was # NoFile THEN c.was ELSE <<>>
  /\ c.stage \in {"copied", "ready"} /\ c.goal # Unsure => c.copy = c.goal
  /\ c.stage = "done" /\ c.goal # Unsure =>
       /\ text[c.path] = c.goal
       /\ c.op = "move" => text[c.to] = c.was

\* A file that a call has open is there, unless it is Detached.
OpenFilesExist ==
  \A e \in Editor : work[e].fd \in Path => text[work[e].fd] # NoFile

\* While a call is under way nobody counts on its files; of two calls about one file
\* neither can be sure of anything.
EditsInv ==
  /\ EditsTypeOK
  /\ \A e \in Editor : Busy(e) => WellFormed(work[e])
  /\ \A e \in Editor, p \in Path : Touches(e, p) => expect[p] = Unsure
  /\ \A e, w \in Editor :
       e # w /\ (\E p \in Path : Touches(e, p) /\ Touches(w, p)) => ~ CountsOn(e)
  /\ \A e \in Editor : Busy(e) => Progress(e)
  /\ OpenFilesExist
  /\ QuietEditKept

\* What only patches touch is whole, and so is every copy that is to replace it.
PatchesInv ==
  /\ \A p \in patchOnly : text[p] # NoFile /\ Whole(text[p])
  /\ \A e \in Editor : \A p \in patchOnly :
       Touches(e, p) =>
         /\ work[e].op = "patch"
         /\ work[e].stage \in {"copied", "ready"} => Whole(work[e].copy)

-----------------------------------------------------------------------------
(* Every step keeps EditsInv                                               *)

LEMMA EditsInvInit == EditsInit => EditsInv
BY EditsAssumption
   DEF EditsInit, EditsInv, EditsTypeOK, OpenFilesExist, Touches, Busy, Idle, QuietEditKept, Text

\* A call is a record with all its fields, or there is none.
LEMMA BusyIsCall ==
  ASSUME EditsTypeOK, NEW e \in Editor
  PROVE  /\ Busy(e) => work[e] \in Call
         /\ work[e].op # "none" <=> Busy(e)
         /\ work[e].stage # "none" => Busy(e)
         /\ ~ Busy(e) => \A p \in Path : ~ Touches(e, p)
<1>1. work[e] \in Call \cup {Idle}
  BY DEF EditsTypeOK
<1>2. Idle.op = "none" /\ Idle.stage = "none"
  BY DEF Idle
<1>3. work[e] \in Call => work[e].op # "none"
  BY DEF Call
<1> QED BY <1>1, <1>2, <1>3 DEF Busy, Touches

\* A step of a call that goes on changes only files the call is about, and moves
\* only what others have open there.
Moved(e, w) ==
  \/ work'[w] = work[w]
  \/ \E x \in Path \cup {Detached} :
       /\ Busy(w)
       /\ work'[w] = [work[w] EXCEPT !.fd = x]
       /\ work[w].fd \in Path /\ Touches(e, work[w].fd)
       /\ x \in Path => Touches(e, x)

GoesOn(e) ==
  /\ Busy(e)
  /\ work' \in [Editor -> Call \cup {Idle}]
  /\ work'[e] \in Call
  /\ work'[e].op = work[e].op /\ work'[e].path = work[e].path /\ work'[e].to = work[e].to
  /\ work'[e].arg = work[e].arg /\ work'[e].was = work[e].was /\ work'[e].goal = work[e].goal
  /\ work'[e].fd \in Path => Touches(e, work'[e].fd)
  /\ \A w \in Editor \ {e} : Moved(e, w)
  /\ text' \in [Path -> Text \cup {NoFile}]
  /\ \A p \in Path : ~ Touches(e, p) => text'[p] = text[p]
  /\ UNCHANGED <<patchOnly, expect, patched>>

LEMMA GoesOnTouches ==
  ASSUME EditsTypeOK, NEW e \in Editor, GoesOn(e), NEW w \in Editor
  PROVE  /\ Busy(w)' <=> Busy(w)
         /\ Busy(w) => /\ work[w] \in Call /\ work'[w] \in Call
                       /\ work'[w].op = work[w].op /\ work'[w].path = work[w].path
                       /\ work'[w].to = work[w].to /\ work'[w].arg = work[w].arg
                       /\ work'[w].was = work[w].was /\ work'[w].goal = work[w].goal
                       /\ w # e => work'[w].stage = work[w].stage /\ work'[w].copy = work[w].copy
         /\ \A p \in Path : Touches(w, p)' =>
              \/ Touches(w, p)
              \/ /\ w # e /\ Touches(e, p)
                 /\ work[w].fd \in Path /\ Touches(e, work[w].fd) /\ Touches(w, work[w].fd)
         /\ w # e /\ (\A p \in Path : ~ (Touches(w, p) /\ Touches(e, p))) => work'[w] = work[w]
<1>1. CASE w = e
  BY <1>1, BusyIsCall DEF GoesOn, Touches, Busy, Call, Idle
<1>2. CASE w # e /\ work'[w] = work[w]
  BY <1>2, BusyIsCall DEF GoesOn, Touches, Busy
<1>3. CASE w # e /\ work'[w] # work[w]
  <2>1. PICK x \in Path \cup {Detached} :
          /\ Busy(w)
          /\ work'[w] = [work[w] EXCEPT !.fd = x]
          /\ work[w].fd \in Path /\ Touches(e, work[w].fd)
          /\ x \in Path => Touches(e, x)
    BY <1>3 DEF GoesOn, Moved
  <2>2. work[w] \in Call /\ Touches(w, work[w].fd)
    BY <2>1, BusyIsCall DEF Touches
  <2>3. /\ work'[w] \in Call
        /\ work'[w].op = work[w].op /\ work'[w].path = work[w].path
        /\ work'[w].to = work[w].to /\ work'[w].arg = work[w].arg
        /\ work'[w].was = work[w].was /\ work'[w].goal = work[w].goal
        /\ work'[w].stage = work[w].stage /\ work'[w].copy = work[w].copy
        /\ work'[w].fd = x
    BY <2>1, <2>2 DEF Call
  <2>4. Busy(w)'
    BY <2>3 DEF Busy, Call, Idle
  <2> QED BY <1>3, <2>1, <2>2, <2>3, <2>4 DEF Touches
<1> QED BY <1>1, <1>2, <1>3

LEMMA GoesOnKeeps ==
  ASSUME EditsInv, NEW e \in Editor, GoesOn(e), WellFormed(work'[e]), Progress(e)',
         OpenFilesExist'
  PROVE  EditsInv'
<1>t. EditsTypeOK
  BY DEF EditsInv
<1>1. EditsTypeOK'
  BY <1>t DEF EditsTypeOK, GoesOn
<1>2. \A w \in Editor : Busy(w)' => WellFormed(work'[w])
  <2> SUFFICES ASSUME NEW w \in Editor, w # e, Busy(w)' PROVE WellFormed(work'[w])
    OBVIOUS
  <2>1. CASE work'[w] = work[w]
    BY <2>1 DEF EditsInv, Busy
  <2>2. CASE work'[w] # work[w]
    <3>1. WellFormed(work[w]) /\ work[w].fd \in Path
      BY <2>2, <1>t, GoesOnTouches DEF EditsInv, GoesOn, Moved
    <3>2. work[w].fd # NoFile
      BY <3>1, EditsAssumption
    <3> QED BY <1>t, <3>1, <3>2, GoesOnTouches DEF WellFormed
  <2> QED BY <2>1, <2>2
<1>3. (\A w \in Editor, p \in Path : Touches(w, p) => expect[p] = Unsure)'
  BY <1>t, GoesOnTouches DEF EditsInv, GoesOn
<1>4. ASSUME NEW u \in Editor, NEW w \in Editor, u # w, NEW p \in Path,
             Touches(u, p)', Touches(w, p)'
      PROVE  ~ CountsOn(u)'
  <2>1. Busy(u) /\ Busy(w)
    BY <1>1, <1>4, <1>t, BusyIsCall, GoesOnTouches DEF Touches
  <2>2. ~ CountsOn(u)
    <3>1. CASE Touches(u, p) /\ Touches(w, p)
      BY <3>1, <1>4 DEF EditsInv
    <3>2. CASE ~ Touches(u, p)
      BY <3>2, <1>4, <1>t, GoesOnTouches DEF EditsInv
    <3>3. CASE Touches(u, p) /\ ~ Touches(w, p)
      <4>1. w # e /\ Touches(e, p) /\ Touches(e, work[w].fd) /\ Touches(w, work[w].fd)
            /\ work[w].fd \in Path
        BY <3>3, <1>4, <1>t, GoesOnTouches
      <4>2. CASE u = e
        BY <4>1, <4>2, <1>4 DEF EditsInv
      <4>3. CASE u # e
        BY <4>1, <4>3, <3>3 DEF EditsInv
      <4> QED BY <4>2, <4>3
    <3> QED BY <3>1, <3>2, <3>3
  <2> QED BY <2>1, <2>2, <1>t, GoesOnTouches DEF CountsOn
<1>5. ASSUME NEW w \in Editor, w # e, Busy(w)' PROVE Progress(w)'
  <2>1. Busy(w) /\ work[w] \in Call
    BY <1>5, <1>t, GoesOnTouches
  <2>2. CASE ~ CountsOn(w)
    BY <2>1, <2>2, <1>t, GoesOnTouches DEF CountsOn, Progress
  <2>3. CASE CountsOn(w)
    <3>1. \A p \in Path : ~ (Touches(w, p) /\ Touches(e, p))
      BY <2>3, <1>5 DEF EditsInv
    <3>2. work'[w] = work[w]
      BY <3>1, <1>5, <1>t, GoesOnTouches
    <3>3. Touches(w, work[w].path) /\ Touches(w, work[w].to)
          /\ work[w].path \in Path /\ work[w].to \in Path
      BY <2>1 DEF Touches, Call
    <3>4. text'[work[w].path] = text[work[w].path] /\ text'[work[w].to] = text[work[w].to]
      BY <3>1, <3>3 DEF GoesOn
    <3>5. Progress(w)
      BY <2>1 DEF EditsInv
    <3> QED BY <3>2, <3>4, <3>5 DEF Progress
  <2> QED BY <2>2, <2>3
<1>6. QuietEditKept'
  BY DEF QuietEditKept, EditsInv, GoesOn
<1> QED BY <1>1, <1>2, <1>3, <1>4, <1>5, <1>6 DEF EditsInv

LEMMA OverText ==
  ASSUME NEW t \in Text, NEW data \in Text
  PROVE  Over(t, data) \in Text /\ Over(<<>>, data) = data
<1>1. SubSeq(t, Len(data) + 1, Len(t)) \in Text
  BY DEF Text
<1>2. SubSeq(<<>>, Len(data) + 1, Len(<<>>)) = <<>>
  BY DEF Text
<1>3. data \o <<>> = data
  BY DEF Text
<1> QED BY <1>1, <1>2, <1>3 DEF Over, Text

LEMMA TextFacts ==
  /\ NoFile \notin Text /\ Unsure \notin Text /\ NoFile # Unsure
  /\ NoFile \notin Path /\ Detached \notin Path
  /\ <<>> \in Text /\ Document \subseteq Text
  /\ \A s, t \in Text : s \o t \in Text
  /\ \A t \in Text : <<>> \o t = t
BY EditsAssumption DEF Text

LEMMA OpenFileKeeps ==
  ASSUME EditsInv, NEW e \in Editor, OpenFile(e)
  PROVE  EditsInv'
<1> DEFINE c == work[e]
<1>t. EditsTypeOK
  BY DEF EditsInv
<1>1. Busy(e) /\ c \in Call /\ WellFormed(c) /\ Progress(e)
  BY <1>t, BusyIsCall DEF OpenFile, At, EditsInv
<1>2. /\ c.op \in {"write", "append"} /\ c.stage = "called" /\ c.path \in Path
      /\ c.arg \in Document
      /\ work' = [work EXCEPT ![e] = [c EXCEPT !.stage = "open", !.fd = c.path]]
      /\ text' = [text EXCEPT ![c.path] =
                    IF c.op = "write" \/ text[c.path] = NoFile THEN <<>> ELSE text[c.path]]
  BY <1>t, <1>1 DEF OpenFile, At, EditsTypeOK, Call, WellFormed
<1>3. Touches(e, c.path)
  BY <1>t, <1>1, BusyIsCall DEF Touches
<1>4. /\ work'[e] \in Call
      /\ work'[e].op = c.op /\ work'[e].path = c.path /\ work'[e].to = c.to
      /\ work'[e].arg = c.arg /\ work'[e].was = c.was /\ work'[e].goal = c.goal
      /\ work'[e].stage = "open" /\ work'[e].fd = c.path /\ work'[e].copy = c.copy
  BY <1>t, <1>1, <1>2 DEF EditsTypeOK, Call
<1>5. text' \in [Path -> Text \cup {NoFile}] /\ text'[c.path] \in Text
  BY <1>t, <1>2, TextFacts DEF EditsTypeOK
<1>6. GoesOn(e)
  <2>1. \A w \in Editor \ {e} : work'[w] = work[w]
    BY <1>2, <1>t DEF EditsTypeOK
  <2>2. \A p \in Path : p # c.path => text'[p] = text[p]
    BY <1>2, <1>t DEF EditsTypeOK
  <2>3. work' \in [Editor -> Call \cup {Idle}]
    BY <1>2, <1>4, <1>t DEF EditsTypeOK
  <2> QED BY <1>1, <1>3, <1>4, <1>5, <2>1, <2>2, <2>3 DEF GoesOn, Moved, OpenFile
<1>7. WellFormed(work'[e])
  BY <1>1, <1>2, <1>4 DEF WellFormed
<1>8. Progress(e)'
  BY <1>1, <1>2, <1>4, <1>t, TextFacts DEF Progress, WellFormed, EditsTypeOK, Call
<1>9. OpenFilesExist'
  BY <1>1, <1>2, <1>4, <1>5, <1>t, TextFacts DEF OpenFilesExist, EditsInv, EditsTypeOK
<1> QED BY <1>6, <1>7, <1>8, <1>9, GoesOnKeeps

LEMMA WriteKeeps ==
  ASSUME EditsInv, NEW e \in Editor, WriteData(e) \/ WritePart(e)
  PROVE  EditsInv'
<1> DEFINE c == work[e]
<1>t. EditsTypeOK
  BY DEF EditsInv
<1>1. Busy(e) /\ c \in Call /\ WellFormed(c) /\ Progress(e)
  BY <1>t, BusyIsCall DEF WriteData, WritePart, At, EditsInv
<1>2. /\ c.op \in {"write", "append"} /\ c.stage = "open" /\ c.path \in Path
      /\ c.arg \in Document /\ c.arg \in Text
  BY <1>t, <1>1, TextFacts DEF WriteData, WritePart, At, Call, WellFormed
<1>3. PICK data \in Text, s \in {"done", "cut"} :
        /\ text' = Written(e, data)
        /\ work' = [work EXCEPT ![e].stage = s]
        /\ s = "done" => data = c.arg
  <2>1. CASE WriteData(e)
    BY <2>1, <1>2 DEF WriteData, Goes
  <2>2. CASE WritePart(e)
    <3>1. PICK n \in 0 .. Len(c.arg) - 1 : text' = Written(e, SubSeq(c.arg, 1, n))
      BY <2>2 DEF WritePart
    <3>2. SubSeq(c.arg, 1, n) \in Text
      BY <1>2, <3>1 DEF Text
    <3> QED BY <3>1, <3>2, <2>2 DEF WritePart, Goes
  <2> QED BY <2>1, <2>2
<1>4. /\ work'[e] \in Call
      /\ work'[e].op = c.op /\ work'[e].path = c.path /\ work'[e].to = c.to
      /\ work'[e].arg = c.arg /\ work'[e].was = c.was /\ work'[e].goal = c.goal
      /\ work'[e].stage = s /\ work'[e].fd = c.fd /\ work'[e].copy = c.copy
  BY <1>t, <1>1, <1>3 DEF EditsTypeOK, Call
<1>5. \A p \in Path :
        IF p = c.fd
        THEN /\ text[p] \in Text /\ text'[p] \in Text
             /\ text'[p] = IF c.op = "append" THEN text[p] \o data ELSE Over(text[p], data)
        ELSE text'[p] = text[p]
  <2> SUFFICES ASSUME NEW p \in Path
               PROVE  IF p = c.fd
                      THEN /\ text[p] \in Text /\ text'[p] \in Text
                           /\ text'[p] = IF c.op = "append" THEN text[p] \o data
                                         ELSE Over(text[p], data)
                      ELSE text'[p] = text[p]
    OBVIOUS
  <2>1. CASE p = c.fd
    <3>1. text[p] \in Text
      BY <2>1, <1>t DEF EditsInv, EditsTypeOK, OpenFilesExist
    <3>2. text[p] \o data \in Text /\ Over(text[p], data) \in Text
      BY <3>1, OverText, TextFacts
    <3> QED BY <2>1, <3>1, <3>2, <1>3 DEF Written
  <2>2. CASE p # c.fd
    BY <2>2, <1>3 DEF Written
  <2> QED BY <2>1, <2>2
<1>6. text' \in [Path -> Text \cup {NoFile}]
  <2>1. text' = [p \in Path |-> text'[p]]
    BY <1>3 DEF Written
  <2>2. \A p \in Path : text'[p] \in Text \cup {NoFile}
    BY <1>5, <1>t DEF EditsTypeOK
  <2> QED BY <2>1, <2>2
<1>7. GoesOn(e)
  <2>1. \A w \in Editor \ {e} : work'[w] = work[w]
    BY <1>3, <1>t DEF EditsTypeOK
  <2>2. work' \in [Editor -> Call \cup {Idle}]
    BY <1>3, <1>4, <1>t DEF EditsTypeOK
  <2>3. c.fd \in Path => Touches(e, c.fd)
    BY <1>1, <1>t, BusyIsCall DEF Touches
  <2>4. UNCHANGED <<patchOnly, expect, patched>>
    BY DEF WriteData, WritePart
  <2> QED BY <1>1, <1>4, <1>5, <1>6, <2>1, <2>2, <2>3, <2>4 DEF GoesOn, Moved
<1>8. WellFormed(work'[e])
  BY <1>1, <1>2, <1>4 DEF WellFormed
<1>9. Progress(e)'
  <2>1. ASSUME s = "done", c.goal # Unsure PROVE text'[c.path] = c.goal
    <3>1. /\ c.fd = c.path /\ data = c.arg
          /\ text[c.path] = IF c.op = "append" /\ c.was # NoFile THEN c.was ELSE <<>>
      BY <1>1, <1>2, <1>3, <2>1 DEF Progress
    <3>2. CASE c.op = "write"
      BY <3>1, <3>2, <1>1, <1>2, <1>5, <2>1, OverText DEF WellFormed
    <3>3. CASE c.op = "append"
      BY <3>1, <3>3, <1>1, <1>2, <1>5, <2>1, TextFacts DEF WellFormed, Outcome
    <3> QED BY <3>2, <3>3, <1>2
  <2> QED BY <2>1, <1>2, <1>3, <1>4 DEF Progress
<1>10. OpenFilesExist'
  BY <1>3, <1>4, <1>5, <1>t, TextFacts DEF OpenFilesExist, EditsInv, EditsTypeOK
<1> QED BY <1>7, <1>8, <1>9, <1>10, GoesOnKeeps

\* The steps of a patch before the rename, and its failures, change no file.
LEMMA CopyKeeps ==
  ASSUME EditsInv, NEW e \in Editor, CopyText(e) \/ WriteCopy(e) \/ SwapFails(e)
  PROVE  EditsInv'
<1> DEFINE c == work[e]
<1>t. EditsTypeOK
  BY DEF EditsInv
<1>1. Busy(e) /\ c \in Call /\ WellFormed(c) /\ Progress(e)
  BY <1>t, BusyIsCall DEF CopyText, WriteCopy, SwapFails, At, EditsInv
<1>2. c.op = "patch" /\ c.path \in Path /\ c.arg \in Patch
  BY <1>1 DEF CopyText, WriteCopy, SwapFails, At, Call, WellFormed
<1>3. Patched(text[c.path], c.arg) \in Text \cup {NoFile}
  BY <1>2, <1>t, PatchIsSeq, PatchedType DEF EditsTypeOK
<1>4. PICK s \in {"copied", "ready", "failed"}, copy \in Text \cup {NoFile} :
        /\ work' = [work EXCEPT ![e] = [c EXCEPT !.stage = s, !.copy = copy]]
        /\ IF c.stage = "called"
           THEN /\ copy = Patched(text[c.path], c.arg)
                /\ s = IF copy = NoFile THEN "failed" ELSE "copied"
           ELSE /\ c.stage \in {"copied", "ready"} /\ copy = c.copy
                /\ s \in {"ready", "failed"}
  <2>1. CASE CopyText(e)
    BY <2>1, <1>3, <1>t DEF CopyText, At, EditsTypeOK
  <2>2. CASE WriteCopy(e) \/ SwapFails(e)
    <3>1. PICK s \in {"ready", "failed"} : work' = [work EXCEPT ![e].stage = s]
      BY <2>2 DEF WriteCopy, SwapFails, Goes
    <3>2. [c EXCEPT !.stage = s] = [c EXCEPT !.stage = s, !.copy = c.copy]
      BY <1>1 DEF Call
    <3>3. c.stage \in {"copied", "ready"} /\ c.copy \in Text \cup {NoFile}
      BY <2>2, <1>1 DEF WriteCopy, SwapFails, At, Call
    <3>4. work' = [work EXCEPT ![e] = [c EXCEPT !.stage = s, !.copy = c.copy]]
      BY <3>1, <3>2, <1>t DEF EditsTypeOK
    <3> QED BY <3>3, <3>4
  <2> QED BY <2>1, <2>2
<1>5. /\ work'[e] \in Call
      /\ work'[e].op = c.op /\ work'[e].path = c.path /\ work'[e].to = c.to
      /\ work'[e].arg = c.arg /\ work'[e].was = c.was /\ work'[e].goal = c.goal
      /\ work'[e].stage = s /\ work'[e].fd = c.fd /\ work'[e].copy = copy
  BY <1>t, <1>1, <1>4 DEF EditsTypeOK, Call
<1>6. UNCHANGED <<patchOnly, text, expect, patched>>
  BY DEF CopyText, WriteCopy, SwapFails
<1>7. GoesOn(e)
  <2>1. \A w \in Editor \ {e} : work'[w] = work[w]
    BY <1>4, <1>t DEF EditsTypeOK
  <2>2. work' \in [Editor -> Call \cup {Idle}]
    BY <1>4, <1>5, <1>t DEF EditsTypeOK
  <2>3. c.fd \in Path => Touches(e, c.fd)
    BY <1>1, <1>t, BusyIsCall DEF Touches
  <2> QED BY <1>1, <1>5, <1>6, <2>1, <2>2, <2>3, <1>t DEF GoesOn, Moved, EditsTypeOK
<1>8. WellFormed(work'[e])
  BY <1>1, <1>2, <1>4, <1>5 DEF WellFormed
<1>9. Progress(e)'
  BY <1>1, <1>2, <1>4, <1>5, <1>6 DEF Progress, WellFormed, Outcome
<1>10. OpenFilesExist'
  BY <1>4, <1>5, <1>6, <1>t DEF OpenFilesExist, EditsInv, EditsTypeOK
<1> QED BY <1>7, <1>8, <1>9, <1>10, GoesOnKeeps

\* What becomes of the calls when a path leads elsewhere.
Followed(e, s, D, place) ==
  /\ work' \in [Editor -> Call \cup {Idle}]
  /\ work'[e] \in Call /\ work'[e] = [work[e] EXCEPT !.stage = s]
  /\ \A w \in Editor \ {e} :
       IF work[w].fd \in D
       THEN /\ Busy(w) /\ work[w] \in Call /\ work'[w] \in Call
            /\ work'[w] = [work[w] EXCEPT !.fd = place[work[w].fd]]
       ELSE work'[w] = work[w]

LEMMA FollowsCalls ==
  ASSUME EditsTypeOK, NEW e \in Editor, Busy(e), work[e].fd = NoFile,
         NEW s \in {"done", "failed"},
         NEW D \in SUBSET Path, NEW place \in [D -> Path \cup {Detached}],
         Follows(e, s, place)
  PROVE  Followed(e, s, D, place)
<1>1. \A w \in Editor :
        work'[w] = [work[w] EXCEPT !.stage = IF w = e THEN s ELSE @,
                                   !.fd = IF @ \in D THEN place[@] ELSE @]
  BY DEF Follows
<1>2. work[e] \in Call /\ NoFile \notin D
  BY BusyIsCall, TextFacts
<1>3. work'[e] = [work[e] EXCEPT !.stage = s] /\ work'[e] \in Call
  <2> DEFINE c == work[e]
  <2>1. work'[e] = [c EXCEPT !.stage = s, !.fd = c.fd]
    BY <1>1, <1>2
  <2> HIDE DEF c
  <2>2. c \in Call
    BY <1>2 DEF c
  <2>3. work'[e] = [c EXCEPT !.stage = s] /\ work'[e] \in Call
    BY <2>1, <2>2 DEF Call
  <2> QED BY <2>3 DEF c
<1>4. ASSUME NEW w \in Editor \ {e}
      PROVE  IF work[w].fd \in D
             THEN /\ Busy(w) /\ work[w] \in Call /\ work'[w] \in Call
                  /\ work'[w] = [work[w] EXCEPT !.fd = place[work[w].fd]]
             ELSE work'[w] = work[w]
  <2> DEFINE c == work[w]
  <2>1. work'[w] = [c EXCEPT !.stage = c.stage,
                             !.fd = IF c.fd \in D THEN place[c.fd] ELSE c.fd]
    BY <1>1
  <2> HIDE DEF c
  <2>2. CASE c \in Call /\ c.fd \in D
    <3>1. place[c.fd] \in Path \cup {Detached}
      BY <2>2
    <3> DEFINE q == place[c.fd]
    <3>2. work'[w] = [c EXCEPT !.stage = c.stage, !.fd = q]
      BY <2>1, <2>2
    <3> HIDE DEF q
    <3>3. work'[w] = [c EXCEPT !.fd = q]
      BY <2>2, <3>2 DEF Call
    <3>4. [c EXCEPT !.fd = q] \in Call
      BY <2>2, <3>1 DEF Call, q
    <3>5. Busy(w)
      BY <2>2 DEF Busy, Idle, Call, c
    <3> QED BY <2>2, <3>3, <3>4, <3>5 DEF c, q
  <2>3. CASE c \in Call /\ c.fd \notin D
    <3>1. work'[w] = [c EXCEPT !.stage = c.stage, !.fd = c.fd]
      BY <2>1, <2>3
    <3>2. work'[w] = c
      BY <2>3, <3>1 DEF Call
    <3> QED BY <2>3, <3>2 DEF c
  <2>4. CASE c = Idle
    <3>1. c.fd \notin D
      BY <2>4, <1>2 DEF Idle
    <3>2. work'[w] = [c EXCEPT !.stage = c.stage, !.fd = c.fd]
      BY <2>1, <3>1
    <3>3. [Idle EXCEPT !.stage = Idle.stage, !.fd = Idle.fd] = Idle
      BY DEF Idle
    <3> QED BY <2>4, <3>1, <3>2, <3>3 DEF c
  <2> QED BY <2>2, <2>3, <2>4 DEF EditsTypeOK, c
<1>5. work' \in [Editor -> Call \cup {Idle}]
  <2>1. work' = [w \in Editor |-> work'[w]]
    BY DEF Follows
  <2>2. \A w \in Editor : work'[w] \in Call \cup {Idle}
    BY <1>3, <1>4 DEF EditsTypeOK
  <2> QED BY <2>1, <2>2
<1> QED BY <1>3, <1>4, <1>5 DEF Followed

LEMMA SwapKeeps ==
  ASSUME EditsInv, NEW e \in Editor, Swap(e)
  PROVE  EditsInv'
<1> DEFINE c == work[e]
           place == [p \in {c.path} |-> Detached]
<1>t. EditsTypeOK
  BY DEF EditsInv
<1>1. Busy(e) /\ c \in Call /\ WellFormed(c) /\ Progress(e)
  BY <1>t, BusyIsCall DEF Swap, At, EditsInv
<1>2. c.op = "patch" /\ c.stage = "ready" /\ c.path \in Path /\ c.copy \in Text /\ c.fd = NoFile
  BY <1>1 DEF Swap, At, Call, WellFormed
<1>3. text' = [text EXCEPT ![c.path] = c.copy]
  BY DEF Swap
<1>4. {c.path} \in SUBSET Path /\ place \in [{c.path} -> Path \cup {Detached}]
      /\ Follows(e, "done", place)
  BY <1>2 DEF Swap
<1> HIDE DEF place
<1>f. Followed(e, "done", {c.path}, place)
  BY <1>t, <1>1, <1>2, <1>4, FollowsCalls
<1>5. /\ work' \in [Editor -> Call \cup {Idle}]
      /\ work'[e] \in Call /\ work'[e] = [c EXCEPT !.stage = "done"]
      /\ \A w \in Editor \ {e} :
           IF work[w].fd \in {c.path}
           THEN /\ Busy(w) /\ work[w] \in Call /\ work'[w] \in Call
                /\ work'[w] = [work[w] EXCEPT !.fd = place[work[w].fd]]
           ELSE work'[w] = work[w]
  BY <1>f DEF Followed
<1>6. place[c.path] = Detached
  BY DEF place
<1>7. GoesOn(e)
  <2>1. \A w \in Editor \ {e} : Moved(e, w)
    BY <1>1, <1>2, <1>5, <1>6, <1>t, BusyIsCall, TextFacts DEF Moved, Touches
  <2>2. text' \in [Path -> Text \cup {NoFile}]
    BY <1>2, <1>3, <1>t DEF EditsTypeOK
  <2>3. \A p \in Path : ~ Touches(e, p) => text'[p] = text[p]
    BY <1>1, <1>2, <1>3, <1>t, BusyIsCall DEF EditsTypeOK, Touches
  <2> QED BY <1>1, <1>2, <1>5, <2>1, <2>2, <2>3, TextFacts DEF GoesOn, Swap, Call
<1>8. WellFormed(work'[e])
  BY <1>1, <1>2, <1>5 DEF WellFormed, Call
<1>9. Progress(e)'
  BY <1>1, <1>2, <1>3, <1>5, <1>t DEF Progress, EditsTypeOK, Call
<1>10. OpenFilesExist'
  BY <1>1, <1>2, <1>3, <1>5, <1>6, <1>t, TextFacts DEF OpenFilesExist, EditsInv, EditsTypeOK, Call
<1> QED BY <1>7, <1>8, <1>9, <1>10, GoesOnKeeps

LEMMA RemoveKeeps ==
  ASSUME EditsInv, NEW e \in Editor, RemoveFile(e)
  PROVE  EditsInv'
<1> DEFINE c == work[e]
           place == [p \in {c.path} |-> Detached]
<1>t. EditsTypeOK
  BY DEF EditsInv
<1>1. Busy(e) /\ c \in Call /\ WellFormed(c) /\ Progress(e)
  BY <1>t, BusyIsCall DEF RemoveFile, At, EditsInv
<1>2. c.op = "remove" /\ c.stage = "called" /\ c.path \in Path /\ c.fd = NoFile
  BY <1>1 DEF RemoveFile, At, Call, WellFormed
<1>3. text' = [text EXCEPT ![c.path] = NoFile]
  BY DEF RemoveFile
<1>4. PICK s \in {"done", "failed"} :
        Follows(e, s, place) /\ (s = "failed" => text[c.path] = NoFile)
  BY DEF RemoveFile
<1>p. {c.path} \in SUBSET Path /\ place \in [{c.path} -> Path \cup {Detached}]
  BY <1>2
<1> HIDE DEF place
<1>f. Followed(e, s, {c.path}, place)
  BY <1>t, <1>1, <1>2, <1>4, <1>p, FollowsCalls
<1>5. /\ work' \in [Editor -> Call \cup {Idle}]
      /\ work'[e] \in Call /\ work'[e] = [c EXCEPT !.stage = s]
      /\ \A w \in Editor \ {e} :
           IF work[w].fd \in {c.path}
           THEN /\ Busy(w) /\ work[w] \in Call /\ work'[w] \in Call
                /\ work'[w] = [work[w] EXCEPT !.fd = place[work[w].fd]]
           ELSE work'[w] = work[w]
  BY <1>f DEF Followed
<1>6. place[c.path] = Detached
  BY DEF place
<1>7. GoesOn(e)
  <2>1. \A w \in Editor \ {e} : Moved(e, w)
    BY <1>1, <1>2, <1>5, <1>6, <1>t, BusyIsCall, TextFacts DEF Moved, Touches
  <2>2. text' \in [Path -> Text \cup {NoFile}]
    BY <1>2, <1>3, <1>t DEF EditsTypeOK
  <2>3. \A p \in Path : ~ Touches(e, p) => text'[p] = text[p]
    BY <1>1, <1>2, <1>3, <1>t, BusyIsCall DEF EditsTypeOK, Touches
  <2> QED BY <1>1, <1>2, <1>5, <2>1, <2>2, <2>3, TextFacts DEF GoesOn, RemoveFile, Call
<1>8. WellFormed(work'[e])
  BY <1>1, <1>2, <1>5 DEF WellFormed, Call
<1>9. Progress(e)'
  BY <1>1, <1>2, <1>3, <1>4, <1>5, <1>t DEF Progress, EditsTypeOK, WellFormed, Outcome, Call
<1>10. OpenFilesExist'
  BY <1>1, <1>2, <1>3, <1>5, <1>6, <1>t, TextFacts DEF OpenFilesExist, EditsInv, EditsTypeOK, Call
<1> QED BY <1>7, <1>8, <1>9, <1>10, GoesOnKeeps

LEMMA MoveKeeps ==
  ASSUME EditsInv, NEW e \in Editor, MoveFile(e)
  PROVE  EditsInv'
<1> DEFINE c == work[e]
<1>t. EditsTypeOK
  BY DEF EditsInv
<1>1. Busy(e) /\ c \in Call /\ WellFormed(c) /\ Progress(e)
  BY <1>t, BusyIsCall DEF MoveFile, At, EditsInv
<1>2. /\ c.op = "move" /\ c.stage = "called" /\ c.fd = NoFile
      /\ c.path \in Path /\ c.to \in Path /\ c.path # c.to
  BY <1>1 DEF MoveFile, At, Call, WellFormed
<1>3. CASE text[c.path] = NoFile
  <2>1. UNCHANGED <<patchOnly, text, expect, patched>>
        /\ work' = [work EXCEPT ![e].stage = "failed"]
    BY <1>3 DEF MoveFile, Goes
  <2>2. work'[e] = [c EXCEPT !.stage = "failed"] /\ work'[e] \in Call
        /\ \A w \in Editor \ {e} : work'[w] = work[w]
    BY <2>1, <1>1, <1>t DEF EditsTypeOK, Call
  <2>3. GoesOn(e)
    BY <2>1, <2>2, <1>1, <1>2, <1>t, TextFacts DEF GoesOn, Moved, EditsTypeOK, Call
  <2>4. WellFormed(work'[e])
    BY <2>2, <1>1, <1>2 DEF WellFormed, Call
  <2>5. Progress(e)'
    BY <2>1, <2>2, <1>1, <1>2 DEF Progress, Call
  <2>6. OpenFilesExist'
    BY <2>1, <2>2, <1>1, <1>2, TextFacts DEF OpenFilesExist, EditsInv, Call
  <2> QED BY <2>3, <2>4, <2>5, <2>6, GoesOnKeeps
<1>4. CASE text[c.path] # NoFile
  <2> DEFINE place == [p \in {c.path, c.to} |-> IF p = c.path THEN c.to ELSE Detached]
  <2>1. /\ text' = [text EXCEPT ![c.to] = text[c.path], ![c.path] = NoFile]
        /\ Follows(e, "done", place)
    BY <1>4 DEF MoveFile
  <2>2. {c.path, c.to} \in SUBSET Path /\ place \in [{c.path, c.to} -> Path \cup {Detached}]
    BY <1>2
  <2>3. place[c.path] = c.to /\ place[c.to] = Detached
    BY <1>2
  <2> HIDE DEF place
  <2>f. Followed(e, "done", {c.path, c.to}, place)
    BY <1>t, <1>1, <1>2, <2>1, <2>2, FollowsCalls
  <2>4. /\ work' \in [Editor -> Call \cup {Idle}]
        /\ work'[e] \in Call /\ work'[e] = [c EXCEPT !.stage = "done"]
        /\ \A w \in Editor \ {e} :
             IF work[w].fd \in {c.path, c.to}
             THEN /\ Busy(w) /\ work[w] \in Call /\ work'[w] \in Call
                  /\ work'[w] = [work[w] EXCEPT !.fd = place[work[w].fd]]
             ELSE work'[w] = work[w]
    BY <2>f DEF Followed
  <2>5. /\ text' \in [Path -> Text \cup {NoFile}]
        /\ text'[c.to] = text[c.path] /\ text'[c.path] = NoFile
        /\ \A p \in Path \ {c.to, c.path} : text'[p] = text[p]
    BY <1>2, <2>1, <1>t DEF EditsTypeOK
  <2>6. Touches(e, c.path) /\ Touches(e, c.to)
    BY <1>1, <1>t, BusyIsCall DEF Touches
  <2>7. GoesOn(e)
    <3>1. \A w \in Editor \ {e} : Moved(e, w)
      <4> SUFFICES ASSUME NEW w \in Editor \ {e} PROVE Moved(e, w)
        OBVIOUS
      <4>1. CASE work[w].fd \notin {c.path, c.to}
        BY <4>1, <2>4 DEF Moved
      <4>2. CASE work[w].fd = c.path
        BY <4>2, <1>2, <2>3, <2>4, <2>6 DEF Moved
      <4>3. CASE work[w].fd = c.to
        BY <4>3, <1>2, <2>3, <2>4, <2>6, TextFacts DEF Moved
      <4> QED BY <4>1, <4>2, <4>3
    <3> QED BY <1>1, <1>2, <2>4, <2>5, <2>6, <3>1, TextFacts DEF GoesOn, MoveFile, Call
  <2>8. WellFormed(work'[e])
    BY <1>1, <1>2, <2>4 DEF WellFormed, Call
  <2>9. Progress(e)'
    BY <1>1, <1>2, <2>4, <2>5 DEF Progress, WellFormed, Outcome, Call
  <2>10. OpenFilesExist'
    <3> SUFFICES ASSUME NEW w \in Editor, work'[w].fd \in Path
                 PROVE  text'[work'[w].fd] # NoFile
      BY DEF OpenFilesExist
    <3>1. w # e
      BY <1>1, <1>2, <2>4, TextFacts DEF Call
    <3>2. CASE work[w].fd \notin {c.path, c.to}
      BY <3>1, <3>2, <2>4, <2>5 DEF EditsInv, OpenFilesExist
    <3>3. CASE work[w].fd = c.path
      BY <3>1, <3>3, <1>4, <2>3, <2>4, <2>5 DEF Call
    <3>4. CASE work[w].fd = c.to
      BY <3>1, <3>4, <1>2, <2>3, <2>4, TextFacts DEF Call
    <3> QED BY <3>2, <3>3, <3>4
  <2> QED BY <2>7, <2>8, <2>9, <2>10, GoesOnKeeps
<1> QED BY <1>3, <1>4

LEMMA OutcomeText ==
  ASSUME NEW op \in {"write", "append", "patch", "move", "remove"},
         NEW t \in Text \cup {NoFile, Unsure}, op # "write" => t # Unsure, NEW arg,
         op \in {"write", "append"} => arg \in Document,
         op = "patch" => arg \in Patch
  PROVE  Outcome(op, t, arg) \in Text \cup {NoFile}
<1>1. CASE op = "patch"
  BY <1>1, PatchIsSeq, PatchedType DEF Outcome
<1>2. CASE op # "patch"
  BY <1>2, TextFacts DEF Outcome
<1> QED BY <1>1, <1>2

LEMMA BeginKeeps ==
  ASSUME EditsInv, NEW e \in Editor,
         NEW op \in {"write", "append", "patch", "move", "remove"},
         NEW p \in Path, NEW to \in Path, NEW arg \in Document \cup Patch \cup {<<>>},
         op = "move" <=> to # p,
         op \in {"write", "append"} => arg \in Document,
         op = "patch" => arg \in Patch,
         BeginEdit(e, op, p, to, arg)
  PROVE  EditsInv'
<1> DEFINE alone == \A v \in Editor : ~ Touches(v, p) /\ ~ Touches(v, to)
           goal == IF expect[p] = Unsure /\ op # "write" THEN Unsure
                   ELSE Outcome(op, expect[p], arg)
           shares(w) == Touches(w, p) \/ Touches(w, to)
           c == [op |-> op, path |-> p, to |-> to, arg |-> arg, stage |-> "called",
                 fd |-> NoFile, copy |-> NoFile,
                 was |-> IF alone THEN expect[p] ELSE Unsure,
                 goal |-> IF alone THEN goal ELSE Unsure]
<1>t. EditsTypeOK
  BY DEF EditsInv
<1>1. /\ work[e] = Idle /\ ~ Busy(e)
      /\ work' = [w \in Editor |->
           IF w = e THEN c
           ELSE IF shares(w) THEN [work[w] EXCEPT !.was = Unsure, !.goal = Unsure] ELSE work[w]]
      /\ expect' = [expect EXCEPT ![p] = Unsure, ![to] = Unsure]
      /\ UNCHANGED <<patchOnly, text, patched>>
  BY DEF BeginEdit, Busy
<1>2. goal \in Text \cup {NoFile, Unsure} /\ expect[p] \in Text \cup {NoFile, Unsure}
  BY <1>t, OutcomeText DEF EditsTypeOK
<1>3. c.was \in Text \cup {NoFile, Unsure} /\ c.goal \in Text \cup {NoFile, Unsure}
  BY <1>2
<1>4. /\ alone => c.was = expect[p]
      /\ c.was # Unsure => alone
      /\ c.goal # Unsure => alone /\ c.goal = Outcome(op, expect[p], arg)
                            /\ (op # "write" => expect[p] # Unsure)
  OBVIOUS
<1>w. op = "write" => Outcome(op, expect[p], arg) = arg
  BY DEF Outcome
<1>5. work'[e] = c
  BY <1>1
<1> HIDE DEF alone, goal
<1>6. c \in Call
  BY <1>3 DEF Call
<1>7. /\ c.op = op /\ c.path = p /\ c.to = to /\ c.arg = arg /\ c.stage = "called"
      /\ c.fd = NoFile /\ c.copy = NoFile
  OBVIOUS
<1> HIDE DEF c
<1>8. ASSUME NEW w \in Editor \ {e}
      PROVE  IF shares(w)
             THEN /\ Busy(w) /\ work[w] \in Call /\ work'[w] \in Call
                  /\ work'[w] = [work[w] EXCEPT !.was = Unsure, !.goal = Unsure]
             ELSE work'[w] = work[w]
  <2>1. CASE shares(w)
    <3>1. Busy(w) /\ work[w] \in Call
      BY <2>1, <1>t, BusyIsCall
    <3>2. work'[w] = [work[w] EXCEPT !.was = Unsure, !.goal = Unsure]
      BY <2>1, <1>1
    <3> QED BY <2>1, <3>1, <3>2 DEF Call
  <2>2. CASE ~ shares(w)
    BY <2>2, <1>1
  <2> QED BY <2>1, <2>2
<1> HIDE DEF shares
<1>9. ASSUME NEW w \in Editor \ {e}
      PROVE  /\ Busy(w)' <=> Busy(w)
             /\ work'[w].op = work[w].op /\ work'[w].fd = work[w].fd
             /\ Busy(w) => /\ work[w] \in Call
                           /\ work'[w].path = work[w].path /\ work'[w].to = work[w].to
                           /\ work'[w].arg = work[w].arg /\ work'[w].stage = work[w].stage
                           /\ work'[w].copy = work[w].copy
                           /\ work'[w].was \in {work[w].was, Unsure}
                           /\ work'[w].goal \in {work[w].goal, Unsure}
             /\ shares(w) => work'[w].was = Unsure /\ work'[w].goal = Unsure
             /\ \A x \in Path : Touches(w, x)' <=> Touches(w, x)
  <2>1. CASE shares(w)
    BY <2>1, <1>8 DEF Call, Busy, Idle, Touches
  <2>2. CASE ~ shares(w)
    BY <2>2, <1>8, <1>t, BusyIsCall DEF Busy, Touches
  <2> QED BY <2>1, <2>2
<1>10. \A x \in Path : Touches(e, x)' => x \in {p, to}
  BY <1>5, <1>7, TextFacts DEF Touches
<1>11. \A x \in Path : expect'[x] = IF x \in {p, to} THEN Unsure ELSE expect[x]
  BY <1>1, <1>t DEF EditsTypeOK
<1>12. EditsTypeOK'
  <2>1. work' \in [Editor -> Call \cup {Idle}]
    <3>1. \A w \in Editor : work'[w] \in Call \cup {Idle}
      BY <1>5, <1>6, <1>8, <1>t DEF EditsTypeOK
    <3>2. work' = [w \in Editor |-> work'[w]]
      BY <1>1
    <3> QED BY <3>1, <3>2
  <2>2. expect' \in [Path -> Text \cup {NoFile, Unsure}]
    BY <1>1, <1>t DEF EditsTypeOK
  <2> QED BY <2>1, <2>2, <1>1, <1>t DEF EditsTypeOK
<1>13. (\A w \in Editor : Busy(w) => WellFormed(work[w]))'
  <2>1. WellFormed(work'[e])
    BY <1>4, <1>w, <1>5, <1>7 DEF WellFormed
  <2>2. ASSUME NEW w \in Editor \ {e}, Busy(w)' PROVE WellFormed(work'[w])
    <3>1. WellFormed(work[w])
      BY <2>2, <1>9 DEF EditsInv
    <3>2. CASE shares(w)
      BY <3>1, <3>2, <2>2, <1>9 DEF WellFormed
    <3>3. CASE ~ shares(w)
      BY <3>1, <3>3, <1>8
    <3> QED BY <3>2, <3>3
  <2> QED BY <2>1, <2>2
<1>14. (\A w \in Editor, x \in Path : Touches(w, x) => expect[x] = Unsure)'
  BY <1>9, <1>10, <1>11 DEF EditsInv
<1>15. ASSUME NEW u \in Editor, NEW w \in Editor, u # w, NEW x \in Path,
              Touches(u, x)', Touches(w, x)'
       PROVE  ~ CountsOn(u)'
  <2>1. CASE u # e /\ w # e
    <3>1. Busy(u) /\ ~ CountsOn(u)
      BY <2>1, <1>15, <1>9, <1>t, BusyIsCall DEF EditsInv
    <3> QED BY <2>1, <3>1, <1>9 DEF CountsOn
  <2>2. CASE u = e
    <3>1. x \in {p, to} /\ Touches(w, x)
      BY <2>2, <1>15, <1>9, <1>10
    <3>2. ~ alone
      BY <3>1 DEF alone
    <3> QED BY <2>2, <3>2, <1>4, <1>5 DEF CountsOn
  <2>3. CASE w = e
    <3>1. x \in {p, to} /\ Touches(u, x) /\ u # e
      BY <2>3, <1>15, <1>9, <1>10
    <3>2. shares(u)
      BY <3>1 DEF shares
    <3> QED BY <3>1, <3>2, <1>9 DEF CountsOn
  <2> QED BY <2>1, <2>2, <2>3
<1>16. (\A w \in Editor : Busy(w) => Progress(w))'
  <2>1. Progress(e)'
    BY <1>1, <1>4, <1>5, <1>7 DEF Progress, EditsInv, QuietEditKept
  <2>2. ASSUME NEW w \in Editor \ {e}, Busy(w)' PROVE Progress(w)'
    <3>1. Progress(w) /\ Busy(w)
      BY <2>2, <1>9 DEF EditsInv
    <3>2. CASE shares(w)
      BY <3>1, <3>2, <1>9 DEF Progress
    <3>3. CASE ~ shares(w)
      BY <3>1, <3>3, <1>1, <1>8 DEF Progress
    <3> QED BY <3>2, <3>3
  <2> QED BY <2>1, <2>2
<1>17. OpenFilesExist'
  <2>1. \A w \in Editor : work[w].fd \in Path => text[work[w].fd] # NoFile
    BY DEF OpenFilesExist, EditsInv
  <2>2. work'[e].fd = NoFile
    BY <1>5, <1>7
  <2>3. \A w \in Editor : work'[w].fd \in Path => text'[work'[w].fd] # NoFile
    BY <1>1, <1>9, <2>1, <2>2, TextFacts
  <2> QED BY <2>3 DEF OpenFilesExist
<1>18. QuietEditKept'
  BY <1>1, <1>11 DEF QuietEditKept, EditsInv
<1> QED BY <1>12, <1>13, <1>14, <1>15, <1>16, <1>17, <1>18 DEF EditsInv

LEMMA AnswerKeeps ==
  ASSUME EditsInv, NEW e \in Editor, AnswerEdit(e)
  PROVE  EditsInv'
<1> DEFINE c == work[e]
           told == CASE c.stage = "done"   -> c.goal
                     [] c.stage = "failed" -> c.was
                     [] OTHER              -> Unsure
<1>t. EditsTypeOK
  BY DEF EditsInv
<1>1. Busy(e) /\ c \in Call /\ WellFormed(c) /\ Progress(e) /\ c.stage \in {"done", "failed", "cut"}
  BY <1>t, BusyIsCall DEF AnswerEdit, EditsInv
<1>2. told \in Text \cup {NoFile, Unsure} /\ c.was \in Text \cup {NoFile, Unsure}
  BY <1>1 DEF Call
<1>3. /\ told # Unsure => CountsOn(e)
      /\ told # Unsure => text[c.path] = told
      /\ told # Unsure /\ c.stage = "done" /\ c.to # c.path => text[c.to] = c.was
  BY <1>1 DEF CountsOn, Progress, WellFormed
<1>4. /\ work' = [work EXCEPT ![e] = Idle]
      /\ expect' = [p \in Path |->
           IF told = Unsure THEN expect[p]
           ELSE IF p = c.path THEN told
           ELSE IF p = c.to /\ c.stage = "done" THEN c.was ELSE expect[p]]
      /\ UNCHANGED <<patchOnly, text>>
  BY DEF AnswerEdit
<1>5. patched' \in [Path -> SUBSET Patch]
  <2>1. c.op = "patch" => c.arg \in Patch /\ c.path \in Path
    BY <1>1 DEF WellFormed, Call
  <2>2. patched' = IF c.op = "patch" /\ c.stage = "done" /\ c.path \in patchOnly
                   THEN [patched EXCEPT ![c.path] = @ \cup {c.arg}] ELSE patched
    BY DEF AnswerEdit
  <2> QED BY <2>1, <2>2, <1>t DEF EditsTypeOK
<1> HIDE DEF told
<1>6. work'[e] = Idle /\ \A w \in Editor \ {e} : work'[w] = work[w]
  BY <1>4, <1>t DEF EditsTypeOK
<1>7. /\ \A p \in Path : ~ Touches(e, p)'
      /\ \A w \in Editor \ {e}, p \in Path : Touches(w, p)' <=> Touches(w, p)
  BY <1>6 DEF Touches, Idle
<1>8. EditsTypeOK'
  <2>1. expect' \in [Path -> Text \cup {NoFile, Unsure}]
    BY <1>2, <1>4, <1>t DEF EditsTypeOK
  <2> QED BY <2>1, <1>4, <1>5, <1>t DEF EditsTypeOK
<1>9. (\A w \in Editor : Busy(w) => WellFormed(work[w]))'
  BY <1>6 DEF EditsInv, Busy
<1>10. (\A w \in Editor, p \in Path : Touches(w, p) => expect[p] = Unsure)'
  <2> SUFFICES ASSUME NEW w \in Editor, NEW p \in Path, Touches(w, p)' PROVE expect'[p] = Unsure
    OBVIOUS
  <2>1. w # e /\ Touches(w, p) /\ expect[p] = Unsure
    BY <1>7 DEF EditsInv
  <2>2. CASE told = Unsure
    BY <2>1, <2>2, <1>4
  <2>3. CASE told # Unsure
    <3>1. ~ Touches(e, p)
      BY <2>1, <2>3, <1>3 DEF EditsInv
    <3>2. p \notin {c.path, c.to}
      BY <3>1, <1>1, <1>t, BusyIsCall DEF Touches
    <3> QED BY <2>1, <3>2, <1>4
  <2> QED BY <2>2, <2>3
<1>11. (\A u, w \in Editor :
          u # w /\ (\E p \in Path : Touches(u, p) /\ Touches(w, p)) => ~ CountsOn(u))'
  <2> SUFFICES ASSUME NEW u \in Editor, NEW w \in Editor, u # w, NEW p \in Path,
                      Touches(u, p)', Touches(w, p)'
               PROVE  ~ CountsOn(u)'
    OBVIOUS
  <2>1. u # e /\ Touches(u, p) /\ Touches(w, p)
    BY <1>7
  <2> QED BY <2>1, <1>6 DEF EditsInv, CountsOn
<1>12. (\A w \in Editor : Busy(w) => Progress(w))'
  <2> SUFFICES ASSUME NEW w \in Editor, Busy(w)' PROVE Progress(w)'
    OBVIOUS
  <2>1. w # e /\ work'[w] = work[w] /\ Busy(w)
    BY <1>6 DEF Busy
  <2> QED BY <2>1, <1>4 DEF EditsInv, Progress
<1>13. OpenFilesExist'
  BY <1>4, <1>6, TextFacts DEF OpenFilesExist, EditsInv, Idle
<1>14. QuietEditKept'
  <2> SUFFICES ASSUME NEW p \in Path, expect'[p] # Unsure PROVE text[p] = expect'[p]
    BY <1>4 DEF QuietEditKept
  <2>1. CASE expect'[p] = expect[p]
    BY <2>1 DEF EditsInv, QuietEditKept
  <2>2. CASE expect'[p] # expect[p]
    BY <2>2, <1>3, <1>4
  <2> QED BY <2>1, <2>2
<1> QED BY <1>8, <1>9, <1>10, <1>11, <1>12, <1>13, <1>14 DEF EditsInv

LEMMA EditsCrashKeeps == EditsInv /\ CrashEdits => EditsInv'
<1> SUFFICES ASSUME EditsInv, CrashEdits PROVE EditsInv'
  OBVIOUS
<1>1. work' = [e \in Editor |-> Idle] /\ UNCHANGED <<patchOnly, text, expect, patched>>
  BY DEF CrashEdits
<1>2. \A e \in Editor : ~ Busy(e)' /\ work'[e].fd = NoFile /\ \A p \in Path : ~ Touches(e, p)'
  BY <1>1 DEF Busy, Touches, Idle
<1>3. EditsTypeOK' /\ QuietEditKept'
  BY <1>1 DEF EditsInv, EditsTypeOK, QuietEditKept
<1> QED BY <1>2, <1>3, TextFacts DEF EditsInv, OpenFilesExist

LEMMA EditsInvStep == EditsInv /\ [EditsNext]_editVars => EditsInv'
<1> SUFFICES ASSUME EditsInv, [EditsNext]_editVars PROVE EditsInv'
  OBVIOUS
<1>1. ASSUME NEW e \in Editor, NEW p \in Path, NEW doc \in Document, AskWrite(e, p, doc)
      PROVE  EditsInv'
  BY <1>1, BeginKeeps DEF AskWrite
<1>2. ASSUME NEW e \in Editor, NEW p \in Path, NEW q \in Patch, AskPatch(e, p, q)
      PROVE  EditsInv'
  BY <1>2, BeginKeeps DEF AskPatch
<1>3. ASSUME NEW e \in Editor, NEW p \in Path, NEW to \in Path, AskMove(e, p, to)
      PROVE  EditsInv'
  BY <1>3, BeginKeeps DEF AskMove
<1>4. ASSUME NEW e \in Editor, NEW p \in Path, AskRemove(e, p)
      PROVE  EditsInv'
  BY <1>4, BeginKeeps DEF AskRemove
<1>5. ASSUME NEW e \in Editor,
             \/ OpenFile(e) \/ WriteData(e) \/ WritePart(e)
             \/ CopyText(e) \/ WriteCopy(e) \/ Swap(e) \/ SwapFails(e)
             \/ MoveFile(e) \/ RemoveFile(e) \/ AnswerEdit(e)
      PROVE  EditsInv'
  BY <1>5, OpenFileKeeps, WriteKeeps, CopyKeeps, SwapKeeps, MoveKeeps, RemoveKeeps, AnswerKeeps
<1>6. CASE CrashEdits
  BY <1>6, EditsCrashKeeps
<1>7. CASE UNCHANGED editVars
  BY <1>7
     DEF editVars, EditsInv, EditsTypeOK, Busy, Touches, CountsOn, Progress, OpenFilesExist,
         QuietEditKept
<1> QED BY <1>1, <1>2, <1>3, <1>4, <1>5, <1>6, <1>7 DEF EditsNext, EditorStep

\* The types of the file tools: whatever the editors do, a path holds a text or leads
\* nowhere, and a call is one of the calls.
THEOREM EditsTypeCorrect == EditsSpec => []EditsTypeOK
<1>1. EditsInv => EditsTypeOK
  BY DEF EditsInv
<1> QED BY <1>1, EditsInvInit, EditsInvStep, PTL DEF EditsSpec

\* fs_write, fs_patch, fs_move and fs_remove: what a call that no other overlaps has
\* answered stays true until the next call about its files, for any number of
\* editors, whatever other calls do to other files, and across crashes.
THEOREM EditsQuietEditKept == EditsSpec => []QuietEditKept
<1>1. EditsInv => QuietEditKept
  BY DEF EditsInv
<1> QED BY <1>1, EditsInvInit, EditsInvStep, PTL DEF EditsSpec

-----------------------------------------------------------------------------
(* Every step keeps PatchesInv                                             *)

LEMMA PatchesInvInit == NewWordsTell /\ EditsInit => PatchesInv
<1> SUFFICES ASSUME NewWordsTell, EditsInit PROVE PatchesInv
  OBVIOUS
<1>1. Whole(Original)
  BY DEF Whole, NewWordsTell
<1>2. Original # NoFile
  BY EditsAssumption
<1> QED BY <1>1, <1>2 DEF EditsInit, PatchesInv, Touches, Idle

\* A call that is still about a file that only patches change, and has the copy it had.
Same(w, p) ==
  /\ Touches(w, p)
  /\ work'[w].op = work[w].op /\ work'[w].stage = work[w].stage /\ work'[w].copy = work[w].copy

LEMMA PatchesFrame ==
  ASSUME PatchesInv, NEW e \in Editor, patchOnly' = patchOnly,
         \A p \in patchOnly : text'[p] # NoFile /\ Whole(text'[p]),
         \A w \in Editor \ {e} : \A p \in patchOnly : Touches(w, p)' => Same(w, p),
         \A p \in patchOnly : Touches(e, p)' =>
           /\ work'[e].op = "patch"
           /\ work'[e].stage \in {"copied", "ready"} => Whole(work'[e].copy)
  PROVE  PatchesInv'
BY DEF PatchesInv, Same

LEMMA FollowsSame ==
  ASSUME EditsTypeOK, NEW e \in Editor, work[e] \in Call, NEW s, NEW place,
         \A p \in DOMAIN place : place[p] \notin patchOnly,
         Follows(e, s, place)
  PROVE  /\ work'[e].op = work[e].op /\ work'[e].stage = s
         /\ \A w \in Editor \ {e} : \A p \in patchOnly : Touches(w, p)' => Same(w, p)
<1>1. \A w \in Editor :
        work'[w] = [work[w] EXCEPT !.stage = IF w = e THEN s ELSE @,
                                   !.fd = IF @ \in DOMAIN place THEN place[@] ELSE @]
  BY DEF Follows
<1>2. work'[e].op = work[e].op /\ work'[e].stage = s
  BY <1>1 DEF Call
<1>3. ASSUME NEW w \in Editor \ {e}, NEW p \in patchOnly, Touches(w, p)' PROVE Same(w, p)
  <2> DEFINE c == work[w]
  <2>1. work'[w] = [c EXCEPT !.stage = c.stage,
                             !.fd = IF c.fd \in DOMAIN place THEN place[c.fd] ELSE c.fd]
    BY <1>1
  <2>2. c \in Call \/ c = Idle
    BY DEF EditsTypeOK
  <2> HIDE DEF c
  <2>3. CASE c = Idle
    BY <2>1, <2>3, <1>3 DEF Idle, Touches
  <2>4. CASE c \in Call
    <3>1. /\ work'[w].op = c.op /\ work'[w].stage = c.stage /\ work'[w].copy = c.copy
          /\ work'[w].path = c.path /\ work'[w].to = c.to
          /\ work'[w].fd = IF c.fd \in DOMAIN place THEN place[c.fd] ELSE c.fd
      BY <2>1, <2>4 DEF Call
    <3> QED BY <3>1, <1>3 DEF Touches, Same, c
  <2> QED BY <2>2, <2>3, <2>4
<1> QED BY <1>2, <1>3

LEMMA PatchesInvStep ==
  NewWordsTell /\ EditsInv /\ PatchesInv /\ [EditsNext]_editVars => PatchesInv'
<1> SUFFICES ASSUME NewWordsTell, EditsInv, PatchesInv, [EditsNext]_editVars
             PROVE  PatchesInv'
  OBVIOUS
<1>t. EditsTypeOK
  BY DEF EditsInv
<1>1. ASSUME NEW e \in Editor,
             NEW op \in {"write", "append", "patch", "move", "remove"},
             NEW p \in Path, NEW to \in Path, NEW arg,
             op # "patch" => p \notin patchOnly /\ to \notin patchOnly,
             BeginEdit(e, op, p, to, arg)
      PROVE  PatchesInv'
  <2>1. UNCHANGED <<patchOnly, text>>
    BY <1>1 DEF BeginEdit
  <2>2. /\ work'[e].op = op /\ work'[e].path = p /\ work'[e].to = to
        /\ work'[e].stage = "called" /\ work'[e].fd = NoFile
    BY <1>1 DEF BeginEdit
  <2>3. ASSUME NEW w \in Editor \ {e}, NEW x \in Path, Touches(w, x)'
        PROVE  Touches(w, x) /\ work'[w].op = work[w].op /\ work'[w].stage = work[w].stage
               /\ work'[w].copy = work[w].copy
    <3>1. \/ work'[w] = work[w]
          \/ /\ work'[w] = [work[w] EXCEPT !.was = Unsure, !.goal = Unsure]
             /\ Touches(w, p) \/ Touches(w, to)
      BY <1>1 DEF BeginEdit
    <3> QED BY <2>3, <3>1, <1>t, BusyIsCall DEF Touches, Call
  <2> QED BY <1>1, <1>t, <2>1, <2>2, <2>3, TextFacts DEF PatchesInv, Touches, EditsTypeOK
<1>2. ASSUME NEW e \in Editor, AnswerEdit(e) PROVE PatchesInv'
  <2>1. UNCHANGED <<patchOnly, text>> /\ work' = [work EXCEPT ![e] = Idle]
    BY <1>2 DEF AnswerEdit
  <2>2. work'[e] = Idle /\ \A w \in Editor \ {e} : work'[w] = work[w]
    BY <2>1, <1>t DEF EditsTypeOK
  <2> QED BY <2>1, <2>2 DEF PatchesInv, Touches, Idle
<1>3. ASSUME NEW e \in Editor, OpenFile(e) \/ WriteData(e) \/ WritePart(e) PROVE PatchesInv'
  <2> DEFINE c == work[e]
  <2>1. c \in Call /\ Busy(e) /\ c.op \in {"write", "append"}
    BY <1>3, <1>t, BusyIsCall DEF OpenFile, WriteData, WritePart, At
  <2>2. \A p \in patchOnly : ~ Touches(e, p)
    BY <2>1 DEF PatchesInv
  <2>3. c.path \notin patchOnly /\ c.to \notin patchOnly /\ c.fd \notin patchOnly
    BY <2>1, <2>2, <1>t, BusyIsCall DEF Touches
  <2>4. /\ \A p \in Path : p \notin {c.path, c.fd} => text'[p] = text[p]
        /\ \A w \in Editor \ {e} : work'[w] = work[w]
        /\ work'[e].path = c.path /\ work'[e].to = c.to /\ work'[e].fd \in {c.path, c.fd}
    <3>1. CASE OpenFile(e)
      BY <2>1, <3>1, <1>t DEF OpenFile, EditsTypeOK, Call
    <3>2. CASE WriteData(e) \/ WritePart(e)
      BY <2>1, <3>2, <1>t DEF WriteData, WritePart, Written, Goes, EditsTypeOK, Call
    <3> QED BY <1>3, <3>1, <3>2
  <2>5. patchOnly' = patchOnly
    BY <1>3 DEF OpenFile, WriteData, WritePart
  <2>6. \A p \in patchOnly : text'[p] # NoFile /\ Whole(text'[p])
    BY <2>3, <2>4, <1>t DEF PatchesInv, EditsTypeOK
  <2>7. \A w \in Editor \ {e} : \A p \in patchOnly : Touches(w, p)' => Same(w, p)
    BY <2>4 DEF Touches, Same
  <2>8. \A p \in patchOnly : ~ Touches(e, p)'
    BY <2>3, <2>4, <2>5 DEF Touches
  <2> QED BY <2>5, <2>6, <2>7, <2>8, PatchesFrame
<1>4. ASSUME NEW e \in Editor, CopyText(e) \/ WriteCopy(e) \/ SwapFails(e) PROVE PatchesInv'
  <2> DEFINE c == work[e]
  <2>1. c \in Call /\ Busy(e) /\ WellFormed(c)
    BY <1>4, <1>t, BusyIsCall DEF CopyText, WriteCopy, SwapFails, At, EditsInv
  <2>2. /\ c.op = "patch" /\ c.to = c.path /\ c.fd = NoFile /\ c.path \in Path /\ c.arg \in Patch
        /\ Touches(e, c.path)
    BY <1>4, <2>1, <1>t, BusyIsCall
       DEF CopyText, WriteCopy, SwapFails, At, WellFormed, Call, Touches
  <2>3. UNCHANGED <<patchOnly, text>>
    BY <1>4 DEF CopyText, WriteCopy, SwapFails
  <2>4. /\ \A w \in Editor \ {e} : work'[w] = work[w]
        /\ work'[e].op = "patch" /\ work'[e].path = c.path /\ work'[e].to = c.path
        /\ work'[e].fd = NoFile
    BY <1>4, <2>1, <2>2, <1>t DEF CopyText, WriteCopy, SwapFails, Goes, EditsTypeOK, Call
  <2>5. ASSUME c.path \in patchOnly, work'[e].stage \in {"copied", "ready"}
        PROVE  Whole(work'[e].copy)
    <3>1. CASE CopyText(e)
      <4>1. /\ work'[e].copy = Patched(text[c.path], c.arg)
            /\ work'[e].copy # NoFile
        BY <2>1, <2>5, <3>1, <1>t DEF CopyText, EditsTypeOK, Call
      <4>2. text[c.path] \in Text \cup {NoFile} /\ Whole(text[c.path])
        BY <2>2, <2>5, <1>t DEF PatchesInv, EditsTypeOK
      <4> QED BY <2>2, <4>1, <4>2, PatchedWhole
    <3>2. CASE WriteCopy(e) \/ SwapFails(e)
      <4>1. work'[e].copy = c.copy /\ c.stage \in {"copied", "ready"}
        BY <2>1, <3>2, <1>t DEF WriteCopy, SwapFails, Goes, At, EditsTypeOK, Call
      <4> QED BY <2>2, <2>5, <4>1 DEF PatchesInv
    <3> QED BY <1>4, <3>1, <3>2
  <2>6. \A w \in Editor \ {e} : \A p \in patchOnly : Touches(w, p)' => Same(w, p)
    BY <2>4 DEF Touches, Same
  <2>7. \A p \in patchOnly : Touches(e, p)' => p = c.path
    BY <2>3, <2>4, <1>t, TextFacts DEF Touches, EditsTypeOK
  <2> QED BY <2>3, <2>4, <2>5, <2>6, <2>7, PatchesFrame DEF PatchesInv
<1>5. ASSUME NEW e \in Editor, Swap(e) PROVE PatchesInv'
  <2> DEFINE c == work[e]
             place == [p \in {c.path} |-> Detached]
  <2>1. c \in Call /\ Busy(e) /\ WellFormed(c) /\ c.op = "patch" /\ c.stage = "ready"
    BY <1>5, <1>t, BusyIsCall DEF Swap, At, EditsInv
  <2>2. c.path \in Path /\ c.copy # NoFile /\ Touches(e, c.path)
    BY <2>1, <1>t, BusyIsCall DEF WellFormed, Call, Touches
  <2>3. /\ patchOnly' = patchOnly /\ text' = [text EXCEPT ![c.path] = c.copy]
        /\ Follows(e, "done", place)
    BY <1>5 DEF Swap
  <2>4. \A p \in DOMAIN place : place[p] \notin patchOnly
    BY <1>t, TextFacts DEF EditsTypeOK
  <2> HIDE DEF place
  <2>5. /\ work'[e].op = "patch" /\ work'[e].stage = "done"
        /\ \A w \in Editor \ {e} : \A p \in patchOnly : Touches(w, p)' => Same(w, p)
    BY <2>1, <2>3, <2>4, <1>t, FollowsSame
  <2>6. \A p \in patchOnly : text'[p] # NoFile /\ Whole(text'[p])
    BY <2>1, <2>2, <2>3, <1>t DEF PatchesInv, EditsTypeOK
  <2> QED BY <2>3, <2>5, <2>6, PatchesFrame
<1>6. ASSUME NEW e \in Editor, MoveFile(e) \/ RemoveFile(e) PROVE PatchesInv'
  <2> DEFINE c == work[e]
  <2>1. c \in Call /\ Busy(e) /\ c.op \in {"move", "remove"} /\ c.path \in Path /\ c.to \in Path
    BY <1>6, <1>t, BusyIsCall DEF MoveFile, RemoveFile, At, Call
  <2>2. \A p \in patchOnly : ~ Touches(e, p)
    BY <2>1 DEF PatchesInv
  <2>3. c.path \notin patchOnly /\ c.to \notin patchOnly
    BY <2>1, <2>2, <1>t, BusyIsCall DEF Touches
  <2>4. patchOnly' = patchOnly /\ \A p \in patchOnly : text'[p] = text[p]
    BY <1>6, <2>3, <1>t DEF MoveFile, RemoveFile, EditsTypeOK
  <2>5. work'[e].stage \in {"done", "failed"} /\ work'[e].path = c.path /\ work'[e].to = c.to
        /\ (work'[e].fd \in {c.fd, c.to, Detached})
        /\ \A w \in Editor \ {e} : \A p \in patchOnly : Touches(w, p)' => Same(w, p)
    <3> DEFINE moved == [p \in {c.path, c.to} |-> IF p = c.path THEN c.to ELSE Detached]
               removed == [p \in {c.path} |-> Detached]
    <3>1. CASE MoveFile(e) /\ text[c.path] = NoFile
      BY <2>1, <3>1, <1>t DEF MoveFile, Goes, Touches, Same, EditsTypeOK, Call
    <3>2. CASE MoveFile(e) /\ text[c.path] # NoFile
      <4>1. Follows(e, "done", moved)
        BY <3>2 DEF MoveFile
      <4>2. \A p \in DOMAIN moved : moved[p] \notin patchOnly
        BY <2>3, <1>t, TextFacts DEF EditsTypeOK
      <4>3. work'[e] = [c EXCEPT !.stage = "done", !.fd = work'[e].fd]
            /\ work'[e].fd \in {c.fd, c.to, Detached}
        BY <2>1, <4>1 DEF Follows, Call
      <4> HIDE DEF moved
      <4> QED BY <2>1, <4>1, <4>2, <4>3, <1>t, FollowsSame DEF Call
    <3>3. CASE RemoveFile(e)
      <4>1. PICK s \in {"done", "failed"} : Follows(e, s, removed)
        BY <3>3 DEF RemoveFile
      <4>2. \A p \in DOMAIN removed : removed[p] \notin patchOnly
        BY <1>t, TextFacts DEF EditsTypeOK
      <4>3. work'[e] = [c EXCEPT !.stage = s, !.fd = work'[e].fd]
            /\ work'[e].fd \in {c.fd, c.to, Detached}
        BY <2>1, <4>1 DEF Follows, Call
      <4> HIDE DEF removed
      <4> QED BY <2>1, <4>1, <4>2, <4>3, <1>t, FollowsSame DEF Call
    <3> QED BY <1>6, <3>1, <3>2, <3>3
  <2>6. c.fd \notin patchOnly
    BY <2>1, <2>2, <1>t, BusyIsCall DEF Touches
  <2>7. \A p \in patchOnly : ~ Touches(e, p)'
    BY <2>3, <2>4, <2>5, <2>6, <1>t, TextFacts DEF Touches, EditsTypeOK
  <2> QED BY <2>4, <2>5, <2>7, PatchesFrame DEF PatchesInv
<1>7. CASE CrashEdits
  BY <1>7 DEF CrashEdits, PatchesInv, Touches, Idle
<1>8. CASE UNCHANGED editVars
  BY <1>8 DEF editVars, PatchesInv, Touches
<1>9. ASSUME NEW e \in Editor, EditorStep(e) PROVE PatchesInv'
  <2>1. CASE \E p \in Path, doc \in Document : AskWrite(e, p, doc)
    BY <2>1, <1>1 DEF AskWrite
  <2>2. CASE \E p \in Path, q \in Patch : AskPatch(e, p, q)
    BY <2>2, <1>1 DEF AskPatch
  <2>3. CASE \E p, to \in Path : AskMove(e, p, to)
    BY <2>3, <1>1 DEF AskMove
  <2>4. CASE \E p \in Path : AskRemove(e, p)
    BY <2>4, <1>1 DEF AskRemove
  <2> QED BY <1>9, <2>1, <2>2, <2>3, <2>4, <1>2, <1>3, <1>4, <1>5, <1>6 DEF EditorStep
<1> QED BY <1>7, <1>8, <1>9 DEF EditsNext

\* fs_patch: with words that tell whose they are, a file that only patches change
\* shows each patch as a whole or not at all, for patches of any length, whatever
\* each of them reads while others replace the file, and across crashes.
THEOREM EditsPatchAllOrNothing == EditsSpec => []PatchAllOrNothing
<1> DEFINE Inv == EditsInv /\ (NewWordsTell => PatchesInv)
<1>1. EditsInit => Inv
  BY EditsInvInit, PatchesInvInit
<1>2. Inv /\ [EditsNext]_editVars => Inv'
  BY EditsInvStep, PatchesInvStep
<1>3. Inv => PatchAllOrNothing
  BY DEF PatchesInv, PatchAllOrNothing
<1> QED BY <1>1, <1>2, <1>3, PTL DEF EditsSpec
=============================================================================
