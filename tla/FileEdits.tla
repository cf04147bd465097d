----------------------------- MODULE FileEdits ------------------------------
(***************************************************************************)
(* The file tools of internal/tools/filesystem.go that change files, used  *)
(* by several callers at once: fs_write (replacing or appending), fs_patch,*)
(* fs_move and fs_remove.  None of them takes a lock.                      *)
(*                                                                         *)
(* fs_write opens a file, empties it, and writes into what it has opened,  *)
(* wherever that is by then: another caller may have moved it, or removed  *)
(* it, or put another file in its place.  fs_patch makes its replacements  *)
(* on a copy and renames that over the path.  A text is a sequence of      *)
(* words, the least that a replacement tells apart; a patch replaces every *)
(* occurrence of a word (the default of its count).  Writes may fail       *)
(* halfway, and the runtime may crash between any two steps.               *)
(***************************************************************************)
EXTENDS Naturals, Sequences, Functions

CONSTANTS
  Editor,     \* the concurrent tool calls
  Path,       \* files
  Word,       \* what texts are made of
  Document,   \* contents that fs_write is given
  Patch,      \* lists of replacements that fs_patch is given
  Original,   \* the text of every file in the beginning
  MaxLength,  \* bound: texts that fs_write appends to are no longer
  NoFile,     \* a path leads nowhere; a call has no file open
  Detached,   \* an open file that no path leads to any more
  Unsure      \* nobody has been promised anything

Replacement == [old : Word, new : Word]

ASSUME EditsAssumption ==
  /\ MaxLength \in Nat
  /\ {NoFile, Detached} \cap Path = {}
  /\ NoFile # Detached
  /\ NoFile # Unsure
  /\ {NoFile, Unsure} \cap Seq(Word) = {}
  /\ Original \in Seq(Word)
  /\ Document \subseteq Seq(Word)
  /\ \A q \in Patch : q \in Seq(Replacement) /\ Len(q) > 0

VARIABLES
  patchOnly, \* the files that nobody but fs_patch touches
  text,     \* the text of each file
  work,     \* the call under way of each editor
  expect,   \* what its last editor may count on each file to hold
  patched   \* the patches of those files that were answered with success

editVars == <<patchOnly, text, work, expect, patched>>

Text == Seq(Word)

\* A call is about one path, or two for a move; `fd` is where the file that it has
\* open is by now, and `copy` the text a patch is about to put in place.
Call ==
  [op : {"write", "append", "patch", "move", "remove"},
   path : Path, to : Path, arg : Document \cup Patch \cup {<<>>},
   stage : {"called", "open", "copied", "ready", "done", "failed", "cut"},
   fd : Path \cup {NoFile, Detached}, copy : Text \cup {NoFile},
   was : Text \cup {NoFile, Unsure}, goal : Text \cup {NoFile, Unsure}]

Idle == [op |-> "none", stage |-> "none", fd |-> NoFile]

EditsInit ==
  /\ patchOnly \in {{}, Path}
  /\ text = [p \in Path |-> Original]
  /\ work = [e \in Editor |-> Idle]
  /\ expect = [p \in Path |-> Original]
  /\ patched = [p \in Path |-> {}]

-----------------------------------------------------------------------------
(* What each tool does to a text                                           *)

\* Replacements are made in order, each on what the ones before have left, and
\* all of them must find what they replace.
Replaced(t, edit) ==
  IF t = NoFile \/ edit.old \notin Range(t) THEN NoFile
  ELSE [i \in DOMAIN t |-> IF t[i] = edit.old THEN edit.new ELSE t[i]]

Patched(t, q) ==
  LET after[i \in 0 .. Len(q)] == IF i = 0 THEN t ELSE Replaced(after[i - 1], q[i])
  IN after[Len(q)]

\* Data written at the front of a file lie over what is there.
Over(t, data) == data \o SubSeq(t, Len(data) + 1, Len(t))

\* The outcome of a call that no other disturbs, for its file; NoFile also stands
\* for an error.
Outcome(op, t, arg) ==
  CASE op = "write"  -> arg
    [] op = "append" -> IF t = NoFile THEN arg ELSE t \o arg
    [] op = "patch"  -> Patched(t, arg)
    [] OTHER         -> NoFile

-----------------------------------------------------------------------------
(* The life of a call                                                      *)

\* A call is about the paths it was given, and the file it has open.
Touches(e, p) == work[e].op # "none" /\ p \in {work[e].path, work[e].to, work[e].fd}

\* `was` is what the file holds now and `goal` what it will hold, as far as the
\* caller can count on it: not if others touch the same files meanwhile.
BeginEdit(e, op, p, to, arg) ==
  LET alone == \A v \in Editor : ~ Touches(v, p) /\ ~ Touches(v, to)
      goal == IF expect[p] = Unsure /\ op # "write" THEN Unsure
              ELSE Outcome(op, expect[p], arg)
  IN
  /\ work[e] = Idle
  /\ work' = [w \in Editor |->
       IF w = e
       THEN [op |-> op, path |-> p, to |-> to, arg |-> arg, stage |-> "called",
             fd |-> NoFile, copy |-> NoFile,
             was |-> IF alone THEN expect[p] ELSE Unsure,
             goal |-> IF alone THEN goal ELSE Unsure]
       ELSE IF Touches(w, p) \/ Touches(w, to)
            THEN [work[w] EXCEPT !.was = Unsure, !.goal = Unsure] ELSE work[w]]
  /\ expect' = [expect EXCEPT ![p] = Unsure, ![to] = Unsure]
  /\ UNCHANGED <<patchOnly, text, patched>>

AskWrite(e, p, doc) ==
  /\ p \notin patchOnly
  /\ BeginEdit(e, "write", p, p, doc) \/ BeginEdit(e, "append", p, p, doc)

AskPatch(e, p, q) == BeginEdit(e, "patch", p, p, q)

AskMove(e, p, to) ==
  p # to /\ {p, to} \cap patchOnly = {} /\ BeginEdit(e, "move", p, to, <<>>)

AskRemove(e, p) == p \notin patchOnly /\ BeginEdit(e, "remove", p, p, <<>>)

At(e, ops, stage) == work[e].op \in ops /\ work[e].stage = stage

Goes(e, stage) == work' = [work EXCEPT ![e].stage = stage]

\* The answer tells the caller what the file holds.  Nobody knows what a write has
\* left that was cut short.
AnswerEdit(e) ==
  LET w == work[e]
      told == CASE w.stage = "done"   -> w.goal
                [] w.stage = "failed" -> w.was
                [] OTHER              -> Unsure
  IN
  /\ w.stage \in {"done", "failed", "cut"}
  /\ work' = [work EXCEPT ![e] = Idle]
  /\ expect' = [p \in Path |->
       IF told = Unsure THEN expect[p]
       ELSE IF p = w.path THEN told
       ELSE IF p = w.to /\ w.stage = "done" THEN w.was ELSE expect[p]]
  /\ patched' = IF w.op = "patch" /\ w.stage = "done" /\ w.path \in patchOnly
                THEN [patched EXCEPT ![w.path] = @ \cup {w.arg}] ELSE patched
  /\ UNCHANGED <<patchOnly, text>>

-----------------------------------------------------------------------------
(* fs_write                                                                *)

\* Mutant: without O_TRUNC.
OpenFileUntruncated(e) ==
  LET w == work[e] IN
  /\ At(e, {"write", "append"}, "called")
  /\ w.op = "append" /\ text[w.path] # NoFile => Len(text[w.path]) <= MaxLength
  /\ text' = [text EXCEPT ![w.path] = IF @ = NoFile THEN <<>> ELSE @]
  /\ work' = [work EXCEPT ![e].stage = "open", ![e].fd = w.path]
  /\ UNCHANGED <<patchOnly, expect, patched>>

\* O_CREATE, and O_TRUNC unless it appends, which it does to short files only.
OpenFile(e) ==
  LET w == work[e] IN
  /\ At(e, {"write", "append"}, "called")
  /\ w.op = "append" /\ text[w.path] # NoFile => Len(text[w.path]) <= MaxLength
  /\ text' = [text EXCEPT ![w.path] = IF w.op = "write" \/ @ = NoFile THEN <<>> ELSE @]
  /\ work' = [work EXCEPT ![e].stage = "open", ![e].fd = w.path]
  /\ UNCHANGED <<patchOnly, expect, patched>>

\* The text of every path once data is written to the file that is open.
Written(e, data) ==
  LET w == work[e] IN
  [p \in Path |-> IF p # w.fd THEN text[p]
                  ELSE IF w.op = "append" THEN text[p] \o data ELSE Over(text[p], data)]

WriteData(e) ==
  /\ At(e, {"write", "append"}, "open")
  /\ text' = Written(e, work[e].arg)
  /\ Goes(e, "done")
  /\ UNCHANGED <<patchOnly, expect, patched>>

\* The disk is full, or the runtime is about to be killed.
WritePart(e) ==
  /\ At(e, {"write", "append"}, "open")
  /\ \E n \in 0 .. Len(work[e].arg) - 1 :
       text' = Written(e, SubSeq(work[e].arg, 1, n))
  /\ Goes(e, "cut")
  /\ UNCHANGED <<patchOnly, expect, patched>>

-----------------------------------------------------------------------------
(* fs_patch                                                                *)

\* From here on the call needs only the copy.
CopyText(e) ==
  LET copy == Patched(text[work[e].path], work[e].arg) IN
  /\ At(e, {"patch"}, "called")
  /\ work' = [work EXCEPT ![e].stage = IF copy = NoFile THEN "failed" ELSE "copied",
                          ![e].copy = copy]
  /\ UNCHANGED <<patchOnly, text, expect, patched>>

\* The file's mode is looked up for the temporary file.
WriteCopy(e) ==
  /\ At(e, {"patch"}, "copied")
  /\ Goes(e, IF text[work[e].path] = NoFile THEN "failed" ELSE "ready")
  /\ UNCHANGED <<patchOnly, text, expect, patched>>

\* Files that are open stay with their calls when a path leads elsewhere.
Follows(e, stage, place) ==
  work' = [w \in Editor |->
     [work[w] EXCEPT !.stage = IF w = e THEN stage ELSE @,
                     !.fd = IF @ \in DOMAIN place THEN place[@] ELSE @]]

\* Mutant: the copy is written into the file, in two pieces.
SwapInPlace(e) ==
  LET w == work[e]
      half == SubSeq(w.copy, 1, Len(w.copy) \div 2)
      again == text[w.path] = half
  IN
  /\ At(e, {"patch"}, "ready")
  /\ text' = [text EXCEPT ![w.path] = IF again THEN w.copy ELSE half]
  /\ Goes(e, IF again THEN "done" ELSE "ready")
  /\ UNCHANGED <<patchOnly, expect, patched>>

\* The rename, wherever the path leads by then, or if it leads nowhere.
Swap(e) ==
  LET w == work[e] IN
  /\ At(e, {"patch"}, "ready")
  /\ text' = [text EXCEPT ![w.path] = w.copy]
  /\ Follows(e, "done", [p \in {w.path} |-> Detached])
  /\ UNCHANGED <<patchOnly, expect, patched>>

SwapFails(e) ==
  /\ work[e].stage \in {"copied", "ready"}
  /\ Goes(e, "failed")
  /\ UNCHANGED <<patchOnly, text, expect, patched>>

-----------------------------------------------------------------------------
(* fs_move and fs_remove: one system call each                             *)

MoveFile(e) ==
  LET w == work[e] IN
  /\ At(e, {"move"}, "called")
  /\ IF text[w.path] = NoFile
     THEN Goes(e, "failed") /\ UNCHANGED text
     ELSE /\ text' = [text EXCEPT ![w.to] = text[w.path], ![w.path] = NoFile]
          /\ Follows(e, "done", [p \in {w.path, w.to} |-> IF p = w.path THEN w.to ELSE Detached])
  /\ UNCHANGED <<patchOnly, expect, patched>>

RemoveFile(e) ==
  LET w == work[e] IN
  /\ At(e, {"remove"}, "called")
  /\ text' = [text EXCEPT ![w.path] = NoFile]
  /\ Follows(e, IF text[w.path] = NoFile THEN "failed" ELSE "done",
              [p \in {w.path} |-> Detached])
  /\ UNCHANGED <<patchOnly, expect, patched>>

-----------------------------------------------------------------------------
\* The calls are gone, the files stay as they are.
CrashEdits ==
  /\ \E e \in Editor : work[e] # Idle
  /\ work' = [e \in Editor |-> Idle]
  /\ UNCHANGED <<patchOnly, text, expect, patched>>

EditorStep(e) ==
  \/ \E p \in Path, doc \in Document : AskWrite(e, p, doc)
  \/ \E p \in Path, q \in Patch : AskPatch(e, p, q)
  \/ \E p, to \in Path : AskMove(e, p, to)
  \/ \E p \in Path : AskRemove(e, p)
  \/ OpenFile(e) \/ WriteData(e) \/ WritePart(e)
  \/ CopyText(e) \/ WriteCopy(e) \/ Swap(e) \/ SwapFails(e)
  \/ MoveFile(e) \/ RemoveFile(e)
  \/ AnswerEdit(e)

EditsNext == (\E e \in Editor : EditorStep(e)) \/ CrashEdits

EditsSpec == EditsInit /\ [][EditsNext]_editVars

-----------------------------------------------------------------------------
(* Properties                                                              *)

EditsTypeOK ==
  /\ patchOnly \subseteq Path
  /\ text \in [Path -> Text \cup {NoFile}]
  /\ work \in [Editor -> Call \cup {Idle}]
  /\ expect \in [Path -> Text \cup {NoFile, Unsure}]
  /\ patched \in [Path -> SUBSET Patch]

\* A call that no other about its files overlaps has done what its answer says,
\* to the last word, and nothing but a later call takes that away: no crash, and
\* no earlier call that still has the file open.
QuietEditKept ==
  \A p \in Path : expect[p] # Unsure => text[p] = expect[p]

\* Of each patch a text shows everything or nothing.
Whole(t) ==
  \A q \in Patch :
    LET in == {i \in DOMAIN q : q[i].new \in Range(t)} IN
    in = {} \/ in = DOMAIN q

\* What a replacement has put in tells which patch it was: no other puts in the same
\* word, none takes it out, and it was not there in the beginning.
NewWordsTell ==
  \A q \in Patch : \A i \in DOMAIN q :
    /\ q[i].new \notin Range(Original)
    /\ \A r \in Patch : \A j \in DOMAIN r :
         q[i].new # r[j].old /\ (q # r => q[i].new # r[j].new)

\* tools/filesystem.go:49: fs_patch applies its replacements "atomically".  In a
\* file that only patches change, what one of them has put in is there as a whole
\* or not at all, whenever anybody looks, also after a crash; provided that new
\* words tell whose they are.
PatchAllOrNothing == NewWordsTell => \A p \in patchOnly : Whole(text[p])

\* The same line: a patch that was answered with success has been applied.  With
\* another patch of the same file between the reading and the renaming it has not.
PatchesStay ==
  \A p \in patchOnly : \A q \in patched[p] :
    \A i \in DOMAIN q : q[i].new \in Range(text[p])
=============================================================================
