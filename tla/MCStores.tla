------------------------------ MODULE MCStores ------------------------------
(***************************************************************************)
(* The three kinds of files that tools write, in one model: targets.json,  *)
(* the files of the key-value state, and files of the user.  They share    *)
(* nothing, so that a behaviour of all three is seen by looking at each: a *)
(* scene, chosen in the beginning, is one of them with two callers.        *)
(*                                                                         *)
(* `padded` is a name with blanks around `box`; the keys k1 and k2 differ  *)
(* in a character that the name of a file cannot have.                     *)
(***************************************************************************)
EXTENDS TargetStore, KeyStore, FileEdits, TLC

CONSTANTS box, other, padded, local, k1, k2, k3, file1, file2, wa, wb, wx, wy, wz

VARIABLE scene

MCTrim == box :> box @@ other :> other @@ padded :> box @@ local :> local

MCSafe == k1 :> file1 @@ k2 :> file1 @@ k3 :> file2

MCOriginal == <<wa, wb>>

MCDocument == {<<wa>>}

Edit(o, n) == [old |-> o, new |-> n]

MCPatch == {<<Edit(wa, wx), Edit(wb, wy)>>, <<Edit(wb, wz)>>}

\* The patches of this model can be told from what they leave in a text.
ASSUME PatchesTell == NewWordsTell

Symmetry ==
  Permutations(Caller) \cup Permutations(User) \cup Permutations(Editor)

Init ==
  /\ scene \in {"targets", "keys", "files"}
  /\ TargetsInit /\ KeysInit /\ EditsInit
  /\ scene # "files" => patchOnly = {}

Next ==
  /\ UNCHANGED scene
  /\ \/ scene = "targets" /\ TargetsNext /\ UNCHANGED <<keyVars, editVars>>
     \/ scene = "keys" /\ KeysNext /\ UNCHANGED <<targetVars, editVars>>
     \/ scene = "files" /\ EditsNext /\ UNCHANGED <<targetVars, keyVars>>

Spec == Init /\ [][Next]_<<scene, targetVars, keyVars, editVars>>

\* The type invariants of the three modules.
StoresTypeOK == TargetsTypeOK /\ KeysTypeOK /\ EditsTypeOK

\* targets.json and the files of the key-value state are durable maps.
StoresContract == TargetsContract /\ KeysContract
=============================================================================
