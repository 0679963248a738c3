---------------------------- MODULE MCProjectSync ----------------------------
(* The instances of ProjectSync that TLC checks. *)
EXTENDS ProjectSync, TLC

CONSTANTS base,     \* the text the project starts with
          Edits     \* the texts users change it to

Texts == Edits \union {base}

(* The project starts with one of its files. *)
StartTree ==
  {[f \in File |-> IF f = CHOOSE g \in File : TRUE THEN base ELSE Absent]}

(* All but reported, which no step reads and only RetryMerges is about. *)
Seen == <<commits, master, clone, request, requests, autosaved, leftStaged>>

Symmetry == Permutations(User) \union Permutations(Edits)
=============================================================================
