---------------------------- MODULE MCSelfUpdate ----------------------------
(* Instances of SelfUpdate for TLC; the .cfg file names the definitions.     *)
EXTENDS SelfUpdate, TLC

\* Ordered as versions, neither as text nor field by field.
MCTags == {<<1, 9, 1>>, <<1, 10, 0>>, Dev}

flag(name) == [f \in {"checkOnly", "force", "noRestart"} |-> f = name]

MCOptions == {flag("none"), flag("checkOnly"), flag("force"), flag("noRestart")}

Symmetry == Permutations(Updaters) \cup Permutations(Builds)
=============================================================================
