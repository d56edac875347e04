----------------------------- MODULE MCPresetTask -----------------------------
(***************************************************************************)
(* Values for the constants of PresetTask.                                 *)
(***************************************************************************)
EXTENDS PresetTask, TLC

CONSTANTS d1, d2, s1, s2, s3, b1, b2, p1, p2

OneSession == s1 :> d1
TwoSessions == (s1 :> d1) @@ (s2 :> d1)
TwoDevices == (s1 :> d1) @@ (s2 :> d1) @@ (s3 :> d2)

Alike == Permutations({b1, b2})

Get(kind, onfail) == [kind |-> kind, onfail |-> onfail]
Preset(id, steps, set) == [id |-> id, yaml |-> TRUE, steps |-> steps, set |-> set]
Broken(id) == [id |-> id, yaml |-> FALSE, steps |-> <<>>, set |-> FALSE]

\* One preset: a guarded download, then the parameters.
GuardedContents == {<<Preset(p1, <<Get("Download", "cancel")>>, TRUE)>>}

\* A preset whose content does not parse, behind one that does.
MixedContents ==
    GuardedContents \cup {<<Preset(p2, <<Get("Upload", "ignore")>>, FALSE), Broken(p1)>>}
=============================================================================
