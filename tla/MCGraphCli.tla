----------------------------- MODULE MCGraphCli -----------------------------
(* Small instances of GraphCli for TLC.                                    *)
EXTENDS GraphCli, TLC

(* Ids and relation labels without ':' (the passing runs).                 *)
MCIds == {<<"a">>, <<"b">>}
MCOneRel == {<<"r">>}

(* Ids containing ':' (spec 3: ids are opaque strings).                    *)
MCColonIds == {<<"a">>, <<"a", ":", "a">>}

(* CLI processes are interchangeable.                                     *)
MCSymmetry == Permutations(Procs)

MCAlphabet == <<":", "a", "b", "d", "e", "g", "r", "s">>
=============================================================================
