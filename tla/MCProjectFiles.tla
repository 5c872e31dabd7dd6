---------------------------- MODULE MCProjectFiles ----------------------------
(***************************************************************************)
(* A small instance of ProjectFiles.                                       *)
(***************************************************************************)
EXTENDS ProjectFiles

CONSTANTS a, b

Short == <<"a", "b">>
Other == <<"b", "b">>
Big == <<"b", "a", "b">>
MCContents == {Short, Other, Big}
MCHuge == {Big}
MCBeginnings == {<<(a :> File(Short, 0)) @@ (b :> File(Short, 0)), "full_access">>,
                 <<(a :> File(Big, 0)) @@ (b :> NoFile("none")), "read_only">>}
MCSymmetry == Permutations(Clients)
MCRanges == {<<1, 1>>, <<2, 2>>, <<0, 1>>, <<1, 3>>}
=============================================================================
