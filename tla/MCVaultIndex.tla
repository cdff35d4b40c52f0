---------------------------- MODULE MCVaultIndex ---------------------------
(***************************************************************************)
(* Two notes of one name, the first of them what a link with that name     *)
(* means, and room for a third.                                            *)
(***************************************************************************)
EXTENDS VaultIndex, TLC

Notes == {<<"a">>, <<"b">>, <<"f", "b">>}
Links == {<<"b">>}
Order == [p \in Notes |-> Len(p) * 2 + (IF p = <<"b">> THEN 1 ELSE 0)]
Vault == [p \in {<<"b">>, <<"f", "b">>} |-> [id |-> 0, key |-> Nothing]]
Swaps == Permutations(Req)
=============================================================================
