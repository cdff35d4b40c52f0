------------------------------ MODULE MCSignIn ------------------------------
(***************************************************************************)
(* An account of the users file, and an identity of a provider, which may  *)
(* claim the account's name or a name whose vault would be the same, in    *)
(* two browsers.                                                           *)
(***************************************************************************)
EXTENDS SignIn, TLC

CONSTANTS josh, other, s1, vault, p1

Names == [s \in {s1} |-> {josh, other}]
Vault == [n \in {josh, other} |-> vault]
OneAccount == [a \in {josh} |-> p1]
Swaps == Permutations(Req) \cup Permutations(Browser)

\* Bound: three sign-ins, or fewer beside edits and restarts, four events in all.
FewEvents ==
  /\ requests + edits + restarts <= 4
  /\ requests = 3 => edits + restarts = 0
=============================================================================
