----------------------------- MODULE MCMemberships -----------------------------
(***************************************************************************)
(* Three rows and few days, with ranges that contain, meet and precede one *)
(* another, and updates that move a start, an end or both.                 *)
(***************************************************************************)
EXTENDS Memberships, TLC

MCRanges  == {<<0, 2>>, <<1, 3>>}
MCChanges == {<<"none", 0, Keep>>, <<"none", Keep, 3>>, <<"HEAD", 1, 2>>}
Symmetric == Permutations(Ids) \cup Permutations(Requests)
================================================================================
