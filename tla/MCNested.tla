------------------------------- MODULE MCNested -------------------------------
(* A farm with a clone inside another, which discovery finds and does not leave out. *)
EXTENDS Migration, TLC

Dir(git) == [git |-> git, shallow |-> FALSE, origin |-> TRUE, readable |-> TRUE, names |-> {}]
MCTree ==
  (<<>> :> Dir(FALSE)) @@ (<<"a">> :> Dir(TRUE)) @@ (<<"a", "b">> :> Dir(TRUE))
  @@ (<<"c">> :> Dir(TRUE))
MCOrder == <<<<>>, <<"a">>, <<"a", "b">>, <<"c">>>>
MCMigOptions == {[NoOptions EXCEPT !.jobs = 2, !.deleteOriginals = TRUE]}
=============================================================================
