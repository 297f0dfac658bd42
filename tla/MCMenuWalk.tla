----------------------------- MODULE MCMenuWalk -----------------------------
(* Menus of one and of two questions, with and without a multi-select, for MenuWalk. *)
EXTENDS MenuWalk

MCForms == {<<"pick">>, <<"pick", "pick">>, <<"pick", "multi">>}
=============================================================================
