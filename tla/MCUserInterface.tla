--------------------------- MODULE MCUserInterface ---------------------------
(* One browser with two pages opened after one another: one without job     *)
(* views, to follow its session, and one with two, to see it end.           *)
EXTENDS UserInterface
=============================================================================
