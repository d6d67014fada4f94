---------------------------- MODULE MCDataPlane ----------------------------
(* Model-checking instances of DataPlane. *)
EXTENDS DataPlane

PlainOnly == {FALSE}
WithDns   == {TRUE, FALSE}
OneQuery  == {1}
NoQuery   == {}
=============================================================================
