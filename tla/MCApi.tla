---------------------------------- MODULE MCApi ----------------------------------
(***************************************************************************)
(* Two flags, of which one is on by default.                               *)
(***************************************************************************)
EXTENDS Api, TLC

MCFlags    == {"summarize_enabled", "top_n"}
MCDefaults == [f \in MCFlags |-> IF f = "top_n" THEN 0 ELSE 1]
================================================================================
