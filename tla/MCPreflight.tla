---------------------------- MODULE MCPreflight -----------------------------
(* The preflight alone, with servers that state lengths other than none.   *)
EXTENDS Preflight

MCLinks == <<"js", "css", "js", "data", "img">>

MCHosts == [u \in {"js", "css", "data", "img", "page", "moved"} |->
    CASE u = "data" -> "none" [] u = "img" -> "cdn" [] OTHER -> "site"]
=============================================================================
