---------------------------- MODULE MCRouterLock ----------------------------
(* Two pipelines and two callers that change the table; one rule.           *)
EXTENDS RouterLock, TLC

MCRules == {[attribute |-> "region", property |-> "region"]}
MCText == "a" :> "a"
==============================================================================
