---------------------------- MODULE MCAgentTurn ----------------------------
(* Two models on two providers.  The two reports shrink in one component, so
   consecutive calls are told apart unless they are the same. *)
EXTENDS AgentTurn

Providers == <<"first", "second">>
Reports == {<<2, 1>>, <<1, 2>>}
=============================================================================
