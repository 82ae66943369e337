-------------------------- MODULE MCOutboundCalls --------------------------
(***************************************************************************)
(* OutboundCalls for TLC: every adapter is some phase's provider, one      *)
(* through the fallback for an unknown name.                               *)
(***************************************************************************)
EXTENDS OutboundCalls

MCPhases == {"explore", "apply", "verify", "archive", "spec"}

MCProviderByPhase ==
  [ explore |-> "", apply |-> "aider", verify |-> "ollama", archive |-> "mcp",
    spec |-> "opencdoe" ]
=============================================================================
