--------------------------- MODULE MCAgentRuntime ---------------------------
(* Small instances of AgentRuntime for TLC. *)
EXTENDS AgentRuntime, TLC

UserOnly  == {"user"}

\* The repeat guard only compares signatures.
Swaps == Permutations(Signatures)

\* What the environment may do besides prompting, stopping and answering.
NoExtras         == {}
FailingStreams   == {"throw"}
WithFallback     == {"fallback", "cutInView", "midTurnError"}
WithLateSteer    == {"lateSteer"}
WithCutInView    == {"cutInView"}
=============================================================================
