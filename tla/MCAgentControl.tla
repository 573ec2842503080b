---------------------------- MODULE MCAgentControl ----------------------------
EXTENDS AgentControl, TLC

ControlSymmetry == Permutations(Durable)
=============================================================================
