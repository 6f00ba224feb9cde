---------------------------- MODULE MCSessionData ----------------------------
EXTENDS SessionData, TLC

HandlerSymmetry == Permutations(Handlers)

=============================================================================
