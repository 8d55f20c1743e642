-------------------------- MODULE MCSessionRegistry --------------------------
EXTENDS SessionRegistry, TLC

Twins == Permutations(Clients) \cup Permutations(Ids)
=============================================================================
