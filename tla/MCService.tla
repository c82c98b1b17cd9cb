----------------------------- MODULE MCService -----------------------------
EXTENDS ServiceSafety, TLC

Symmetry == Permutations(Token) \cup Permutations(Request)
=============================================================================
