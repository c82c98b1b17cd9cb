------------------------------ MODULE MCWebUI ------------------------------
\* WebUI for TLC: tokens, statements and slots are interchangeable.
EXTENDS WebUI, TLC

Sym == Permutations(Token) \cup Permutations(Stmt) \cup Permutations(Slot)
=============================================================================
