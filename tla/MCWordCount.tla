----------------------------- MODULE MCWordCount -----------------------------
EXTENDS WordCountProperties

CONSTANTS a, b, c

MCWords == {a, b, c}

Symmetry == Permutations(MCWords)

=============================================================================
