---------------------------- MODULE MCInvocation ----------------------------
\* Small instances of Invocation for TLC.
EXTENDS Invocation, TLC

\* Activations, results and tokens are interchangeable.
InvocationSymmetry ==
    Permutations(Workers) \cup Permutations(Results) \cup Permutations(Tokens)
=============================================================================
