-------------------------- MODULE MCSandboxDispatch --------------------------
EXTENDS SandboxDispatch, TLC

Symmetry ==
  Permutations(Dispatchers) \union Permutations(Sessions) \union Permutations(Pods)
=============================================================================
