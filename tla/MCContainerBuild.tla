---------------------------- MODULE MCContainerBuild ----------------------------
EXTENDS ContainerBuild, TLC

CONSTANTS g1, t1

\* A template gets a repository.
TemplateToGit  == {<<t1, g1>>}

\* No interference or all of it, which includes every part of it.
NoneOrAll == {{}, Interference}

Symmetry == Permutations(Edits) \cup Permutations(Installations) \cup Permutations(Values)
=============================================================================
