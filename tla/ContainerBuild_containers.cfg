CHECK_DEADLOCK FALSE
SPECIFICATION Spec
CONSTANTS
    g1 = g1
    t1 = t1
    Sources = {g1, t1}
    GitSources = {g1}
    SourceChanges <- TemplateToGit
    Installations = {i1, i2}
    Keys = {k1}
    Values = {v1}
    Unset = Unset
    Edits = {e1, e2}
    MaxCommits = 2
    Interferences <- NoneOrAll
SYMMETRY Symmetry
INVARIANT
    TypeOK
    ImageCurrentUndisturbed
    KeyHasOneKind
    
PROPERTY
    BuildKeepsEdits
