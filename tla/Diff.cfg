\* All formats over short files, and directories that change.
CONSTANT Jobs <- All
SPECIFICATION Spec
INVARIANTS ScriptsApply DirStatus HeaderTruth
