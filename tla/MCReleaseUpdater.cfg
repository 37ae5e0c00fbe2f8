\* CMakeLists.txt, docs/Doxyfile and a source file.
CONSTANTS
    Files <- MCFiles
    Extended <- MCExtended
    SkipBuild = FALSE
SPECIFICATION Spec
INVARIANT FailedCompileRestores
