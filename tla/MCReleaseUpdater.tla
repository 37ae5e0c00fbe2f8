--------------------------- MODULE MCReleaseUpdater ---------------------------
(***************************************************************************)
(* One file of each kind: the build file, the one without an extension,    *)
(* and a source file.                                                      *)
(***************************************************************************)
EXTENDS ReleaseUpdater

MCFiles == <<"CMakeLists.txt", "docs/Doxyfile", "app/main.cpp">>
MCExtended == {"CMakeLists.txt", "app/main.cpp"}
=============================================================================
