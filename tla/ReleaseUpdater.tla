---------------------------- MODULE ReleaseUpdater ----------------------------
(***************************************************************************)
(* make_release.py: the files that carry the version are copied, rewritten *)
(* and, after a build with linux_build.sh, restored from the copies or     *)
(* left as they are.  A file is read, written and copied as a whole; what  *)
(* it holds is "old", "new", or "empty".                                   *)
(***************************************************************************)
EXTENDS Naturals, Sequences

CONSTANTS
    Files,      \* findLibFiles: the files, in order
    Extended,   \* those with a '.' in their path
    SkipBuild   \* --skip-build

VARIABLES
    pc,
    next,       \* the position in Files of the loop that runs
    content,    \* of each file
    copy,       \* of the copy that reserveFiles makes; "none" without one
    built,      \* what became of the build
    returncode

vars == <<pc, next, content, copy, built, returncode>>

FileSet == {Files[i] : i \in DOMAIN Files}

Init == /\ pc = "reserve" /\ next = 1
        /\ content = [f \in FileSet |-> "old"]
        /\ copy = [f \in FileSet |-> "none"]
        /\ built = "not yet" /\ returncode = 0

InLoop(loop) == pc = loop /\ next <= Len(Files)
Leave(loop, then) == /\ pc = loop /\ next > Len(Files)
                     /\ pc' = then /\ next' = 1

\* reserveFiles; shutil.copyfile raises when it cannot copy.
Reserve == /\ InLoop("reserve")
           /\ LET f == Files[next]
              IN  \/ /\ copy' = IF f \in Extended
                                THEN [copy EXCEPT ![f] = content[f]] ELSE copy
                     /\ next' = next + 1 /\ UNCHANGED pc
                  \/ /\ f \in Extended
                     /\ pc' = "raised"
                     /\ UNCHANGED <<copy, next>>
           /\ UNCHANGED <<content, built, returncode>>

\* updateFiles; a file that cannot be read is rewritten from an empty text,
\* one that cannot be written stays.
Update == /\ InLoop("update")
          /\ \E text \in {"new", "empty", content[Files[next]]} :
                content' = [content EXCEPT ![Files[next]] = text]
          /\ next' = next + 1
          /\ UNCHANGED <<pc, copy, built, returncode>>

StartUpdate == /\ Leave("reserve", "update")
               /\ UNCHANGED <<content, copy, built, returncode>>

FinishUpdate == /\ Leave("update", IF SkipBuild THEN "clean_up" ELSE "build")
                /\ UNCHANGED <<content, copy, built, returncode>>

\* build_prj and linux_build.sh: only cmake's configuration is looked at, and
\* a build that exceeds the timeout raises.
Build == /\ pc = "build"
         /\ \/ /\ built' \in {"passed", "compiler error"}
               /\ returncode' = 0 /\ pc' = "clean_up"
            \/ /\ built' = "configuration error"
               /\ returncode' = 42 /\ pc' = "clean_up"
            \/ /\ built' = "timeout"
               /\ pc' = "raised" /\ UNCHANGED returncode
         /\ UNCHANGED <<next, content, copy>>

\* clean_up restores or removes the copies there are.
CleanUp == /\ InLoop("clean_up")
           /\ LET f == Files[next]
              IN  /\ copy' = [copy EXCEPT ![f] = "none"]
                  /\ content' = IF returncode # 0 /\ copy[f] # "none"
                                THEN [content EXCEPT ![f] = copy[f]]
                                ELSE content
           /\ next' = next + 1
           /\ UNCHANGED <<pc, built, returncode>>

Return == /\ Leave("clean_up", "returned")
          /\ UNCHANGED <<content, copy, built, returncode>>

\* The script has ended.
Ended == pc \in {"returned", "raised"} /\ UNCHANGED vars

Next == \/ Reserve \/ StartUpdate \/ Update \/ FinishUpdate
        \/ Build \/ CleanUp \/ Return \/ Ended

Spec == Init /\ [][Next]_vars

\* README.md:215-216: the script "restores the previous files if the build
\* fails".  A build fails when the compiler does.
FailedCompileRestores ==
    pc = "returned" /\ built = "compiler error" =>
        \A f \in FileSet : content[f] = "old"
=============================================================================
