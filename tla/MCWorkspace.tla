---------------------------- MODULE MCWorkspace ----------------------------
(* Instances of Workspace for TLC.                                         *)
EXTENDS Workspace

rel(segs) == [abs |-> FALSE, segs |-> segs]

MCRoots    == {<<"src">>}
MCCheckout == {<<"ws", "src", "b">>}
MCDirs     == {<<>>, <<"ws">>, <<"ws", "src">>, <<"out">>}
MCLinks    == <<"ws", "src", "ln">> :> <<"out">> @@ <<"ws", "src", "dl">> :> <<"out", "e">>

\* A name for a file that the next path needs for a directory, a detour to a file of the
\* checkout, a path behind a link, one that leaves the root, a link that leads to a file
\* that is not there.
MCPaths == {rel(<<"src", "n">>), rel(<<"src", "n", "..", "b">>), rel(<<"src", "ln", "c">>),
            rel(<<"src", "..", "d">>), rel(<<"src", "dl">>)}

\* One in the root and one outside.
MCRuntimePaths == {rel(<<"src", "n">>), rel(<<"src", "..", "d">>)}

MCUses == {[tokens |-> 1, wall_s |-> 1], [tokens |-> 2, wall_s |-> 0]}

\* One file, for what the undo of one task does to another.
OnePath == {rel(<<"src", "a">>)}

\* What JailKept asks of the roots.
ASSUME RootsAreDirectories == RootsPlain
=============================================================================
