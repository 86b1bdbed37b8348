---------------------------- MODULE MCFileSystem ----------------------------
(***************************************************************************)
(* The names and texts in the instances of FileSystem that TLC checks: the *)
(* root, a directory and what can be in it, a name that begins like        *)
(* another one, and texts that fit a block and do not.                     *)
(***************************************************************************)
EXTENDS FileSystem

Absolute(p) == [absolute |-> TRUE, path |-> p]
Relative(p) == [absolute |-> FALSE, path |-> p]

MCNames == {Absolute(ROOT), Relative(<<"">>), Absolute(<<"a">>), Absolute(<<"ab">>),
            Relative(<<"a">>)}
MCExtensions == {<<"ab", "a">>}
MCTexts == {<<1, 0>>, <<1, 1, 1, 0>>}

\* Nothing depends on the last result.
FileSystemView == <<entries, blocks, current_location, directory, broken>>

=============================================================================
