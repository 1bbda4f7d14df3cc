------------------------------ MODULE MCXv6Fs -------------------------------
(***************************************************************************)
(* Two processes, a root directory, a subdirectory "d" that may or may not *)
(* exist, and files "a" in either.                                         *)
(***************************************************************************)
EXTENDS Xv6Fs

Call(o, p) == [op |-> o, path |-> p]

\* Every system call, on names of both directories.
MCCalls ==
    {Call("creat", <<"d", "a">>), Call("mkdir", <<"d">>), Call("open", <<"a">>),
     Call("chdir", <<"d">>), Call("unlink", <<"a">>), Call("unlink", <<"d">>),
     [op |-> "link", path |-> <<"d", "a">>, new |-> <<"a">>]}

\* A file created and removed in the current directory.
MCCreatUnlink == {Call("creat", <<"a">>), Call("unlink", <<"a">>)}
=============================================================================
