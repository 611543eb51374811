---------------------------- MODULE MCFuseMount ----------------------------
EXTENDS FuseMount

\* A name that can be a directory with one entry, and a second name.
TreePaths == <<<<"a">>, <<"a", "x">>, <<"b">>>>
===========================================================================
