--------------------------- MODULE MCFileService ---------------------------
EXTENDS FileService

\* Two names that can be files, links or directories, each with room for one
\* entry, in byte order.
TreePaths == <<<<"a">>, <<"a", "x">>, <<"b">>, <<"b", "x">>>>
\* An empty file, and one long enough to be compressed.
ShortAndLong == {<<>>, <<1, 1>>}
===========================================================================
