--------------------------- MODULE MCImagePersist ---------------------------
(* Instances of ImagePersist for TLC.                                        *)
EXTENDS ImagePersist

a == <<"byte", "a">>
b == <<"byte", "b">>
Short == {<<a>>, <<b, a>>}
=============================================================================
