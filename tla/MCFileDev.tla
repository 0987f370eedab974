----------------------------- MODULE MCFileDev -----------------------------
(* FileDev with strings of each length, one of them too long for chardev.  *)
EXTENDS FileDev

CONSTANTS a, b

MCTexts == {<<>>, <<a>>, <<b, a>>, <<a, b, b>>}

=============================================================================
