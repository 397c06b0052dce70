-------------------------------- MODULE MCSoc --------------------------------
(***************************************************************************)
(* Soc with a memory of three words and an image of two frames, which fits *)
(* at one of the places and has neither of its frames fit at the other.    *)
(***************************************************************************)
EXTENDS Soc

SomeImages == {<<<<1, 2>>, <<2, 1>>, <<3, 3>>>>}
=============================================================================
