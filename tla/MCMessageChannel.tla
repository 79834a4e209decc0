-------------------------- MODULE MCMessageChannel --------------------------
(* Frames of two bytes, so that messages of 2 and 3 bytes take two frames,    *)
(* the one of 2 bytes with an empty last frame, and the empty one takes one;  *)
(* sequence numbers modulo 3 wrap within a message.                           *)
EXTENDS MessageChannel

MCMessages == {<<>>, <<21, 22>>, <<31, 32, 33>>}
=============================================================================
