------------------------- MODULE MCBufferReferences -------------------------
(* A decode buffer, the coded buffer it is decoded from, and that one's    *)
(* parameters: attachments two deep, as in codec_mme_base.cpp and the      *)
(* video frame parsers.                                                    *)
EXTENDS BufferReferences, TLC

CONSTANTS decode, coded, params

MCBuffers    == {decode, coded, params}
MCAttachable == decode :> {coded} @@ coded :> {params} @@ params :> {}

=============================================================================
