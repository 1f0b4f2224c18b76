-------------------------- MODULE MCInboundMessages --------------------------
(* One or two senders, a text and a photo, two chunks of history. *)
EXTENDS InboundMessages

CONSTANTS p1, text, photo, h1, h2, h3

OneSender == [m \in {text, photo, h1, h2, h3} |-> p1]
TwoChunks == {<<h1, h2>>, <<h2, h3>>}
OneChunk == {<<h1, h2>>}
=============================================================================
