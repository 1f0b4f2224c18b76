------------------------- MODULE MCMessageSending -------------------------
(* Three messages in a batch, one of a type Baileys does not send, and one  *)
(* operation of each way an adapter carries operations out.                *)
EXTENDS MessageSending

BatchOfThree == <<"text", "image", "text">>
OneOfEachWay == {"text", "image", "block", "groupInfo", "channelMessages"}
=============================================================================
