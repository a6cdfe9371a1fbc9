---------------------------- MODULE MCChatStreams ----------------------------
(* ChatStreams with two turns in one chat and, where there is a second     *)
(* chat, one in it.                                                        *)
EXTENDS ChatStreams

CONSTANTS c1

OneChat == [t \in Turns |-> c1]

SentMax == <<3, 1>>
=============================================================================
