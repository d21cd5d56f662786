-------------------------------- MODULE Codec --------------------------------
(***************************************************************************)
(* What a program that receives bytes knows of the classes it reads them   *)
(* with: the parser and the check of text, which ProtoWire gives as        *)
(* ParseFrom and ValidText.                                                *)
(***************************************************************************)
EXTENDS ProtoMessages

CONSTANTS
  Parse(_, _),  \* ParseFromString of a type: whether it succeeds, and the message
  TextOk(_, _)  \* all text in a message of a type is UTF-8
=============================================================================
