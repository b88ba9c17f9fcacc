------------------------------- MODULE Header -------------------------------
(***************************************************************************)
(* Two of the bytes of a message's header (protocol/message_header.go):    *)
(* byte 2 holds the type (0x80), heartbeat (0x40), oneway (0x20),          *)
(* compression (0x1C) and status (0x03), byte 3 the codec (0xF0).          *)
(***************************************************************************)
EXTENDS Integers

Byte == 0..255

\* protocol/message_type.go
Request == 0
Response == 1
Normal == 0
Error == 1
None == 0
Gzip == 1

Flag(h, m) == (h \div m) % 2 = 1
SetFlag(h, m, on) ==
  IF on = Flag(h, m) THEN h ELSE IF on THEN h + m ELSE h - m

\* SetMessageType only sets the bit: a response stays one.
MessageType(h) == h \div 128
SetMessageType(h, mt) == IF mt = Response THEN SetFlag(h, 128, TRUE) ELSE h

IsHeartbeat(h) == Flag(h, 64)
SetHeartbeat(h, hb) == SetFlag(h, 64, hb)

IsOneway(h) == Flag(h, 32)
SetOneway(h, oneway) == SetFlag(h, 32, oneway)

CompressType(h) == (h \div 4) % 8

SetCompressType(h, ct) == h - 4 * CompressType(h) + 4 * (ct % 8)

MessageStatusType(h) == h % 4
SetMessageStatusType(h, st) == h - MessageStatusType(h) + (st % 4)

\* byte 3
SerializeType(h) == h \div 16
SetSerializeType(h, st) == (h % 16) + ((st * 16) % 256)
=============================================================================
