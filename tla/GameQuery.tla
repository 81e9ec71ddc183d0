------------------------------ MODULE GameQuery ------------------------------
(***************************************************************************)
(* The question a game server is asked over A2S                            *)
(* (games/protocols/a2s.ts), as a function of what comes back.  The header *)
(* of a reply is read as a signed word and compared with an unsigned one,  *)
(* so the width of the word is part of the model.                          *)
(***************************************************************************)
EXTENDS Integers

CONSTANT WordBits  \* bits of the header word: 32 in the code, fewer here

ASSUME GameQueryAssumption == WordBits \in Nat /\ WordBits > 1

\* 0xffffffff, as the number it is in the program.
HEADER_SIMPLE == 2^WordBits - 1
Types == {"info", "challenge", "other"}

\* A packet, as it lies in the buffer: the bits of the header, what kind of
\* reply it is, and whether all that its kind promises is there.  One that is
\* too large, or that never came, is no packet.
Packets == [header : {2^WordBits - 1, 2^WordBits - 2}, type : Types, intact : BOOLEAN, players : 0..1]
NoPacket == [header |-> 0, type |-> "none", intact |-> FALSE, players |-> 0]
NoInfo == -1

\* Reader.i32: the bits as a two's complement number.
SignedWord(bits) == IF bits >= 2^(WordBits - 1) THEN bits - 2^WordBits ELSE bits

Simple(packet) == packet # NoPacket /\ SignedWord(packet.header) = HEADER_SIMPLE
Info(packet) == IF packet.type = "info" /\ packet.intact THEN packet.players ELSE NoInfo

\* The first reply, and the one to the question asked again with the challenge:
\* the players of the server, or nothing.
QueryA2SInfo(first, second) ==
  IF ~ Simple(first) THEN NoInfo
  ELSE IF first.type # "challenge" THEN Info(first)
  ELSE IF first.intact /\ Simple(second) THEN Info(second) ELSE NoInfo

\* adapter.query: a server that does not answer has no players.
PlayersOnline(info) == IF info = NoInfo THEN 0 ELSE info

\* What the two replies may come to, whatever the server and the network do.
AnswersSeen == {QueryA2SInfo(f, s) : f, s \in Packets \cup {NoPacket}}
PlayersSeen == {PlayersOnline(info) : info \in AnswersSeen}
=============================================================================
