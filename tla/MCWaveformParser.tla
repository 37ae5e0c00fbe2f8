-------------------------- MODULE MCWaveformParser --------------------------
(***************************************************************************)
(* Every capture-state packet of four bytes of three bits, and two short   *)
(* ones; only one capture state, which the parser copies.  Words have      *)
(* eleven bits.  Captures of up to five distinct bytes for up to three     *)
(* samples, some formats asking for more than the arrays hold, or for three *)
(* channels.                                                               *)
(***************************************************************************)
EXTENDS WaveformParser

Byte == 0 .. 7
MCPackets == {<<2, a, b, c>> : a, b, c \in Byte} \cup {<<2, 1, 1>>, <<>>}
MCCaptures == {[i \in 1 .. n |-> i] : n \in 1 .. 6}
MCFormats == [sampleCount : 1 .. 3, channelCount : 1 .. 3,
              channelOneSecond : BOOLEAN]
=============================================================================
