-------------------------- MODULE MCSerialTransport --------------------------
(* SerialTransport on an empty frame, which missed must not cost the second, *)
(* and one with a START1 inside its payload; behind no noise, noise that     *)
(* hides a frame's start, and noise that looks like one.                     *)
EXTENDS SerialTransport

MCScripts == {<<<<>>, <<START1>>>>}
MCNoise == {<<>>, <<START1>>, <<START1, START2>>}
=============================================================================
