----------------------------- MODULE MCRingBuffer -----------------------------
(* RingBuffer for TLC: the MCRingBuffer*.cfg give its constants values.    *)
EXTENDS RingBuffer
===============================================================================
