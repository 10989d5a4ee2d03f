---- MODULE MCUInt128 ----
\* Words of three bits: 64 integers, every second operand, shift counts past
\* twice the width and every start and length of four bits.
EXTENDS UInt128
====
