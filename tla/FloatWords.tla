------------------------------ MODULE FloatWords ------------------------------
(***************************************************************************)
(* A number as the four bytes it has in memory, and what Utils.cpp does to   *)
(* them between meter and register: the swap of the two words, and the       *)
(* change between the IEEE layout and that of the old "m4" meters, where     *)
(* sign and exponent stand the other way round.                              *)
(***************************************************************************)
EXTENDS Integers

Word == [1 .. 4 -> 0 .. 255]

reverse(w) == <<w[3], w[4], w[1], w[2]>>

\* Sign and mantissa in the third byte, the exponent in the fourth.
encodeRsBus(w) ==
    <<w[1], w[2], (w[3] % 128) + 128 * (w[4] \div 128), ((256 * w[4] + w[3]) \div 128) % 256>>

decodeRsBus(w) ==
    <<w[1], w[2], (w[3] % 128) + 128 * (w[4] % 2), (w[4] \div 2) + 128 * (w[3] \div 128)>>
===============================================================================
