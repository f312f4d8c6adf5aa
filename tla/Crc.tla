-------------------------------- MODULE Crc ---------------------------------
(* The checksum that CoreMark collects its results in, core_util.c, on     *)
(* natural numbers below 2^16 (a byte of data: below 2^8).                 *)
EXTENDS Integers

u16(n) == n % 65536
s16(n) == ((n + 32768) % 65536) - 32768

(* Bytes and words as sums of their bits.                                  *)
Bit(n, w) == (n \div w) % 2
Differ(x, y, w) == w * ((Bit(x, w) + Bit(y, w)) % 2)
Xor8(x, y) ==
  Differ(x, y, 1) + Differ(x, y, 2) + Differ(x, y, 4) + Differ(x, y, 8)
  + Differ(x, y, 16) + Differ(x, y, 32) + Differ(x, y, 64) + Differ(x, y, 128)
Xor16(x, y) == 256 * Xor8(x \div 256, y \div 256) + Xor8(x % 256, y % 256)
Or16(x, y) == (x + y + Xor16(x, y)) \div 2

(* for (i = 0; i < n; i++) acc = body[acc][i].                              *)
Loop(n, acc, body) ==
  LET run[i \in 0 .. n] == IF i = 0 THEN acc ELSE body[run[i - 1]][i - 1]
  IN  run[n]

Flip(n, w) == IF Bit(n, w) = 1 THEN n - w ELSE n + w

(* crc ^= 0x4002 and the carry into bit 15, behind a shift to the right    *)
ShiftBit(bit, crc) ==
  IF bit = crc % 2 THEN crc \div 2
                   ELSE Flip(Flip(crc \div 2, 1), 8192) + 32768

(* Functions, so that TLC evaluates their arguments once.                  *)
crcu8[data \in Nat] ==
  [crc \in Nat |->
     Loop(8, crc, [acc \in Nat |-> [i \in Nat |->
                                      ShiftBit((data \div 2^i) % 2, acc)]])]

crcu16[newval \in Nat] ==
  [crc \in Nat |-> crcu8[newval \div 256][crcu8[newval % 256][crc]]]
crcu32[newval \in Nat] ==
  [crc \in Nat |-> crcu16[newval \div 65536][crcu16[u16(newval)][crc]]]
crc16[newval \in Int] == crcu16[u16(newval)]
=============================================================================
