----------------------------- MODULE CoreMatrix -----------------------------
(***************************************************************************)
(* CoreMark's matrix benchmark, core_matrix.c.  An N by N matrix is a      *)
(* function on 0 .. N*N-1, row by row as in the code.                      *)
(***************************************************************************)
EXTENDS Crc

VARIABLES mat   (* mat_params: N, the contents of A and B, and the          *)
                (* addresses that A and the end of C have                   *)

align_mem(x) == 4 + ((x - 1) \div 4) * 4

Elements(N) == 0 .. N * N - 1
Dot(N, term) == Loop(N, 0, [sum \in Int |-> [k \in Nat |-> sum + term[k]]])

(* core_init_matrix: N is the largest for which A, B (two bytes for each   *)
(* element) and C (four) fit into the block, together less than it.        *)
MutDimension(blksize) ==
  CHOOSE n \in 1 .. blksize :
    (n - 1) * (n - 1) * 2 * 4 < blksize /\ n * n * 2 * 4 >= blksize
Dimension(blksize) ==
  CHOOSE n \in 0 .. blksize :
    n * n * 2 * 4 < blksize /\ (n + 1) * (n + 1) * 2 * 4 >= blksize

core_init_matrix(blksize, memblk, seed0) ==
  LET N == Dimension(blksize)
      seed[order \in 0 .. N * N] ==
        IF order = 0 THEN IF seed0 = 0 THEN 1 ELSE seed0
                     ELSE (order * seed[order - 1]) % 65536
      B == [e \in Elements(N) |-> s16(seed[e + 1] + e + 1)]
      A == [e \in Elements(N) |-> (B[e] + e + 1) % 256]
      a == align_mem(memblk)
  IN  [N |-> N, A |-> A, B |-> B, a |-> a,
       end |-> align_mem(a + 4 * N * N) + 4 * N * N]

-----------------------------------------------------------------------------
matrix_add_const(A, val) == [e \in DOMAIN A |-> s16(A[e] + val)]
matrix_mul_const(A, val) == [e \in DOMAIN A |-> A[e] * val]

(* Only the first N elements of C are written.                             *)
matrix_mul_vect(N, C, A, B) ==
  [e \in DOMAIN C |->
     IF e < N THEN Dot(N, [j \in 0 .. N - 1 |-> A[e * N + j] * B[j]]) ELSE C[e]]

MatrixProduct(N, A, B, extract) ==
  [e \in DOMAIN A |->
     Dot(N, [k \in 0 .. N - 1 |->
               extract[A[(e \div N) * N + k] * B[k * N + (e % N)]]])]
matrix_mul_matrix(N, A, B) == MatrixProduct(N, A, B, [x \in Int |-> x])

(* The bits of x from that of weight w on, as a number less than m.        *)
bit_extract(x, w, m) == (x \div w) % m
matrix_mul_matrix_bitextract(N, A, B) ==
  MatrixProduct(N, A, B,
                [x \in Int |-> bit_extract(x, 4, 16) * bit_extract(x, 32, 128)])

matrix_sum(N, C, clipval) ==
  LET Sums == [ret : Nat, tmp : Int, prev : Int]
      add == [was \in Sums |-> [e \in Nat |->
        IF was.tmp + C[e] > clipval
          THEN [ret |-> was.ret + 10, tmp |-> 0, prev |-> C[e]]
          ELSE [ret |-> was.ret + (IF C[e] > was.prev THEN 1 ELSE 0),
                tmp |-> was.tmp + C[e], prev |-> C[e]]]]
  IN  Loop(N * N, [ret |-> 0, tmp |-> 0, prev |-> 0], add).ret

(* matrix_big: the upper four bits of a positive 16-bit number are set.    *)
matrix_big(val) == s16(61440 + (val % 4096))

(* matrix_test: the checksum and what is left in A.                        *)
MutMatrixTest(N, A0, B, val) ==
  LET Sum(C) == matrix_sum(N, C, matrix_big(val))
      test[A \in [Elements(N) -> Int]] ==
        LET C1 == matrix_mul_const(A, val)
            C2 == matrix_mul_vect(N, C1, A, B)
            C3 == matrix_mul_matrix(N, A, B)
            C4 == matrix_mul_matrix_bitextract(N, A, B)
        IN  [crc |-> crc16[Sum(C4)][crc16[Sum(C3)][crc16[Sum(C2)]
                       [crc16[Sum(C1)][0]]]],
             A   |-> matrix_add_const(A, val)]
  IN  test[matrix_add_const(A0, val)]
matrix_test(N, A0, B, val) ==
  LET Sum(C) == matrix_sum(N, C, matrix_big(val))
      test[A \in [Elements(N) -> Int]] ==
        LET C1 == matrix_mul_const(A, val)
            C2 == matrix_mul_vect(N, C1, A, B)
            C3 == matrix_mul_matrix(N, A, B)
            C4 == matrix_mul_matrix_bitextract(N, A, B)
        IN  [crc |-> crc16[Sum(C4)][crc16[Sum(C3)][crc16[Sum(C2)]
                       [crc16[Sum(C1)][0]]]],
             A   |-> matrix_add_const(A, - val)]
  IN  test[matrix_add_const(A0, val)]

(* core_bench_matrix as it is called: it changes A on the way.             *)
core_bench_matrix(seed, crc) ==
  LET t == matrix_test(mat.N, mat.A, mat.B, seed)
  IN  [crc |-> crc16[t.crc][crc], A |-> t.A]
=============================================================================
