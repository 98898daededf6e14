------------------------------ MODULE Blowfish ------------------------------
(***************************************************************************)
(* The block cipher under the passwords (ChatServer/blowfish.cpp).         *)
(*                                                                         *)
(* A uint32_t is the tuple of its four bytes, the highest first, so that   *)
(* (x >> 24) & 0xFF is x[1], and a block is the pair of its two words.     *)
(* The number of values of a byte is a parameter (256 in the code), and so *)
(* are the tables a context starts from (digits of Pi in the code).        *)
(***************************************************************************)
EXTENDS Integers, Sequences

CONSTANTS
    Radix,         \* its fourth power is the number of values of a byte
    Xor(_, _),     \* ^ on bytes
    InitP, InitS   \* initstate: the subkeys and the S-boxes at first

ByteSize == Radix * Radix * Radix * Radix
Byte == 0 .. ByteSize - 1
Word == Byte \X Byte \X Byte \X Byte
Block == Word \X Word
BLF_N == 16

\* blf_ctx.
Context == [P : [0 .. BLF_N + 1 -> Word], S : [0 .. 3 -> [Byte -> Word]]]

Blowfish_initstate == [P |-> InitP, S |-> InitS]

ASSUME RadixAssumption == Radix \in Nat \ {0}

ASSUME XorAssumption ==
    \A a, b \in Byte : Xor(a, b) \in Byte /\ Xor(Xor(a, b), b) = a

ASSUME TablesAssumption == Blowfish_initstate \in Context

ZeroWord == << 0, 0, 0, 0 >>

\* ^ and + of uint32_t, whose sum is taken modulo its width.
x ^^ y == << Xor(x[1], y[1]), Xor(x[2], y[2]), Xor(x[3], y[3]), Xor(x[4], y[4]) >>

Number(x) == ((x[1] * ByteSize + x[2]) * ByteSize + x[3]) * ByteSize + x[4]

WordOf(n) ==
    << (n \div (ByteSize * ByteSize * ByteSize)) % ByteSize,
       (n \div (ByteSize * ByteSize)) % ByteSize,
       (n \div ByteSize) % ByteSize,
       n % ByteSize >>

Plus(x, y) == WordOf(Number(x) + Number(y))
-----------------------------------------------------------------------------
(* One block.                                                              *)

F(s, x) == Plus(Plus(s[0][x[1]], s[1][x[2]]) ^^ s[2][x[3]], s[3][x[4]])

BLFRND(c, i, j, n) == i ^^ (F(c.S, j) ^^ c.P[n])

\* One round changes Xr, the next Xl.
OnRight(c, b, n) == << b[1], BLFRND(c, b[2], b[1], n) >>
OnLeft(c, b, n) == << BLFRND(c, b[1], b[2], n), b[2] >>

Rounds(c, b, n, m) == OnLeft(c, OnRight(c, b, n), m)

\* The halves change places; one is mixed with the last subkey.
Output(b, p) == << b[2] ^^ p, b[1] >>

Blowfish_encipher(c, b) ==
    Output(Rounds(c, Rounds(c, Rounds(c, Rounds(c,
            Rounds(c, Rounds(c, Rounds(c, Rounds(c,
                << b[1] ^^ c.P[0], b[2] >>,
                1, 2), 3, 4), 5, 6), 7, 8), 9, 10), 11, 12), 13, 14), 15, 16),
            c.P[17])

Blowfish_decipher(c, b) ==
    Output(Rounds(c, Rounds(c, Rounds(c, Rounds(c,
            Rounds(c, Rounds(c, Rounds(c, Rounds(c,
                << b[1] ^^ c.P[17], b[2] >>,
                16, 15), 14, 13), 12, 11), 10, 9), 8, 7), 6, 5), 4, 3), 2, 1),
            c.P[0])
-----------------------------------------------------------------------------
(* The key schedule.                                                       *)

\* Mutant of Blowfish_stream2word: every word is the first of the stream.
Blowfish_stream2wordFirst(data, n) ==
    LET byte(k) == data[(k % Len(data)) + 1]
    IN  << byte(0), byte(1), byte(2), byte(3) >>

\* The word number n of the stream that repeats the data for ever.
Blowfish_stream2word(data, n) ==
    LET byte(k) == data[((4 * n + k) % Len(data)) + 1]
    IN  << byte(0), byte(1), byte(2), byte(3) >>

\* The pair number k of the tables, the subkeys first, becomes the block.
PutPair(c, k, block) ==
    IF k < 9
    THEN [c EXCEPT !.P[2 * k] = block[1], !.P[2 * k + 1] = block[2]]
    ELSE LET n == 2 * (k - 9)
         IN  [c EXCEPT !.S[n \div ByteSize][n % ByteSize] = block[1],
                       !.S[n \div ByteSize][(n % ByteSize) + 1] = block[2]]

\* The block goes into its pair and is kept for the next.
Put(prev, k, block) == [ctx |-> PutPair(prev.ctx, k, block), block |-> block]

\* The key is mixed into the subkeys; then every pair becomes the pair
\* before it, mixed with the next two words of the data, enciphered with the
\* tables so far.
Expanded(c, data, key) ==
    LET mixed == [c EXCEPT !.P =
                     [k \in 0 .. 17 |-> c.P[k] ^^ Blowfish_stream2word(key, k)]]
        AfterPair(prev, k) ==
            Put(prev, k, Blowfish_encipher(prev.ctx,
                << prev.block[1] ^^ Blowfish_stream2word(data, 2 * k),
                   prev.block[2] ^^ Blowfish_stream2word(data, 2 * k + 1) >>))
        pass[k \in 0 .. 9 + 2 * ByteSize] ==
            IF k = 0
            THEN [ctx |-> mixed, block |-> << ZeroWord, ZeroWord >>]
            ELSE AfterPair(pass[k - 1], k - 1)
    IN  pass[9 + 2 * ByteSize].ctx

\* A function, so that a context is computed before the next one is from it.
expandstate[args \in Context \X Seq(Byte) \X Seq(Byte)] ==
    Expanded(args[1], args[2], args[3])

Blowfish_expandstate(c, data, key) == expandstate[<< c, data, key >>]

\* The same without data, which is as if all of it were zeros.
Blowfish_expand0state(c, key) == expandstate[<< c, << 0 >>, key >>]

blf_key(key) == Blowfish_expand0state(Blowfish_initstate, key)
-----------------------------------------------------------------------------
(* Sequences of blocks.  The byte arrays of the ecb and cbc functions are  *)
(* the same blocks: a word is already the tuple of its bytes.              *)

blf_enc(c, blocks) == [k \in DOMAIN blocks |-> Blowfish_encipher(c, blocks[k])]
blf_dec(c, blocks) == [k \in DOMAIN blocks |-> Blowfish_decipher(c, blocks[k])]

Mixed(b, d) == << b[1] ^^ d[1], b[2] ^^ d[2] >>

\* Every block is first mixed with the one before it, enciphered already.
blf_cbc_encrypt(c, iv, blocks) ==
    LET out[k \in DOMAIN blocks] ==
            Blowfish_encipher(c, Mixed(blocks[k], IF k = 1 THEN iv ELSE out[k - 1]))
    IN  [k \in DOMAIN blocks |-> out[k]]

\* Mutant of blf_cbc_decrypt: from the front, over the block that the next
\* one still needs.
blf_cbc_decryptForward(c, iv, blocks) ==
    LET out[k \in DOMAIN blocks] ==
            Mixed(Blowfish_decipher(c, blocks[k]), IF k = 1 THEN iv ELSE out[k - 1])
    IN  [k \in DOMAIN blocks |-> out[k]]

\* In place from the last block to the first, so that the block before is
\* still enciphered.
blf_cbc_decrypt(c, iv, blocks) ==
    [k \in DOMAIN blocks |->
        Mixed(Blowfish_decipher(c, blocks[k]), IF k = 1 THEN iv ELSE blocks[k - 1])]
=============================================================================
