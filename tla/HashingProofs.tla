---------------------------- MODULE HashingProofs ----------------------------
(***************************************************************************)
(* That what was enciphered is deciphered again, block by block or as a    *)
(* chain, and that a password is accepted against the hash made of it,     *)
(* whatever the tables of the cipher, the width of a byte, the salts and   *)
(* the passwords are.                                                      *)
(***************************************************************************)
EXTENDS BlockCipher, PasswordHash, SequenceLemmas, FiniteSetTheorems

(* One block.                                                              *)

\* A byte has at least one value.
LEMMA ByteSizeType == ByteSize \in Nat \ {0}
<1>1. Radix \in Nat /\ Radix > 0 /\ Radix * Radix \in Nat \ {0}
  BY RadixAssumption, SMT
<1>2. Radix * Radix * Radix \in Nat \ {0}
  BY <1>1, SMT
<1> QED
  BY <1>1, <1>2, SMT DEF ByteSize

\* Remainders of the size of a byte are bytes.
LEMMA RemainderType ==
  ASSUME NEW n \in Nat
  PROVE  n % ByteSize \in Byte /\ n \div ByteSize \in Nat
BY ByteSizeType, SMT DEF Byte

\* Any natural number is cut to a word.
LEMMA WordOfType ==
  ASSUME NEW n \in Nat
  PROVE  WordOf(n) \in Word
<1>1. \A m \in {ByteSize, ByteSize * ByteSize, ByteSize * ByteSize * ByteSize} :
        m \in Nat \ {0}
  <2>1. ByteSize * ByteSize \in Nat \ {0}
    BY ByteSizeType, SMT
  <2>2. ByteSize * ByteSize * ByteSize \in Nat \ {0}
    BY <2>1, ByteSizeType, SMT
  <2> QED
    BY <2>1, <2>2, ByteSizeType
<1>2. \A m \in Nat \ {0} : n \div m \in Nat
  BY SMT
<1>3. /\ (n \div (ByteSize * ByteSize * ByteSize)) % ByteSize \in Byte
      /\ (n \div (ByteSize * ByteSize)) % ByteSize \in Byte
      /\ (n \div ByteSize) % ByteSize \in Byte
      /\ n % ByteSize \in Byte
  BY <1>1, <1>2, RemainderType
<1> QED
  BY <1>3 DEF WordOf, Word

\* The number of a word is natural.
LEMMA NumberType ==
  ASSUME NEW x \in Word
  PROVE  Number(x) \in Nat
<1>1. /\ x[1] \in Nat /\ x[2] \in Nat /\ x[3] \in Nat /\ x[4] \in Nat
      /\ ByteSize \in Nat
  BY ByteSizeType, SMT DEF Word, Byte
<1>2. \A a, b \in Nat : a * ByteSize + b \in Nat
  BY <1>1, SMT
<1> QED
  BY <1>1, <1>2 DEF Number

\* A sum wraps and is a word again.
LEMMA SumType ==
  ASSUME NEW x \in Word, NEW y \in Word
  PROVE  Plus(x, y) \in Word
<1>1. Number(x) + Number(y) \in Nat
  BY NumberType, SMT
<1> QED
  BY <1>1, WordOfType DEF Plus

\* Xor of words is undone by itself.
LEMMA XorUndone ==
  ASSUME NEW x \in Word, NEW y \in Word
  PROVE  x ^^ y \in Word /\ (x ^^ y) ^^ y = x
<1>1. /\ x = << x[1], x[2], x[3], x[4] >>
      /\ \A k \in 1 .. 4 : x[k] \in Byte /\ y[k] \in Byte
  BY SMT DEF Word
<1>2. \A k \in 1 .. 4 : /\ Xor(x[k], y[k]) \in Byte
                        /\ Xor(Xor(x[k], y[k]), y[k]) = x[k]
  BY <1>1, XorAssumption
<1> QED
  BY <1>1, <1>2, SMT DEF Word, ^^

\* F computes a word from a word, whatever is in the S-boxes.
LEMMA FType ==
  ASSUME NEW c \in Context, NEW x \in Word
  PROVE  F(c.S, x) \in Word
<1>1. \A k \in 1 .. 4 : x[k] \in Byte
  BY SMT DEF Word
<1>2. \A i \in 0 .. 3, k \in 1 .. 4 : c.S[i][x[k]] \in Word
  BY <1>1, SMT DEF Context
<1>3. Plus(c.S[0][x[1]], c.S[1][x[2]]) \in Word
  BY <1>2, SumType, SMT
<1>4. Plus(c.S[0][x[1]], c.S[1][x[2]]) ^^ c.S[2][x[3]] \in Word
  BY <1>2, <1>3, XorUndone, SMT
<1> QED
  BY <1>2, <1>4, SumType, SMT DEF F

\* A round is undone by the same round.
LEMMA RoundUndone ==
  ASSUME NEW c \in Context, NEW i \in Word, NEW j \in Word, NEW n \in 0 .. 17
  PROVE  /\ BLFRND(c, i, j, n) \in Word
         /\ BLFRND(c, BLFRND(c, i, j, n), j, n) = i
<1>1. c.P[n] \in Word
  BY SMT DEF Context, BLF_N
<1>2. F(c.S, j) ^^ c.P[n] \in Word
  BY <1>1, FType, XorUndone
<1> QED
  BY <1>2, XorUndone DEF BLFRND

Swapped(b) == << b[2], b[1] >>

\* A round rewrites one half of a block from the other, which it keeps.
LEMMA Halves ==
  ASSUME NEW c, NEW l, NEW r, NEW n
  PROVE  /\ OnRight(c, << l, r >>, n) = << l, BLFRND(c, r, l, n) >>
         /\ OnLeft(c, << l, r >>, n) = << BLFRND(c, l, r, n), r >>
<1> DEFINE b == << l, r >>
<1>1. b[1] = l /\ b[2] = r
  OBVIOUS
<1> HIDE DEF b
<1>2. OnRight(c, b, n) = << b[1], BLFRND(c, b[2], b[1], n) >>
  BY Zenon DEF OnRight
<1>3. OnLeft(c, b, n) = << BLFRND(c, b[1], b[2], n), b[2] >>
  BY Zenon DEF OnLeft
<1>4. /\ OnRight(c, b, n) = << l, BLFRND(c, r, l, n) >>
      /\ OnLeft(c, b, n) = << BLFRND(c, l, r, n), r >>
  BY <1>1, <1>2, <1>3, Zenon
<1> QED
  BY <1>4, Zenon DEF b

\* Two rounds are undone by them in the other order, on the halves swapped.
LEMMA RoundsUndone ==
  ASSUME NEW c \in Context, NEW b \in Block, NEW n \in 0 .. 17, NEW m \in 0 .. 17
  PROVE  /\ Rounds(c, b, n, m) \in Block
         /\ Rounds(c, Swapped(Rounds(c, b, n, m)), m, n) = Swapped(b)
<1>1. PICK l \in Word, r \in Word : b = << l, r >>
  BY DEF Block
<1> DEFINE right == BLFRND(c, r, l, n)
           left == BLFRND(c, l, right, m)
<1>2. right \in Word /\ BLFRND(c, right, l, n) = r
  BY RoundUndone
<1>3. left \in Word /\ BLFRND(c, left, right, m) = l
  <2>1. right \in Word
    BY <1>2
  <2> HIDE DEF right
  <2> QED
    BY <2>1, RoundUndone
<1>4. OnRight(c, << l, r >>, n) = << l, right >>
  BY Halves
<1>5. OnLeft(c, << l, right >>, m) = << left, right >>
  BY Halves
<1> HIDE DEF right, left
<1>6. Rounds(c, b, n, m) = << left, right >>
  BY <1>1, <1>4, <1>5, Zenon DEF Rounds
<1>7. OnRight(c, << right, left >>, m) = << right, l >>
  BY <1>3, Halves
<1>8. OnLeft(c, << right, l >>, n) = << r, l >>
  BY <1>2, Halves
<1>9. Rounds(c, << right, left >>, m, n) = << r, l >>
  BY <1>7, <1>8, Zenon DEF Rounds
<1>10. Swapped(<< left, right >>) = << right, left >> /\ Swapped(<< l, r >>) = << r, l >>
  BY DEF Swapped
<1>11. << left, right >> \in Block
  BY <1>2, <1>3 DEF Block
<1> QED
  BY <1>1, <1>6, <1>9, <1>10, <1>11, Zenon

\* Blowfish_decipher gives back the block that Blowfish_encipher was given,
\* with any subkeys and S-boxes and any tables behind Xor.
THEOREM DecipherUndoesEncipher ==
  ASSUME NEW c \in Context, NEW b \in Block
  PROVE  /\ Blowfish_encipher(c, b) \in Block
         /\ Blowfish_decipher(c, Blowfish_encipher(c, b)) = b
<1> DEFINE b0 == << b[1] ^^ c.P[0], b[2] >>
           b1 == Rounds(c, b0, 1, 2)
           b2 == Rounds(c, b1, 3, 4)
           b3 == Rounds(c, b2, 5, 6)
           b4 == Rounds(c, b3, 7, 8)
           b5 == Rounds(c, b4, 9, 10)
           b6 == Rounds(c, b5, 11, 12)
           b7 == Rounds(c, b6, 13, 14)
           b8 == Rounds(c, b7, 15, 16)
           out == << b8[2] ^^ c.P[17], b8[1] >>
           d0 == << out[1] ^^ c.P[17], out[2] >>
           d1 == Rounds(c, d0, 16, 15)
           d2 == Rounds(c, d1, 14, 13)
           d3 == Rounds(c, d2, 12, 11)
           d4 == Rounds(c, d3, 10, 9)
           d5 == Rounds(c, d4, 8, 7)
           d6 == Rounds(c, d5, 6, 5)
           d7 == Rounds(c, d6, 4, 3)
           d8 == Rounds(c, d7, 2, 1)
<1>p. \A n \in 0 .. 17 : c.P[n] \in Word
  BY SMT DEF Context, BLF_N
<1>b. b[1] \in Word /\ b[2] \in Word /\ b = << b[1], b[2] >>
  BY DEF Block
<1>0. b0 \in Block /\ b0[1] ^^ c.P[0] = b[1] /\ b0[2] = b[2]
  BY <1>p, <1>b, XorUndone DEF Block
<1> HIDE DEF b0
<1>1. b1 \in Block /\ Rounds(c, Swapped(b1), 2, 1) = Swapped(b0)
  BY <1>0, RoundsUndone
<1> HIDE DEF b1
<1>2. b2 \in Block /\ Rounds(c, Swapped(b2), 4, 3) = Swapped(b1)
  BY <1>1, RoundsUndone
<1> HIDE DEF b2
<1>3. b3 \in Block /\ Rounds(c, Swapped(b3), 6, 5) = Swapped(b2)
  BY <1>2, RoundsUndone
<1> HIDE DEF b3
<1>4. b4 \in Block /\ Rounds(c, Swapped(b4), 8, 7) = Swapped(b3)
  BY <1>3, RoundsUndone
<1> HIDE DEF b4
<1>5. b5 \in Block /\ Rounds(c, Swapped(b5), 10, 9) = Swapped(b4)
  BY <1>4, RoundsUndone
<1> HIDE DEF b5
<1>6. b6 \in Block /\ Rounds(c, Swapped(b6), 12, 11) = Swapped(b5)
  BY <1>5, RoundsUndone
<1> HIDE DEF b6
<1>7. b7 \in Block /\ Rounds(c, Swapped(b7), 14, 13) = Swapped(b6)
  BY <1>6, RoundsUndone
<1> HIDE DEF b7
<1>8. b8 \in Block /\ Rounds(c, Swapped(b8), 16, 15) = Swapped(b7)
  BY <1>7, RoundsUndone
<1> HIDE DEF b8
<1>9. out \in Block /\ d0 = Swapped(b8)
  <2>1. b8[1] \in Word /\ b8[2] \in Word
    BY <1>8 DEF Block
  <2>2. b8[2] ^^ c.P[17] \in Word /\ (b8[2] ^^ c.P[17]) ^^ c.P[17] = b8[2]
    BY <2>1, <1>p, XorUndone
  <2> QED
    BY <2>1, <2>2 DEF Block, Swapped
<1>10. d8 = Swapped(b0)
  BY <1>1, <1>2, <1>3, <1>4, <1>5, <1>6, <1>7, <1>8, <1>9
<1>11. << d8[2] ^^ c.P[0], d8[1] >> = b
  BY <1>0, <1>10, <1>b DEF Swapped
<1>12. Blowfish_encipher(c, b) = out
  BY Zenon DEF Blowfish_encipher, Output, b0, b1, b2, b3, b4, b5, b6, b7, b8
<1> HIDE DEF out
<1>13. Blowfish_decipher(c, out) = << d8[2] ^^ c.P[0], d8[1] >>
  BY Zenon DEF Blowfish_decipher, Output
<1> QED
  BY <1>9, <1>11, <1>12, <1>13

\* Buffers enciphered block by block are restored by blf_dec.
THEOREM DecUndoesEnc ==
  ASSUME NEW c \in Context, NEW blocks \in Seq(Block)
  PROVE  blf_dec(c, blf_enc(c, blocks)) = blocks
<1>1. \A k \in DOMAIN blocks : blocks[k] \in Block
  OBVIOUS
<1>2. \A k \in DOMAIN blocks :
        Blowfish_decipher(c, Blowfish_encipher(c, blocks[k])) = blocks[k]
  BY <1>1, DecipherUndoesEncipher
<1>3. blocks = [k \in DOMAIN blocks |-> blocks[k]]
  OBVIOUS
<1> QED
  BY <1>2, <1>3 DEF blf_dec, blf_enc

-----------------------------------------------------------------------------
(* The key schedule.                                                       *)

\* The words of a stream are words.
LEMMA StreamWordType ==
  ASSUME NEW data \in Seq(Byte), data # << >>, NEW n \in Nat
  PROVE  Blowfish_stream2word(data, n) \in Word
<1>1. Len(data) \in Nat \ {0} /\ \A i \in 1 .. Len(data) : data[i] \in Byte
  BY EmptySeq, LenProperties
<1>2. ASSUME NEW k \in 0 .. 3
      PROVE  data[((4 * n + k) % Len(data)) + 1] \in Byte
  <2>1. 4 * n + k \in Nat
    OBVIOUS
  <2>2. (4 * n + k) % Len(data) \in 0 .. Len(data) - 1
    BY <1>1, <2>1
  <2> QED
    BY <1>1, <2>2
<1> QED
  BY <1>2 DEF Blowfish_stream2word, Word

\* Whatever pair of the tables takes a block, they stay tables.
LEMMA PutPairType ==
  ASSUME NEW c \in Context, NEW k, NEW block \in Block
  PROVE  PutPair(c, k, block) \in Context
<1>1. block[1] \in Word /\ block[2] \in Word
  BY DEF Block
<1>2. CASE k < 9
  BY <1>1, <1>2 DEF PutPair, Context
<1>3. CASE ~(k < 9)
  <2> DEFINE i == (2 * (k - 9)) \div ByteSize
             j == (2 * (k - 9)) % ByteSize
  <2>1. PutPair(c, k, block) = [c EXCEPT !.S[i][j] = block[1], !.S[i][j + 1] = block[2]]
    BY <1>3 DEF PutPair
  <2> HIDE DEF i, j
  <2>2. [c EXCEPT !.S[i][j] = block[1], !.S[i][j + 1] = block[2]] \in Context
    BY <1>1 DEF Context
  <2> QED
    BY <2>1, <2>2
<1> QED
  BY <1>2, <1>3

\* The function is defined for tables, data and key.
LEMMA ExpandDefined ==
  ASSUME NEW c \in Context, NEW data \in Seq(Byte), NEW key \in Seq(Byte)
  PROVE  expandstate[<< c, data, key >>] = Expanded(c, data, key)
<1> DEFINE args == << c, data, key >>
<1>1. args \in Context \X Seq(Byte) \X Seq(Byte)
  OBVIOUS
<1>2. args[1] = c /\ args[2] = data /\ args[3] = key
  OBVIOUS
<1> HIDE DEF args
<1>3. expandstate[args] = Expanded(args[1], args[2], args[3])
  BY <1>1, Zenon DEF expandstate
<1>4. expandstate[args] = Expanded(c, data, key)
  BY <1>2, <1>3, Zenon
<1> QED
  BY <1>4, Zenon DEF args

\* The key schedule ends with tables again, from any tables, data and key.
LEMMA ExpandType ==
  ASSUME NEW c \in Context, NEW data \in Seq(Byte), data # << >>,
         NEW key \in Seq(Byte), key # << >>
  PROVE  expandstate[<< c, data, key >>] \in Context
<1> DEFINE top == 9 + 2 * ByteSize
           words == [k \in 0 .. 17 |-> c.P[k] ^^ Blowfish_stream2word(key, k)]
           mixed == [c EXCEPT !.P = words]
           AfterPair(prev, k) ==
               Put(prev, k, Blowfish_encipher(prev.ctx,
                   << prev.block[1] ^^ Blowfish_stream2word(data, 2 * k),
                      prev.block[2] ^^ Blowfish_stream2word(data, 2 * k + 1) >>))
           first == [ctx |-> mixed, block |-> << ZeroWord, ZeroWord >>]
           Pass == [ctx : Context, block : Block]
           step == [x \in Pass \X (1 .. top) |-> AfterPair(x[1], x[2] - 1)]
<1>1. top \in Nat
  BY ByteSizeType
<1>2. first \in Pass
  <2>1. mixed \in Context
    <3>1. \A k \in 0 .. 17 : c.P[k] \in Word /\ Blowfish_stream2word(key, k) \in Word
      <4>1. c.P \in [0 .. 17 -> Word]
        BY SMTT(20) DEF Context, BLF_N
      <4>2. \A f \in [0 .. 17 -> Word], k \in 0 .. 17 : f[k] \in Word /\ k \in Nat
        BY SMT
      <4>3. \A k \in 0 .. 17 : c.P[k] \in Word /\ k \in Nat
        BY <4>1, <4>2, Zenon
      <4> QED
        BY <4>3, StreamWordType
    <3>2. \A k \in 0 .. 17 : c.P[k] ^^ Blowfish_stream2word(key, k) \in Word
      BY <3>1, XorUndone
    <3>3. words \in [0 .. 17 -> Word]
      BY <3>2
    <3> HIDE DEF words
    <3>4. /\ c.P \in [0 .. 17 -> Word] /\ c.S \in [0 .. 3 -> [Byte -> Word]]
          /\ c = [P |-> c.P, S |-> c.S]
      BY DEF Context, BLF_N
    <3>5. mixed = [P |-> words, S |-> c.S]
      <4>1. PICK p, s : c = [P |-> p, S |-> s]
        BY <3>4
      <4>2. [c EXCEPT !.P = words] = [P |-> words, S |-> s]
        BY <4>1
      <4> QED
        BY <4>1, <4>2
    <3> QED
      BY <3>3, <3>4, <3>5 DEF Context, BLF_N
  <2>2. << ZeroWord, ZeroWord >> \in Block
    BY ByteSizeType DEF Block, Word, ZeroWord, Byte
  <2> QED
    BY <2>1, <2>2
<1>3. ASSUME NEW prev \in Pass, NEW k \in Nat
      PROVE  AfterPair(prev, k) \in Pass
  <2>1. prev.ctx \in Context /\ prev.block[1] \in Word /\ prev.block[2] \in Word
    BY DEF Block
  <2> DEFINE in == << prev.block[1] ^^ Blowfish_stream2word(data, 2 * k),
                      prev.block[2] ^^ Blowfish_stream2word(data, 2 * k + 1) >>
             out == Blowfish_encipher(prev.ctx, in)
  <2>2. in \in Block
    <3>1. /\ Blowfish_stream2word(data, 2 * k) \in Word
          /\ Blowfish_stream2word(data, 2 * k + 1) \in Word
      BY StreamWordType
    <3> QED
      BY <2>1, <3>1, XorUndone DEF Block
  <2> HIDE DEF in
  <2>3. out \in Block
    BY <2>1, <2>2, DecipherUndoesEncipher
  <2>4. PutPair(prev.ctx, k, out) \in Context
    BY <2>1, <2>3, PutPairType
  <2> HIDE DEF out
  <2>5. Put(prev, k, out) \in Pass
    BY <2>3, <2>4 DEF Put
  <2> QED
    BY <2>5 DEF in, out
<1> HIDE DEF AfterPair, mixed, top
<1>4. step \in [Pass \X (1 .. top) -> Pass]
  <2>1. \A x \in Pass \X (1 .. top) : x[1] \in Pass /\ x[2] - 1 \in Nat
    BY <1>1
  <2> HIDE DEF Pass
  <2> QED
    BY <1>3, <2>1
<1> HIDE DEF step, Pass, first
<1>5. PICK f \in [0 .. top -> Pass] : Iterates(f, top, first, step)
  BY <1>1, <1>2, <1>4, IterationExists
<1> DEFINE Schedules(p) ==
             p = [k \in 0 .. top |-> IF k = 0 THEN first ELSE AfterPair(p[k - 1], k - 1)]
           pass == CHOOSE p : Schedules(p)
<1>6. Schedules(f)
  <2>1. ASSUME NEW k \in 0 .. top
        PROVE  f[k] = IF k = 0 THEN first ELSE AfterPair(f[k - 1], k - 1)
    <3>1. CASE k = 0
      BY <1>5, <3>1 DEF Iterates
    <3>2. CASE k # 0
      <4>1. k \in 1 .. top /\ k - 1 \in 0 .. top
        BY <1>1, <3>2
      <4>2. f[k] = step[<< f[k - 1], k >>] /\ f[k - 1] \in Pass
        BY <1>5, <4>1 DEF Iterates
      <4>3. step[<< f[k - 1], k >>] = AfterPair(f[k - 1], k - 1)
        BY <4>1, <4>2 DEF step
      <4> QED
        BY <3>2, <4>2, <4>3
    <3> QED
      BY <3>1, <3>2
  <2>2. f = [k \in 0 .. top |-> f[k]]
    BY <1>5
  <2> QED
    BY <2>1, <2>2
<1> HIDE DEF Schedules
<1>7. Schedules(pass)
  BY <1>6
<1>8. \A k \in 0 .. top : pass[k] \in Pass
  <2>1. \A k \in 0 .. top :
          pass[k] = IF k = 0 THEN first ELSE AfterPair(pass[k - 1], k - 1)
    BY <1>7, Zenon DEF Schedules
  <2> HIDE DEF pass
  <2>2. pass[0] \in Pass
    BY <1>1, <1>2, <2>1
  <2>3. ASSUME NEW k \in 1 .. top, pass[k - 1] \in Pass
        PROVE  pass[k] \in Pass
    <3>1. k \in 0 .. top /\ k # 0 /\ k - 1 \in Nat
      BY <1>1
    <3>2. pass[k] = AfterPair(pass[k - 1], k - 1)
      BY <2>1, <3>1, Zenon
    <3> QED
      BY <1>3, <2>3, <3>1, <3>2, Zenon
  <2> QED
    BY <1>1, <2>2, <2>3, IterationType
<1>9. pass[top].ctx \in Context
  <2>1. top \in 0 .. top
    BY <1>1
  <2>2. pass[top] \in Pass
    BY <1>8, <2>1, Zenon
  <2> HIDE DEF pass
  <2> QED
    BY <2>2 DEF Pass
<1>10. Expanded(c, data, key) = pass[top].ctx
  BY Zenon DEF Expanded, pass, Schedules, first, mixed, words, AfterPair, top
<1> QED
  BY <1>9, <1>10, ExpandDefined

\* Keys that give the subkeys the same bytes give them the same words.
LEMMA SameBytesSameWords ==
  ASSUME NEW k1, NEW k2, SameKey(k1, k2), NEW k \in 0 .. 17
  PROVE  Blowfish_stream2word(k1, k) = Blowfish_stream2word(k2, k)
<1>1. ASSUME NEW i \in 0 .. 3
      PROVE  k1[((4 * k + i) % Len(k1)) + 1] = k2[((4 * k + i) % Len(k2)) + 1]
  <2>1. 4 * k + i \in 0 .. 4 * (16 + 2) - 1
    OBVIOUS
  <2> QED
    BY <2>1, Zenon DEF SameKey, BLF_N
<1> QED
  BY <1>1 DEF Blowfish_stream2word

\* Of the key, only the words mixed into the subkeys matter to the tables.
LEMMA SameWordsSameTables ==
  ASSUME NEW c \in Context, NEW data \in Seq(Byte),
         NEW k1 \in Seq(Byte), NEW k2 \in Seq(Byte), SameKey(k1, k2)
  PROVE  expandstate[<< c, data, k1 >>] = expandstate[<< c, data, k2 >>]
<1> DEFINE words(key) == [k \in 0 .. 17 |-> c.P[k] ^^ Blowfish_stream2word(key, k)]
           AfterPair(prev, k) ==
               Put(prev, k, Blowfish_encipher(prev.ctx,
                   << prev.block[1] ^^ Blowfish_stream2word(data, 2 * k),
                      prev.block[2] ^^ Blowfish_stream2word(data, 2 * k + 1) >>))
           Passes(mixed) ==
               (CHOOSE p : p = [k \in 0 .. 9 + 2 * ByteSize |->
                   IF k = 0
                   THEN [ctx |-> [c EXCEPT !.P = mixed], block |-> << ZeroWord, ZeroWord >>]
                   ELSE AfterPair(p[k - 1], k - 1)])[9 + 2 * ByteSize].ctx
<1>1. words(k1) = words(k2)
  BY SameBytesSameWords
<1>2. /\ Expanded(c, data, k1) = Passes(words(k1))
      /\ Expanded(c, data, k2) = Passes(words(k2))
  BY Zenon DEF Expanded
<1> HIDE DEF Passes, words
<1>3. Passes(words(k1)) = Passes(words(k2))
  BY <1>1, Zenon
<1> QED
  BY <1>2, <1>3, ExpandDefined

\* The context of a key.
LEMMA KeyType ==
  ASSUME NEW key \in Seq(Byte), key # << >>
  PROVE  blf_key(key) \in Context
<1>1. << 0 >> \in Seq(Byte) /\ << 0 >> # << >>
  BY ByteSizeType DEF Byte
<1> QED
  BY <1>1, TablesAssumption, ExpandType DEF blf_key, Blowfish_expand0state

-----------------------------------------------------------------------------
(* Chains of blocks, and buffers.                                          *)

\* A block mixed with another is a block, and mixing again undoes it.
LEMMA MixingUndone ==
  ASSUME NEW b \in Block, NEW d \in Block
  PROVE  Mixed(b, d) \in Block /\ Mixed(Mixed(b, d), d) = b
<1>1. b[1] \in Word /\ b[2] \in Word /\ d[1] \in Word /\ d[2] \in Word
      /\ b = << b[1], b[2] >>
  BY DEF Block
<1>2. /\ b[1] ^^ d[1] \in Word /\ (b[1] ^^ d[1]) ^^ d[1] = b[1]
      /\ b[2] ^^ d[2] \in Word /\ (b[2] ^^ d[2]) ^^ d[2] = b[2]
  BY <1>1, XorUndone
<1> QED
  BY <1>1, <1>2 DEF Mixed, Block

\* Every block of a chain is the block before it, already enciphered, mixed
\* with its own and enciphered.
LEMMA ChainOfBlocks ==
  ASSUME NEW c \in Context, NEW iv0 \in Block, NEW blocks \in Seq(Block)
  PROVE  LET out == blf_cbc_encrypt(c, iv0, blocks)
         IN  /\ out \in Seq(Block) /\ Len(out) = Len(blocks)
             /\ \A k \in 1 .. Len(blocks) :
                   out[k] = Blowfish_encipher(c,
                               Mixed(blocks[k], IF k = 1 THEN iv0 ELSE out[k - 1]))
<1> DEFINE n == Len(blocks)
           Next1(prev, k) == Blowfish_encipher(c, Mixed(blocks[k], prev))
           step == [x \in Block \X (1 .. n) |-> Next1(x[1], x[2])]
<1>1. n \in Nat /\ DOMAIN blocks = 1 .. n /\ \A k \in 1 .. n : blocks[k] \in Block
  BY LenProperties
<1>2. ASSUME NEW prev \in Block, NEW k \in 1 .. n
      PROVE  Next1(prev, k) \in Block
  <2>1. Mixed(blocks[k], prev) \in Block
    BY <1>1, MixingUndone
  <2> QED
    BY <2>1, DecipherUndoesEncipher
<1> HIDE DEF n, Next1
<1>3. step \in [Block \X (1 .. n) -> Block]
  <2>1. \A x \in Block \X (1 .. n) : x[1] \in Block /\ x[2] \in 1 .. n
    OBVIOUS
  <2> QED
    BY <1>2, <2>1
<1> HIDE DEF step
<1>4. PICK f \in [0 .. n -> Block] : Iterates(f, n, iv0, step)
  BY <1>1, <1>3, IterationExists
<1>5. ASSUME NEW k \in 1 .. n
      PROVE  f[k] = Next1(f[k - 1], k) /\ f[k - 1] \in Block
  <2>1. k - 1 \in 0 .. n /\ f[k] = step[<< f[k - 1], k >>]
    BY <1>1, <1>4 DEF Iterates
  <2> QED
    BY <2>1 DEF step
<1> DEFINE Chain(p) == p = [k \in DOMAIN blocks |->
                               Next1(IF k = 1 THEN iv0 ELSE p[k - 1], k)]
           out == CHOOSE p : Chain(p)
<1>6. Chain([k \in 1 .. n |-> f[k]])
  <2> DEFINE p == [k \in 1 .. n |-> f[k]]
  <2>1. ASSUME NEW k \in 1 .. n
        PROVE  p[k] = Next1(IF k = 1 THEN iv0 ELSE p[k - 1], k)
    <3>1. (IF k = 1 THEN iv0 ELSE p[k - 1]) = f[k - 1]
      <4>1. CASE k = 1
        BY <4>1, <1>4 DEF Iterates
      <4>2. CASE k # 1
        <5>1. k - 1 \in 1 .. n
          BY <4>2, <1>1
        <5> QED
          BY <4>2, <5>1
      <4> QED
        BY <4>1, <4>2
    <3> QED
      BY <3>1, <1>5, Zenon
  <2>2. p = [k \in 1 .. n |-> p[k]]
    OBVIOUS
  <2> HIDE DEF p
  <2>3. p = [k \in 1 .. n |-> Next1(IF k = 1 THEN iv0 ELSE p[k - 1], k)]
    BY <2>1, <2>2
  <2>4. Chain(p)
    BY <2>3, <1>1
  <2> QED
    BY <2>4 DEF p
<1> HIDE DEF Chain
<1>7. Chain(out)
  BY <1>6
<1>8. \A k \in 1 .. n : out[k] = Next1(IF k = 1 THEN iv0 ELSE out[k - 1], k)
  BY <1>7, <1>1, Zenon DEF Chain
<1>9. out = [k \in 1 .. n |-> out[k]]
  <2>1. \A p : Chain(p) => p = [k \in 1 .. n |-> p[k]]
    BY <1>1 DEF Chain
  <2> HIDE DEF out
  <2> QED
    BY <1>7, <2>1, Zenon
<1>10. blf_cbc_encrypt(c, iv0, blocks) = out
  <2>1. blf_cbc_encrypt(c, iv0, blocks) = [k \in DOMAIN blocks |-> out[k]]
    BY Zenon DEF blf_cbc_encrypt, out, Chain, Next1
  <2> HIDE DEF out
  <2> QED
    BY <2>1, <1>1, <1>9, Zenon
<1> HIDE DEF out
<1> DEFINE Typed == {k \in 0 .. n : k = 0 \/ out[k] \in Block}
<1>11. \A k \in 0 .. n : k \in Typed
  <2>1. 0 \in Typed
    BY <1>1
  <2>2. ASSUME NEW k \in 1 .. n, k - 1 \in Typed
        PROVE  k \in Typed
    <3>1. (IF k = 1 THEN iv0 ELSE out[k - 1]) \in Block
      BY <2>2
    <3>2. out[k] \in Block
      BY <3>1, <1>2, <1>8
    <3> QED
      BY <3>2, <1>1
  <2> HIDE DEF Typed
  <2> QED
    BY <1>1, <2>1, <2>2, UpTo
<1>12. \A k \in 1 .. n : out[k] \in Block
  BY <1>11, <1>1
<1>13. out \in Seq(Block) /\ Len(out) = n
  BY <1>1, <1>9, <1>12
<1> QED
  BY <1>8, <1>10, <1>13, <1>1, Zenon DEF n, Next1

\* What was enciphered as a chain is what blf_cbc_decrypt makes of it.
THEOREM CbcDecryptUndoesEncrypt ==
  ASSUME NEW c \in Context, NEW iv0 \in Block, NEW blocks \in Seq(Block)
  PROVE  blf_cbc_decrypt(c, iv0, blf_cbc_encrypt(c, iv0, blocks)) = blocks
<1> DEFINE out == blf_cbc_encrypt(c, iv0, blocks)
           Before(k) == IF k = 1 THEN iv0 ELSE out[k - 1]
<1>1. /\ out \in Seq(Block) /\ Len(out) = Len(blocks)
      /\ \A k \in 1 .. Len(blocks) :
            out[k] = Blowfish_encipher(c, Mixed(blocks[k], Before(k)))
  BY ChainOfBlocks
<1> HIDE DEF out
<1>2. /\ Len(blocks) \in Nat /\ DOMAIN out = 1 .. Len(blocks)
      /\ blocks = [k \in 1 .. Len(blocks) |-> blocks[k]]
  BY <1>1, LenProperties
<1>3. ASSUME NEW k \in 1 .. Len(blocks)
      PROVE  Mixed(Blowfish_decipher(c, out[k]), Before(k)) = blocks[k]
  <2>1. blocks[k] \in Block
    BY <1>2
  <2>2. Before(k) \in Block
    <3>1. CASE k = 1
      BY <3>1
    <3>2. CASE k # 1
      <4>1. k - 1 \in 1 .. Len(out)
        BY <3>2, <1>1, <1>2
      <4>2. out[k - 1] \in Block
        BY <1>1, <4>1
      <4> QED
        BY <3>2, <4>2
    <3> QED
      BY <3>1, <3>2
  <2> HIDE DEF Before
  <2>3. Mixed(blocks[k], Before(k)) \in Block
        /\ Mixed(Mixed(blocks[k], Before(k)), Before(k)) = blocks[k]
    BY <2>1, <2>2, MixingUndone
  <2>4. Blowfish_decipher(c, out[k]) = Mixed(blocks[k], Before(k))
    BY <1>1, <2>3, DecipherUndoesEncipher
  <2> QED
    BY <2>3, <2>4, Zenon
<1>4. blf_cbc_decrypt(c, iv0, out) = [k \in 1 .. Len(blocks) |->
          Mixed(Blowfish_decipher(c, out[k]), Before(k))]
  BY <1>2, Zenon DEF blf_cbc_decrypt
<1>5. blf_cbc_decrypt(c, iv0, out) = blocks
  <2> HIDE DEF Before
  <2> QED
    BY <1>2, <1>3, <1>4
<1> QED
  BY <1>5, Zenon DEF out

\* A buffer that was enciphered once holds what its caller's text became.
Enciphered ==
  /\ keys \in Seq(Keys) /\ Len(keys) \in 0 .. 2
  /\ Len(keys) = 1 =>
        /\ mode \in {"ecb", "cbc"} /\ iv \in Block /\ text \in Seq(Block)
        /\ buffer = IF mode = "ecb" THEN blf_enc(blf_key(keys[1]), text)
                    ELSE blf_cbc_encrypt(blf_key(keys[1]), iv, text)
  /\ RestoredByItsKey

\* A buffer enciphered in place, with the ecb or the cbc functions and any
\* chaining block, is restored by deciphering it with a key that is the same
\* to the cipher, whatever the tables, the width of a byte and the texts.
THEOREM CipherRestores == CipherSpec => []RestoredByItsKey
<1>1. CipherInit => Enciphered
  BY DEF CipherInit, Enciphered, RestoredByItsKey
<1>2. Enciphered /\ [CipherNext]_cipherVars => Enciphered'
  <2> SUFFICES ASSUME Enciphered, [CipherNext]_cipherVars
               PROVE  Enciphered'
    OBVIOUS
  <2>1. ASSUME NEW key \in Keys, NEW m \in {"ecb", "cbc"}, NEW v \in Ivs, NEW t \in Texts,
               Encrypt(key, m, v, t)
        PROVE  Enciphered'
    <3>1. v \in Block /\ t \in Seq(Block)
      BY CipherAssumption
    <3>2. keys' \in Seq(Keys) /\ Len(keys') = 1 /\ keys'[1] = key
      BY <2>1 DEF Encrypt
    <3> QED
      BY <2>1, <3>1, <3>2 DEF Enciphered, RestoredByItsKey, Encrypt
  <2>2. ASSUME NEW key \in Keys, Decrypt(key)
        PROVE  Enciphered'
    <3>1. /\ keys' \in Seq(Keys) /\ Len(keys') = 2
          /\ keys'[1] = keys[1] /\ keys'[2] = key /\ keys[1] \in Keys
      <4>1. keys \in Seq(Keys) /\ Len(keys) = 1 /\ keys' = Append(keys, key)
        BY <2>2 DEF Decrypt, Enciphered
      <4>2. PICK one \in Seq(Keys) : one = keys
        BY <4>1
      <4>3. one[1] \in Keys
        BY <4>1, <4>2, ElementOfSeq
      <4>4. /\ Append(one, key) \in Seq(Keys) /\ Len(Append(one, key)) = 2
            /\ Append(one, key)[1] = one[1] /\ Append(one, key)[2] = key
        BY <4>1, <4>2, AppendProperties
      <4> QED
        BY <4>1, <4>2, <4>3, <4>4
    <3>2. ASSUME SameKey(keys[1], key)
          PROVE  buffer' = text
      <4> DEFINE c == blf_key(keys[1])
      <4>1. /\ keys[1] \in Seq(Byte) /\ keys[1] # << >>
            /\ key \in Seq(Byte) /\ << 0 >> \in Seq(Byte)
        BY <3>1, CipherAssumption, ByteSizeType DEF Byte
      <4>2. c \in Context
        BY <4>1, KeyType
      <4>3. blf_key(key) = c
        BY <4>1, <3>2, TablesAssumption, SameWordsSameTables
        DEF blf_key, Blowfish_expand0state
      <4> HIDE DEF c
      <4>4. CASE mode = "ecb"
        BY <2>2, <4>2, <4>3, <4>4, DecUndoesEnc DEF Decrypt, Enciphered, c
      <4>5. CASE mode # "ecb"
        BY <2>2, <4>2, <4>3, <4>5, CbcDecryptUndoesEncrypt DEF Decrypt, Enciphered, c
      <4> QED
        BY <4>4, <4>5
    <3> QED
      BY <2>2, <3>1, <3>2 DEF Enciphered, RestoredByItsKey, Decrypt
  <2>3. CASE UNCHANGED cipherVars
    BY <2>3 DEF cipherVars, Enciphered, RestoredByItsKey
  <2> QED
    BY <2>1, <2>2, <2>3 DEF CipherNext
<1>3. Enciphered => RestoredByItsKey
  BY DEF Enciphered
<1> QED
  BY <1>1, <1>2, <1>3, PTL DEF CipherSpec

-----------------------------------------------------------------------------
(* Base64.                                                                 *)

\* A number in two digits, of which the lower is less than its base.
LEMMA Digits ==
  ASSUME NEW m \in Nat \ {0}, NEW q \in Nat, NEW r \in 0 .. m - 1
  PROVE  (q * m + r) \div m = q /\ (q * m + r) % m = r
<1> DEFINE x == q * m + r
<1>1. q * m \in Nat /\ x \in Nat
  BY SMT
<1> HIDE DEF x
<1>2. PICK a \in Nat, b \in 0 .. m - 1 : a = x \div m /\ b = x % m /\ x = a * m + b
  BY <1>1, SMT
<1>3. a * m + b = q * m + r
  BY <1>2 DEF x
<1>4. CASE a = q
  BY <1>2, <1>3, <1>4, SMT DEF x
<1>5. ASSUME NEW u \in Nat, NEW v \in Nat, u < v
      PROVE  u * m + m <= v * m
  <2>1. PICK d \in Nat : v = u + 1 + d
    BY <1>5, SMT
  <2>2. v * m = u * m + m + d * m /\ d * m \in Nat
    BY <2>1, SMT
  <2> QED
    BY <2>2, SMT
<1>6. CASE a < q
  <2>1. a * m + m <= q * m
    BY <1>5, <1>6
  <2> QED
    BY <1>1, <1>3, <2>1, SMT
<1>7. CASE q < a
  <2>1. q * m + m <= a * m
    BY <1>5, <1>7
  <2>2. q * m \in Nat /\ a * m \in Nat
    BY SMT
  <2> QED
    BY <1>3, <2>1, <2>2, SMT
<1> QED
  BY <1>4, <1>6, <1>7, SMT

\* And any number is made of its two digits.
LEMMA InDigits ==
  ASSUME NEW m \in Nat \ {0}, NEW x \in Nat
  PROVE  x \div m \in Nat /\ x % m \in 0 .. m - 1 /\ (x \div m) * m + (x % m) = x
BY SMT

\* A number of so many values has a higher digit of fewer.
LEMMA HighDigit ==
  ASSUME NEW m \in Nat \ {0}, NEW l \in Nat \ {0}, NEW x \in 0 .. l * m - 1
  PROVE  x \div m \in 0 .. l - 1
<1>1. l * m \in Nat /\ x \in Nat
  BY SMT
<1>2. PICK a \in Nat, b \in 0 .. m - 1 : a = x \div m /\ x = a * m + b
  BY <1>1, InDigits
<1>3. ASSUME ~(a < l)
      PROVE  FALSE
  <2>1. PICK d \in Nat : a = l + d
    BY <1>3, SMT
  <2>2. a * m = l * m + d * m /\ d * m \in Nat
    BY <2>1, SMT
  <2> QED
    BY <1>1, <1>2, <2>2, SMT
<1> QED
  BY <1>2, <1>3

\* The values of the four characters of three bytes, and the bytes of four
\* characters, as the loops of bcrypt.cpp compute them.
V0(a) == a \div Radix
V1(a, b) == (a % Radix) * Radix * Radix + b \div (Radix * Radix)
V2(b, c) == (b % (Radix * Radix)) * Radix + c \div (Radix * Radix * Radix)
V3(c) == c % (Radix * Radix * Radix)

B0(u0, u1) == u0 * Radix + u1 \div (Radix * Radix)
B1(u1, u2) == (u1 % (Radix * Radix)) * Radix * Radix + u2 \div Radix
B2(u2, u3) == (u2 % Radix) * Radix * Radix * Radix + u3

\* Three bytes are put into four characters and taken out of them again.
LEMMA GroupRestored ==
  ASSUME NEW a \in Byte, NEW b \in Byte, NEW c \in Byte
  PROVE  /\ V0(a) \in 0 .. Radix * Radix * Radix - 1
         /\ V1(a, b) \in 0 .. Radix * Radix * Radix - 1
         /\ V2(b, c) \in 0 .. Radix * Radix * Radix - 1
         /\ V3(c) \in 0 .. Radix * Radix * Radix - 1
         /\ B0(V0(a), V1(a, b)) = a
         /\ B1(V1(a, b), V2(b, c)) = b
         /\ B2(V2(b, c), V3(c)) = c
<1> DEFINE R == Radix
           R2 == R * R
           R3 == R * R * R
<1>1. R \in Nat \ {0} /\ R2 \in Nat \ {0} /\ R3 \in Nat \ {0}
  <2>1. R \in Nat \ {0} /\ R2 \in Nat \ {0}
    BY RadixAssumption, SMT
  <2> HIDE DEF R, R2
  <2>2. R2 * R \in Nat \ {0}
    BY <2>1, SMT
  <2> QED
    BY <2>1, <2>2 DEF R2
<1>2. ByteSize = R3 * R /\ ByteSize = R2 * R2 /\ ByteSize = R * R3 /\ R3 = R * R2
      /\ R3 = R2 * R
  BY RadixAssumption, SMT DEF ByteSize
<1>3. a \in 0 .. R3 * R - 1 /\ b \in 0 .. R2 * R2 - 1 /\ c \in 0 .. R * R3 - 1
      /\ a \in Nat /\ b \in Nat /\ c \in Nat
  BY <1>2, ByteSizeType DEF Byte
<1>a. /\ (a % R) * Radix * Radix = (a % R) * R2
      /\ \A x \in Nat : x * Radix * Radix = x * R2
      /\ \A x \in Nat : x * Radix * Radix * Radix = x * R3
  BY RadixAssumption, <1>3, SMT
<1> DEFINE ah == a \div R
           al == a % R
           bh == b \div R2
           bl == b % R2
           ch == c \div R3
           cl == c % R3
<1>4. /\ ah \in 0 .. R3 - 1 /\ al \in 0 .. R - 1 /\ ah * R + al = a
      /\ bh \in 0 .. R2 - 1 /\ bl \in 0 .. R2 - 1 /\ bh * R2 + bl = b
      /\ ch \in 0 .. R - 1 /\ cl \in 0 .. R3 - 1 /\ ch * R3 + cl = c
  <2> HIDE DEF R, R2, R3
  <2> QED
    BY <1>1, <1>3, InDigits, HighDigit
<1>5. /\ V0(a) = ah /\ V1(a, b) = al * R2 + bh /\ V2(b, c) = bl * R + ch /\ V3(c) = cl
  <2>1. al * Radix * Radix = al * R2
    BY <1>a
  <2> QED
    BY <2>1, Zenon DEF V0, V1, V2, V3
<1> HIDE DEF R, R2, R3, ah, al, bh, bl, ch, cl
<1>6. /\ al \in Nat /\ bl \in Nat /\ ch \in Nat /\ bh \in Nat /\ cl \in Nat /\ ah \in Nat
      /\ V1(a, b) \div R2 = al /\ V1(a, b) % R2 = bh
      /\ V2(b, c) \div R = bl /\ V2(b, c) % R = ch
  <2>1. /\ al \in Nat /\ bl \in Nat /\ ch \in Nat /\ bh \in Nat /\ cl \in Nat /\ ah \in Nat
    BY <1>1, <1>4
  <2>2. (al * R2 + bh) \div R2 = al /\ (al * R2 + bh) % R2 = bh
    BY <1>1, <1>4, <2>1, Digits, Zenon
  <2>3. (bl * R + ch) \div R = bl /\ (bl * R + ch) % R = ch
    BY <1>1, <1>4, <2>1, Digits, Zenon
  <2> QED
    BY <1>5, <2>1, <2>2, <2>3, Zenon
<1>7. ASSUME NEW l \in Nat \ {0}, NEW m \in Nat \ {0}, NEW q \in 0 .. l - 1, NEW r \in 0 .. m - 1
      PROVE  q * m + r \in 0 .. l * m - 1
  <2>1. PICK d \in Nat : l = q + 1 + d
    BY SMT
  <2>2. l * m = q * m + m + d * m /\ d * m \in Nat /\ q * m \in Nat
    BY <2>1, SMT
  <2> QED
    BY <2>2, SMT
<1>8. V1(a, b) \in 0 .. R * R2 - 1 /\ V2(b, c) \in 0 .. R2 * R - 1
  BY <1>1, <1>4, <1>5, <1>7
<1>9. /\ V0(a) \in 0 .. R3 - 1 /\ V1(a, b) \in 0 .. R3 - 1
      /\ V2(b, c) \in 0 .. R3 - 1 /\ V3(c) \in 0 .. R3 - 1
  BY <1>2, <1>4, <1>5, <1>8
<1>10. /\ V0(a) * R + V1(a, b) \div R2 = a
       /\ (V1(a, b) % R2) * R2 + V2(b, c) \div R = b
       /\ (V2(b, c) % R) * R3 + V3(c) = c
  BY <1>4, <1>5, <1>6
<1>11. /\ (V1(a, b) % R2) * Radix * Radix = (V1(a, b) % R2) * R2
       /\ (V2(b, c) % R) * Radix * Radix * Radix = (V2(b, c) % R) * R3
  BY <1>6, <1>a
<1> QED
  BY <1>9, <1>10, <1>11, Zenon DEF R, R2, R3, B0, B1, B2

\* The byte number n of the data, as if followed by zeros, and the value of
\* the character number k.
ByteAt(data, n) == IF n < Len(data) THEN data[n + 1] ELSE 0

ValueAt(data, k) ==
  LET g == 3 * (k \div 4)
  IN  CASE k % 4 = 0 -> V0(ByteAt(data, g))
        [] k % 4 = 1 -> V1(ByteAt(data, g), ByteAt(data, g + 1))
        [] k % 4 = 2 -> V2(ByteAt(data, g + 1), ByteAt(data, g + 2))
        [] k % 4 = 3 -> V3(ByteAt(data, g + 2))

Codes == {Base64Code[v] : v \in DOMAIN Base64Code}

\* A text begins with the characters of the data.
Begins(chars, data) ==
  \A k \in 1 .. TextLength(Len(data)) :
     k \in DOMAIN chars /\ chars[k] = Base64Code[ValueAt(data, k - 1)]

\* Bytes are what is encoded.
LEMMA ByteAtType ==
  ASSUME NEW data \in Seq(Byte), NEW n \in Nat
  PROVE  ByteAt(data, n) \in Byte
BY ByteSizeType DEF ByteAt, Byte

\* The values of the four characters of a group, and their bytes.
LEMMA GroupValues ==
  ASSUME NEW data \in Seq(Byte), NEW g \in Nat
  PROVE  LET v(i) == ValueAt(data, 4 * g + i)
         IN  /\ \A i \in 0 .. 3 : v(i) \in DOMAIN Base64Code
             /\ B0(v(0), v(1)) = ByteAt(data, 3 * g)
             /\ B1(v(1), v(2)) = ByteAt(data, 3 * g + 1)
             /\ B2(v(2), v(3)) = ByteAt(data, 3 * g + 2)
<1> DEFINE a == ByteAt(data, 3 * g)
           b == ByteAt(data, 3 * g + 1)
           c == ByteAt(data, 3 * g + 2)
<1>1. a \in Byte /\ b \in Byte /\ c \in Byte
  BY ByteAtType
<1>2. /\ (4 * g + 0) \div 4 = g /\ (4 * g + 0) % 4 = 0
      /\ (4 * g + 1) \div 4 = g /\ (4 * g + 1) % 4 = 1
      /\ (4 * g + 2) \div 4 = g /\ (4 * g + 2) % 4 = 2
      /\ (4 * g + 3) \div 4 = g /\ (4 * g + 3) % 4 = 3
  BY SMT
<1> HIDE DEF a, b, c
<1>3. /\ ValueAt(data, 4 * g + 0) = V0(a) /\ ValueAt(data, 4 * g + 1) = V1(a, b)
      /\ ValueAt(data, 4 * g + 2) = V2(b, c) /\ ValueAt(data, 4 * g + 3) = V3(c)
  <2>1. ASSUME NEW k, k \div 4 = g
        PROVE  /\ k % 4 = 0 => ValueAt(data, k) = V0(a)
               /\ k % 4 = 1 => ValueAt(data, k) = V1(a, b)
               /\ k % 4 = 2 => ValueAt(data, k) = V2(b, c)
               /\ k % 4 = 3 => ValueAt(data, k) = V3(c)
    BY <2>1 DEF ValueAt, a, b, c
  <2> QED
    BY <1>2, <2>1, Zenon
<1>4. DOMAIN Base64Code = 0 .. Radix * Radix * Radix - 1
  BY BcryptAssumption
<1>5. /\ V0(a) \in DOMAIN Base64Code /\ V1(a, b) \in DOMAIN Base64Code
      /\ V2(b, c) \in DOMAIN Base64Code /\ V3(c) \in DOMAIN Base64Code
      /\ B0(V0(a), V1(a, b)) = a
      /\ B1(V1(a, b), V2(b, c)) = b
      /\ B2(V2(b, c), V3(c)) = c
  BY <1>1, <1>4, GroupRestored
<1>6. \A i \in 0 .. 3 : i = 0 \/ i = 1 \/ i = 2 \/ i = 3
  OBVIOUS
<1>7. \A i \in 0 .. 3 : ValueAt(data, 4 * g + i) \in DOMAIN Base64Code
  BY <1>3, <1>5, <1>6, Zenon
<1> QED
  BY <1>3, <1>5, <1>7, Zenon DEF a, b, c

\* So every value is one of the alphabet.
LEMMA ValueType ==
  ASSUME NEW data \in Seq(Byte), NEW k \in Nat
  PROVE  ValueAt(data, k) \in DOMAIN Base64Code
<1>1. PICK g \in Nat, i \in 0 .. 3 : k = 4 * g + i
  <2>1. k \div 4 \in Nat /\ k % 4 \in 0 .. 3 /\ k = 4 * (k \div 4) + (k % 4)
    BY SMT
  <2> QED
    BY <2>1
<1> QED
  BY <1>1, GroupValues, Zenon

\* What encode_base64 makes of the data.
LEMMA EncodedText ==
  ASSUME NEW data \in Seq(Byte)
  PROVE  /\ encode_base64(data) \in Seq(Codes)
         /\ Len(encode_base64(data)) = TextLength(Len(data))
         /\ TextLength(Len(data)) \in Nat
         /\ \A k \in 1 .. TextLength(Len(data)) :
               encode_base64(data)[k] = Base64Code[ValueAt(data, k - 1)]
<1>1. TextLength(Len(data)) \in Nat
  <2>1. Len(data) \in Nat
    BY LenProperties
  <2> QED
    BY <2>1, SMT DEF TextLength
<1>2. encode_base64(data) =
          [k \in 1 .. TextLength(Len(data)) |-> Base64Code[ValueAt(data, k - 1)]]
  BY Zenon DEF encode_base64, ValueAt, ByteAt, V0, V1, V2, V3
<1>3. ASSUME NEW k \in 1 .. TextLength(Len(data))
      PROVE  Base64Code[ValueAt(data, k - 1)] \in Codes
  <2>1. k - 1 \in Nat
    BY <1>1
  <2> QED
    BY <2>1, ValueType DEF Codes
<1> HIDE DEF Codes
<1> DEFINE n == TextLength(Len(data))
<1> HIDE DEF n
<1>4. n \in Nat /\ encode_base64(data) \in [1 .. n -> Codes]
  BY <1>1, <1>2, <1>3, Zenon DEF n
<1>5. encode_base64(data) \in Seq(Codes) /\ Len(encode_base64(data)) = n
  BY <1>4
<1> QED
  BY <1>1, <1>2, <1>5, Zenon DEF n

\* CHAR64 finds the value of a character.
LEMMA CharValue ==
  ASSUME NEW chars, NEW k, NEW v \in DOMAIN Base64Code, chars[k + 1] = Base64Code[v]
  PROVE  Char64(chars, k) = v
<1>1. \A w \in DOMAIN Base64Code : Base64Code[w] = chars[k + 1] => w = v
  BY BcryptAssumption, Zenon
<1>2. \E w \in DOMAIN Base64Code : Base64Code[w] = chars[k + 1]
  OBVIOUS
<1> QED
  BY <1>1, <1>2, Zenon DEF Char64

\* Every byte of the data is decoded from a text that begins with its
\* characters: also the last ones, whose group is cut short.
THEOREM Base64Survives ==
  ASSUME NEW data \in Seq(Byte), NEW chars, Begins(chars, data)
  PROVE  /\ Decodes(chars, Len(data))
         /\ decode_base64(chars, Len(data)) = data
<1>1. Len(data) \in Nat /\ \A n \in 1 .. Len(data) : data[n] \in Byte
  BY LenProperties
<1>2. TextLength(Len(data)) \in Nat /\ 3 * TextLength(Len(data)) > 4 * Len(data) - 1
  BY <1>1, SMT DEF TextLength
<1>3. Decodes(chars, Len(data))
  <2> SUFFICES ASSUME NEW k \in 1 .. TextLength(Len(data))
               PROVE  k \in DOMAIN chars
                      /\ \E v \in DOMAIN Base64Code : Base64Code[v] = chars[k]
    BY DEF Decodes
  <2>1. k - 1 \in Nat
    BY <1>2
  <2>2. ValueAt(data, k - 1) \in DOMAIN Base64Code
    BY <2>1, ValueType
  <2> QED
    BY <2>2, Zenon DEF Begins
<1>4. ASSUME NEW k \in 0 .. TextLength(Len(data)) - 1
      PROVE  Char64(chars, k) = ValueAt(data, k)
  <2>1. k \in Nat /\ k + 1 \in 1 .. TextLength(Len(data)) /\ (k + 1) - 1 = k
    BY <1>2
  <2>2. chars[k + 1] = Base64Code[ValueAt(data, k)]
    BY <2>1 DEF Begins
  <2> QED
    BY <2>1, <2>2, ValueType, CharValue
<1> DEFINE value(n) ==
             LET g == 4 * (n \div 3)
             IN  CASE n % 3 = 0 -> B0(Char64(chars, g), Char64(chars, g + 1))
                   [] n % 3 = 1 -> B1(Char64(chars, g + 1), Char64(chars, g + 2))
                   [] n % 3 = 2 -> B2(Char64(chars, g + 2), Char64(chars, g + 3))
<1>5. ASSUME NEW n \in 1 .. Len(data)
      PROVE  value(n - 1) = data[n]
  <2>1. PICK g \in Nat, i \in 0 .. 2 :
          (n - 1) \div 3 = g /\ (n - 1) % 3 = i /\ n - 1 = 3 * g + i
    <3>1. \A x \in Nat : x \div 3 \in Nat /\ x % 3 \in 0 .. 2 /\ x = 3 * (x \div 3) + (x % 3)
      BY SMT
    <3>2. n - 1 \in Nat
      BY <1>1
    <3> QED
      BY <3>1, <3>2
  <2>2. 4 * g \in Nat /\ 4 * g + i + 1 < TextLength(Len(data))
    BY <1>1, <1>2, <2>1, SMT DEF TextLength
  <2>3. \A j \in 0 .. i + 1 : Char64(chars, 4 * g + j) = ValueAt(data, 4 * g + j)
    BY <1>2, <1>4, <2>2
  <2>4. ByteAt(data, 3 * g + i) = data[n]
    BY <1>1, <2>1 DEF ByteAt
  <2>5. value(n - 1) = CASE i = 0 -> B0(Char64(chars, 4 * g), Char64(chars, 4 * g + 1))
                         [] i = 1 -> B1(Char64(chars, 4 * g + 1), Char64(chars, 4 * g + 2))
                         [] i = 2 -> B2(Char64(chars, 4 * g + 2), Char64(chars, 4 * g + 3))
    BY <2>1, Zenon
  <2>6. /\ B0(ValueAt(data, 4 * g), ValueAt(data, 4 * g + 1)) = ByteAt(data, 3 * g)
        /\ B1(ValueAt(data, 4 * g + 1), ValueAt(data, 4 * g + 2)) = ByteAt(data, 3 * g + 1)
        /\ B2(ValueAt(data, 4 * g + 2), ValueAt(data, 4 * g + 3)) = ByteAt(data, 3 * g + 2)
    <3>1. 4 * g + 0 = 4 * g
      OBVIOUS
    <3> QED
      BY <3>1, GroupValues
  <2> HIDE DEF value
  <2>7. CASE i = 0
    <3>1. Char64(chars, 4 * g) = ValueAt(data, 4 * g)
          /\ Char64(chars, 4 * g + 1) = ValueAt(data, 4 * g + 1)
          /\ ByteAt(data, 3 * g) = data[n]
      BY <2>2, <2>3, <2>4, <2>7
    <3> QED
      BY <2>5, <2>6, <2>7, <3>1
  <2>8. CASE i = 1
    <3>1. Char64(chars, 4 * g + 1) = ValueAt(data, 4 * g + 1)
          /\ Char64(chars, 4 * g + 2) = ValueAt(data, 4 * g + 2)
      BY <2>2, <2>3, <2>8
    <3> QED
      BY <2>4, <2>5, <2>6, <2>8, <3>1
  <2>9. CASE i = 2
    <3>1. Char64(chars, 4 * g + 2) = ValueAt(data, 4 * g + 2)
          /\ Char64(chars, 4 * g + 3) = ValueAt(data, 4 * g + 3)
      BY <2>2, <2>3, <2>9
    <3> QED
      BY <2>4, <2>5, <2>6, <2>9, <3>1
  <2> QED
    BY <2>7, <2>8, <2>9
<1>6. decode_base64(chars, Len(data)) = [n \in 1 .. Len(data) |-> value(n - 1)]
  BY Zenon DEF decode_base64, B0, B1, B2
<1> HIDE DEF value
<1>7. decode_base64(chars, Len(data)) = [n \in 1 .. Len(data) |-> data[n]]
  BY <1>5, <1>6
<1>8. data = [n \in 1 .. Len(data) |-> data[n]]
  BY LenProperties
<1> QED
  BY <1>3, <1>7, <1>8

-----------------------------------------------------------------------------
(* Passwords.                                                              *)

\* A function of the numbers from 1 is a sequence, and has its elements.
LEMMA FunctionIsSeq ==
  ASSUME NEW S, NEW n \in Nat, NEW s \in [1 .. n -> S]
  PROVE  s \in Seq(S) /\ Len(s) = n /\ \A i \in 1 .. n : s[i] \in S
OBVIOUS

\* Two to the power of a natural number is the number of subsets of a set.
LEMMA PowerType ==
  ASSUME NEW n \in Nat
  PROVE  2 ^ n \in Nat
<1>1. IsFiniteSet(1 .. n) /\ Cardinality(1 .. n) = n
  BY FS_Interval
<1> QED
  BY <1>1, FS_SUBSET, FS_CardinalityType

\* The context stays one however often it is expanded.
LEMMA ScheduleType ==
  ASSUME NEW key \in Seq(Byte), key # << >>, NEW csalt \in Seq(Byte), csalt # << >>,
         NEW logr \in Nat
  PROVE  Schedule(key, csalt, logr) \in Context
<1> DEFINE n == 2 ^ logr
           a == Blowfish_expandstate(Blowfish_initstate, csalt, key)
           Round(c) == Blowfish_expand0state(Blowfish_expand0state(c, key), csalt)
           step == [x \in Context \X (1 .. n) |-> Round(x[1])]
           Rounded(p) == p = [k \in 0 .. n |-> IF k = 0 THEN a ELSE Round(p[k - 1])]
           ctx == CHOOSE p : Rounded(p)
<1>1. n \in Nat
  BY PowerType
<1>2. << 0 >> \in Seq(Byte) /\ << 0 >> # << >>
  BY ByteSizeType DEF Byte
<1>3. a \in Context
  BY TablesAssumption, ExpandType DEF Blowfish_expandstate
<1>4. ASSUME NEW c \in Context
      PROVE  Round(c) \in Context
  <2>1. Blowfish_expand0state(c, key) \in Context
    BY <1>2, ExpandType DEF Blowfish_expand0state
  <2> QED
    BY <1>2, <2>1, ExpandType DEF Blowfish_expand0state
<1> HIDE DEF n, a, Round
<1>5. step \in [Context \X (1 .. n) -> Context]
  <2>1. \A x \in Context \X (1 .. n) : x[1] \in Context
    OBVIOUS
  <2> QED
    BY <1>4, <2>1
<1>6. \A c \in Context, k \in 1 .. n : step[<< c, k >>] = Round(c)
  OBVIOUS
<1> HIDE DEF step
<1>7. PICK f \in [0 .. n -> Context] : Iterates(f, n, a, step)
  BY <1>1, <1>3, <1>5, IterationExists
<1>8. Rounded(f)
  <2>1. ASSUME NEW k \in 0 .. n
        PROVE  f[k] = IF k = 0 THEN a ELSE Round(f[k - 1])
    <3>1. CASE k = 0
      BY <1>7, <3>1 DEF Iterates
    <3>2. CASE k # 0
      <4>1. k \in 1 .. n /\ f[k - 1] \in Context
        BY <1>1, <3>2
      <4> QED
        BY <1>6, <1>7, <3>2, <4>1 DEF Iterates
    <3> QED
      BY <3>1, <3>2
  <2>2. f = [k \in 0 .. n |-> f[k]]
    OBVIOUS
  <2> QED
    BY <2>1, <2>2
<1> HIDE DEF Rounded
<1>9. Rounded(ctx)
  BY <1>8
<1> HIDE DEF ctx
<1>10. \A k \in 0 .. n : ctx[k] = IF k = 0 THEN a ELSE Round(ctx[k - 1])
  BY <1>9, Zenon DEF Rounded
<1>11. \A k \in 0 .. n : ctx[k] \in Context
  <2>1. ctx[0] \in Context
    BY <1>1, <1>3, <1>10
  <2>2. \A k \in 1 .. n : ctx[k - 1] \in Context => ctx[k] \in Context
    BY <1>1, <1>4, <1>10
  <2> QED
    BY <1>1, <2>1, <2>2, IterationType
<1>12. Schedule(key, csalt, logr) = ctx[n]
  BY Zenon DEF Schedule, ctx, Rounded, Round, a, n
<1>13. n \in 0 .. n
  BY <1>1
<1> QED
  BY <1>11, <1>12, <1>13, Zenon

\* The words enciphered into a hash are bytes.
LEMMA CiphertextType ==
  ASSUME NEW ctx \in Context
  PROVE  Ciphertext[ctx] \in Seq(Byte)
<1> DEFINE Encipher(blocks) == blf_enc(ctx, blocks)
           Three == [1 .. 3 -> Block]
           step == [x \in Three \X (1 .. 64) |-> Encipher(x[1])]
           Enciphered64(p) == p = [k \in 0 .. 64 |-> IF k = 0 THEN Magic ELSE Encipher(p[k - 1])]
           cdata == CHOOSE p : Enciphered64(p)
<1>1. Magic \in Three
  BY BcryptAssumption DEF BCRYPT_WORDS
<1>2. ASSUME NEW blocks \in Three
      PROVE  Encipher(blocks) \in Three
  <2>1. \A k \in 1 .. 3 : Blowfish_encipher(ctx, blocks[k]) \in Block
    BY DecipherUndoesEncipher
  <2>2. DOMAIN blocks = 1 .. 3
    OBVIOUS
  <2> QED
    BY <2>1, <2>2 DEF blf_enc
<1> HIDE DEF Encipher, Three
<1>3. step \in [Three \X (1 .. 64) -> Three]
  <2>1. \A x \in Three \X (1 .. 64) : x[1] \in Three
    OBVIOUS
  <2> QED
    BY <1>2, <2>1
<1>4. \A b \in Three, k \in 1 .. 64 : step[<< b, k >>] = Encipher(b)
  OBVIOUS
<1> HIDE DEF step
<1>5. PICK f \in [0 .. 64 -> Three] : Iterates(f, 64, Magic, step)
  BY <1>1, <1>3, IterationExists
<1>6. Enciphered64(f)
  <2>1. ASSUME NEW k \in 0 .. 64
        PROVE  f[k] = IF k = 0 THEN Magic ELSE Encipher(f[k - 1])
    <3>1. CASE k = 0
      BY <1>5, <3>1 DEF Iterates
    <3>2. CASE k # 0
      <4>1. k \in 1 .. 64 /\ f[k - 1] \in Three
        BY <3>2
      <4> QED
        BY <1>4, <1>5, <3>2, <4>1 DEF Iterates
    <3> QED
      BY <3>1, <3>2
  <2>2. f = [k \in 0 .. 64 |-> f[k]]
    OBVIOUS
  <2> QED
    BY <2>1, <2>2
<1> HIDE DEF Enciphered64
<1>7. Enciphered64(cdata)
  BY <1>6
<1> HIDE DEF cdata
<1>8. \A k \in 0 .. 64 : cdata[k] = IF k = 0 THEN Magic ELSE Encipher(cdata[k - 1])
  BY <1>7, Zenon DEF Enciphered64
<1>9. cdata[64] \in Three
  <2>1. cdata[0] \in Three
    BY <1>1, <1>8
  <2>2. \A k \in 1 .. 64 : cdata[k - 1] \in Three => cdata[k] \in Three
    BY <1>2, <1>8
  <2> QED
    BY <2>1, <2>2, IterationType
<1>10. Ciphertext[ctx] = SubSeq(BytesOf(cdata[64]), 1, 4 * BCRYPT_WORDS - 1)
  BY Zenon DEF Ciphertext, cdata, Enciphered64, Encipher
<1>11. PICK blocks : blocks = cdata[64] /\ blocks \in [1 .. 3 -> Block] /\ Len(blocks) = 3
  BY <1>9 DEF Three
<1>12. BytesOf(blocks) \in Seq(Byte) /\ Len(BytesOf(blocks)) = 24
       /\ \A i \in 1 .. 24 : BytesOf(blocks)[i] \in Byte
  <2> DEFINE byte(k) ==
               blocks[(k - 1) \div 8 + 1][((k - 1) % 8) \div 4 + 1][((k - 1) % 4) + 1]
  <2>1. ASSUME NEW k \in 1 .. 24
        PROVE  byte(k) \in Byte
    <3>1. \A m \in 0 .. 23 : /\ m \div 8 + 1 \in 1 .. 3
                             /\ (m % 8) \div 4 + 1 \in 1 .. 2
                             /\ (m % 4) + 1 \in 1 .. 4
      BY SMT
    <3>2. k - 1 \in 0 .. 23
      OBVIOUS
    <3>3. PICK b \in 1 .. 3, w \in 1 .. 2, i \in 1 .. 4 : byte(k) = blocks[b][w][i]
      BY <3>1, <3>2, Zenon
    <3>4. blocks[b] \in Block
      BY <1>11
    <3>5. blocks[b][w] \in Word
      BY <3>4 DEF Block
    <3>6. blocks[b][w][i] \in Byte
      BY <3>5 DEF Word
    <3> QED
      BY <3>3, <3>6
  <2>2. BytesOf(blocks) = [k \in 1 .. 8 * Len(blocks) |-> byte(k)]
    BY Zenon DEF BytesOf
  <2> HIDE DEF byte
  <2>3. 8 * Len(blocks) = 24
    BY <1>11
  <2>4. BytesOf(blocks) \in [1 .. 24 -> Byte]
    BY <2>1, <2>2, <2>3
  <2> QED
    BY <2>4, FunctionIsSeq
<1>13. SubSeq(BytesOf(blocks), 1, 23) \in Seq(Byte)
  <2>1. PICK s \in Seq(Byte) : s = BytesOf(blocks) /\ Len(s) = 24
    BY <1>12
  <2>2. \A i \in 1 .. 23 : s[i] \in Byte
    <3>1. \A i \in 1 .. 23 : i \in 1 .. 24
      OBVIOUS
    <3> QED
      BY <1>12, <2>1, <3>1, Zenon
  <2> QED
    BY <2>1, <2>2, SubSeqProperties
<1> QED
  BY <1>10, <1>11, <1>13 DEF BCRYPT_WORDS

\* What a C function sees of a string of bytes is one.
LEMMA CStringType ==
  ASSUME NEW s \in Seq(Byte)
  PROVE  CString(s) \in Seq(Byte)
<1> DEFINE ends == {k \in DOMAIN s : s[k] = NUL}
           first == CHOOSE k \in ends : \A j \in ends : k <= j
<1>1. DOMAIN s = 1 .. Len(s) /\ Len(s) \in Nat
  BY LenProperties
<1>2. CASE ends = {}
  BY <1>2 DEF CString
<1>3. CASE ends # {}
  <2>1. ends \subseteq Nat /\ ends \subseteq 1 .. Len(s)
    BY <1>1
  <2> HIDE DEF ends
  <2>2. \E k \in ends : \A j \in ends : k <= j
    BY <1>3, <2>1, LeastNatural
  <2>3. first \in 1 .. Len(s)
    BY <2>1, <2>2
  <2>4. CString(s) = SubSeq(s, 1, first - 1)
    BY <1>3, Zenon DEF CString, ends
  <2> HIDE DEF first
  <2>5. \A i \in 1 .. first - 1 : s[i] \in Byte
    BY <1>1, <2>3, ElementOfSeq
  <2> QED
    BY <2>3, <2>4, <2>5, SubSeqProperties
<1> QED
  BY <1>2, <1>3

\* The key has at least the NUL.
LEMMA KeyBytesType ==
  ASSUME NEW key \in Seq(Byte)
  PROVE  KeyBytes(key) \in Seq(Byte) /\ KeyBytes(key) # << >>
<1> DEFINE n == AtMost(Len(key), 72) + 1
<1>1. Len(key) \in Nat
  BY LenProperties
<1>2. PICK s \in Seq(Byte) : s = key \o << NUL >> /\ Len(s) = Len(key) + 1
  <2> DEFINE last == << NUL >>
  <2>1. last \in Seq(Byte) /\ Len(last) = 1
    BY ByteSizeType DEF NUL, Byte
  <2> HIDE DEF last
  <2>2. key \o last \in Seq(Byte) /\ Len(key \o last) = Len(key) + 1
    <3>1. key \o last \in Seq(Byte) /\ Len(key \o last) = Len(key) + Len(last)
      BY <2>1, ConcatProperties, Zenon
    <3> QED
      BY <2>1, <3>1
  <2> QED
    BY <2>2 DEF last
<1>3. n \in 1 .. Len(s)
  BY <1>1, <1>2 DEF AtMost
<1>4. KeyBytes(key) = SubSeq(s, 1, n)
  BY <1>2 DEF KeyBytes
<1> HIDE DEF n
<1>5. \A i \in 1 .. n : s[i] \in Byte
  BY <1>2, <1>3, ElementOfSeq
<1>6. SubSeq(s, 1, n) \in Seq(Byte) /\ Len(SubSeq(s, 1, n)) = n
  BY <1>3, <1>5, SubSeqProperties
<1>7. SubSeq(s, 1, n) # << >>
  BY <1>3, <1>6, EmptySeq
<1> QED
  BY <1>4, <1>6, <1>7

\* The hash of a key with a salt: what is behind the salt in it, and all of it.
Behind(key, logr, csalt) ==
  encode_base64(Ciphertext[Schedule(KeyBytes(key), csalt, logr)])

Hash(key, logr, csalt) ==
  [logr |-> logr, text |-> encode_base64(csalt) \o Behind(key, logr, csalt)]

\* A hash is not what is returned on failure.
LEMMA HashShape ==
  ASSUME NEW key \in Seq(Byte), NEW logr \in Nat,
         NEW csalt \in Seq(Byte), Len(csalt) = BCRYPT_MAXSALT
  PROVE  /\ Hash(key, logr, csalt) # Failed
         /\ Behind(key, logr, csalt) \in Seq(Codes)
<1> DEFINE more == Behind(key, logr, csalt)
<1>1. csalt # << >>
  BY BcryptAssumption, EmptySeq
<1>2. more \in Seq(Codes) /\ encode_base64(csalt) \o more \in Seq(Codes)
  <2>1. Schedule(KeyBytes(key), csalt, logr) \in Context
    BY <1>1, KeyBytesType, ScheduleType
  <2>2. Ciphertext[Schedule(KeyBytes(key), csalt, logr)] \in Seq(Byte)
    BY <2>1, CiphertextType
  <2>3. more \in Seq(Codes) /\ encode_base64(csalt) \in Seq(Codes)
    BY <2>2, EncodedText DEF Behind
  <2> HIDE DEF more
  <2> QED
    BY <2>3, ConcatProperties
<1> HIDE DEF more
<1>3. PICK chars \in Seq(Codes) : chars = encode_base64(csalt) \o more
  BY <1>2
<1>4. Hash(key, logr, csalt) = [logr |-> logr, text |-> chars]
  BY <1>3, Zenon DEF Hash, more
<1>5. Failed \notin [logr : Nat, text : Seq(Codes)]
  BY BcryptAssumption DEF Codes
<1>6. Hash(key, logr, csalt) # Failed
  BY <1>4, <1>5
<1> QED
  BY <1>2, <1>6, Zenon DEF more

\* A text that begins with a salt gives the hash with that salt.
LEMMA HashOfSalt ==
  ASSUME NEW key \in Seq(Byte), NEW logr \in BCRYPT_MINLOGROUNDS .. 31,
         NEW csalt \in Seq(Byte), Len(csalt) = BCRYPT_MAXSALT,
         NEW rest \in Seq(Codes)
  PROVE  /\ Begins(encode_base64(csalt) \o rest, csalt)
         /\ bcrypt_hashpass(key, logr, encode_base64(csalt) \o rest) = Hash(key, logr, csalt)
<1> DEFINE chars == encode_base64(csalt) \o rest
<1>1. /\ BCRYPT_MAXSALT \in Nat \ {0} /\ logr \in Nat /\ ~(logr < BCRYPT_MINLOGROUNDS)
      /\ ~(logr > 31)
  BY BcryptAssumption
<1>3. /\ chars \in Seq(Codes)
      /\ Len(chars) = TextLength(BCRYPT_MAXSALT) + Len(rest)
      /\ Begins(chars, csalt)
  <2>1. PICK e \in Seq(Codes) :
           /\ e = encode_base64(csalt) /\ Len(e) = TextLength(BCRYPT_MAXSALT)
           /\ \A k \in 1 .. Len(e) : e[k] = Base64Code[ValueAt(csalt, k - 1)]
    BY EncodedText
  <2>2. /\ e \o rest \in Seq(Codes) /\ Len(e \o rest) = Len(e) + Len(rest)
        /\ \A k \in 1 .. Len(e) : (e \o rest)[k] = e[k]
    BY ConcatProperties
  <2>3. \A k \in 1 .. Len(e) : k \in DOMAIN (e \o rest)
    <3>1. Len(e) \in Nat /\ Len(rest) \in Nat /\ DOMAIN (e \o rest) = 1 .. Len(e \o rest)
      BY <2>2, LenProperties
    <3> QED
      BY <2>2, <3>1
  <2> QED
    BY <2>1, <2>2, <2>3 DEF Begins
<1>4. Decodes(chars, BCRYPT_MAXSALT) /\ decode_base64(chars, BCRYPT_MAXSALT) = csalt
  BY <1>3, Base64Survives
<1>5. ~((3 * Len(chars)) \div 4 < BCRYPT_MAXSALT)
  <2>1. Len(rest) \in Nat
    BY LenProperties
  <2>2. TextLength(BCRYPT_MAXSALT) \in Nat /\ 3 * TextLength(BCRYPT_MAXSALT) >= 4 * BCRYPT_MAXSALT
    BY <1>1, SMT DEF TextLength
  <2>3. Len(chars) \in Nat /\ 3 * Len(chars) >= 4 * BCRYPT_MAXSALT
    BY <1>3, <2>1, <2>2
  <2> HIDE DEF chars
  <2> QED
    BY <1>1, <2>3, SMT
<1> HIDE DEF chars
<1>6. bcrypt_hashpass(key, logr, chars) = Hash(key, logr, csalt)
  BY <1>1, <1>4, <1>5, Zenon DEF bcrypt_hashpass, Hash, Behind
<1> QED
  BY <1>3, <1>6 DEF chars

\* What generateHash returns for the code's arguments.
LEMMA GeneratedHash ==
  ASSUME NEW password \in Seq(Byte), NEW csalt \in Seq(Byte), Len(csalt) = BCRYPT_MAXSALT
  PROVE  /\ Clamped31(LogRounds) \in BCRYPT_MINLOGROUNDS .. 31
         /\ generateHash(password, LogRounds, csalt)
               = Hash(CString(password), Clamped31(LogRounds), csalt)
<1>1. Clamped31(LogRounds) \in BCRYPT_MINLOGROUNDS .. 31
  BY BcryptAssumption, PasswordAssumption DEF Clamped31, AtMost
<1>2. CString(password) \in Seq(Byte)
  BY CStringType
<1>3. << >> \in Seq(Codes) /\ encode_base64(csalt) \o << >> = encode_base64(csalt)
  <2>1. encode_base64(csalt) \in Seq(Codes) /\ << >> \in Seq(Codes)
    BY EncodedText
  <2> QED
    BY <2>1, ConcatEmptySeq
<1>4. bcrypt_hashpass(CString(password), Clamped31(LogRounds), encode_base64(csalt) \o << >>)
          = Hash(CString(password), Clamped31(LogRounds), csalt)
  <2>1. PICK key \in Seq(Byte), logr \in BCRYPT_MINLOGROUNDS .. 31, rest \in Seq(Codes) :
           key = CString(password) /\ logr = Clamped31(LogRounds) /\ rest = << >>
    BY <1>1, <1>2, <1>3
  <2>2. bcrypt_hashpass(key, logr, encode_base64(csalt) \o rest) = Hash(key, logr, csalt)
    BY HashOfSalt
  <2> QED
    BY <2>1, <2>2, Zenon
<1> QED
  BY <1>1, <1>3, <1>4, Zenon DEF generateHash

\* A password is validated against its own hash.
LEMMA OwnHashValidates ==
  ASSUME NEW password \in Seq(Byte), NEW csalt \in Seq(Byte), Len(csalt) = BCRYPT_MAXSALT
  PROVE  validatePassword(password, generateHash(password, LogRounds, csalt))
<1> DEFINE key == CString(password)
           logr == Clamped31(LogRounds)
<1>1. key \in Seq(Byte) /\ logr \in BCRYPT_MINLOGROUNDS .. 31
      /\ generateHash(password, LogRounds, csalt) = Hash(key, logr, csalt)
  BY CStringType, GeneratedHash
<1> HIDE DEF key, logr
<1>a. logr \in Nat
  BY <1>1, BcryptAssumption
<1>2. PICK more \in Seq(Codes) : more = Behind(key, logr, csalt)
  BY <1>1, <1>a, HashShape
<1>3. Hash(key, logr, csalt) # Failed
  BY <1>1, <1>a, HashShape
<1>4. /\ Hash(key, logr, csalt).logr = logr
      /\ Hash(key, logr, csalt).text = encode_base64(csalt) \o more
  BY <1>2 DEF Hash
<1>5. bcrypt_hashpass(key, logr, encode_base64(csalt) \o more) = Hash(key, logr, csalt)
  BY <1>1, HashOfSalt
<1> QED
  BY <1>1, <1>3, <1>4, <1>5, Zenon DEF validatePassword, key

\* A salt that does not end in a space is what its column keeps.
LEMMA ColumnKeeps ==
  ASSUME NEW s \in Seq(Byte), Len(s) # 0, s[Len(s)] # Space
  PROVE  Column(s) = s
<1> DEFINE kept == {n \in 0 .. Len(s) : \A k \in n + 1 .. Len(s) : s[k] = Space}
<1>1. Len(s) \in Nat
  BY LenProperties
<1>2. kept = {Len(s)}
  <2>1. Len(s) \in kept
    BY <1>1
  <2>2. ASSUME NEW n \in kept
        PROVE  n = Len(s)
    <3>1. n < Len(s) => Len(s) \in n + 1 .. Len(s)
      BY <1>1
    <3> QED
      BY <1>1, <3>1
  <2> QED
    BY <2>1, <2>2
<1> HIDE DEF kept
<1>3. (CHOOSE n \in kept : \A m \in kept : n <= m) = Len(s)
  BY <1>1, <1>2
<1>4. Column(s) = SubSeq(s, 1, CHOOSE n \in kept : \A m \in kept : n <= m)
  BY Zenon DEF Column, kept
<1>5. SubSeq(s, 1, Len(s)) = s
  BY <1>1, SubSeqFull
<1> QED
  BY <1>3, <1>4, <1>5, Zenon

\* The columns are those made of the account, and an answer is about them.
RowOfAccount ==
  /\ row # NoRow =>
       /\ account \in [password : Passwords, salt : [1 .. SaltLength -> Byte], csalt : Csalts]
       /\ row = [salt |-> Column(account.salt),
                 hashed_password |-> generateHash(account.salt \o account.password,
                                                  LogRounds, account.csalt)]
  /\ Tried =>
       /\ row # NoRow /\ attempt \in Passwords
       /\ validated = validatePassword(row.salt \o attempt, row.hashed_password)

\* It is kept: an account is made once, an attempt changes no column.
LEMMA RowKept ==
  /\ PasswordInit => RowOfAccount
  /\ RowOfAccount /\ [PasswordNext]_passwordVars => RowOfAccount'
<1>1. PasswordInit => RowOfAccount
  BY DEF PasswordInit, RowOfAccount, Tried
<1>2. ASSUME RowOfAccount, NEW before \in BytesBefore, NEW password \in Passwords,
             NEW csalt \in Csalts, NEW salt \in [1 .. SaltLength -> alphanum \cup {before}],
             CreateAccount(password, salt, csalt)
      PROVE  RowOfAccount'
  <2>1. salt \in [1 .. SaltLength -> Byte]
    BY PasswordAssumption
  <2>2. account' = [password |-> password, salt |-> salt, csalt |-> csalt]
    BY <1>2 DEF CreateAccount
  <2>3. ~Tried /\ ~Tried'
    BY <1>2 DEF RowOfAccount, Tried, CreateAccount
  <2> QED
    BY <1>2, <2>1, <2>2, <2>3 DEF RowOfAccount, CreateAccount
<1>3. ASSUME RowOfAccount, NEW password \in Passwords, AuthenticateAccount(password)
      PROVE  RowOfAccount'
  BY <1>3 DEF RowOfAccount, AuthenticateAccount
<1>4. ASSUME RowOfAccount, UNCHANGED passwordVars
      PROVE  RowOfAccount'
  BY <1>4 DEF RowOfAccount, passwordVars, Tried
<1> QED
  BY <1>1, <1>2, <1>3, <1>4 DEF PasswordNext

\* Everything an account is made of is bytes.
LEMMA AccountTypes ==
  ASSUME RowOfAccount, row # NoRow
  PROVE  /\ account.salt \in Seq(Byte) /\ Len(account.salt) = SaltLength
         /\ account.salt \o account.password \in Seq(Byte)
         /\ account.csalt \in Seq(Byte) /\ Len(account.csalt) = BCRYPT_MAXSALT
<1>1. /\ account.salt \in [1 .. SaltLength -> Byte] /\ account.password \in Passwords
      /\ account.csalt \in [1 .. BCRYPT_MAXSALT -> Byte]
  BY PasswordAssumption DEF RowOfAccount
<1>2. SaltLength \in Nat /\ BCRYPT_MAXSALT \in Nat
  BY PasswordAssumption, BcryptAssumption
<1>3. account.password \in Seq(Byte)
  <2>1. account.password \in Seq(Byte \ {NUL})
    BY <1>1, PasswordAssumption
  <2>2. PICK n \in Nat : account.password \in [1 .. n -> Byte \ {NUL}]
    BY <2>1, SeqDef
  <2>3. account.password \in [1 .. n -> Byte]
    BY <2>2
  <2> QED
    BY <2>3, FunctionIsSeq
<1>4. account.salt \in Seq(Byte) /\ Len(account.salt) = SaltLength
  BY <1>1, <1>2, FunctionIsSeq
<1>5. account.csalt \in Seq(Byte) /\ Len(account.csalt) = BCRYPT_MAXSALT
  BY <1>1, <1>2, FunctionIsSeq
<1> QED
  BY <1>3, <1>4, <1>5, ConcatProperties

\* Whatever csalt was drawn, all its bytes are read back from the hash in the
\* database, which is never that of a failure.
THEOREM SaltIsKept == PasswordSpec => []SaltSurvives
<1>1. RowOfAccount => SaltSurvives
  <2> SUFFICES ASSUME RowOfAccount, row # NoRow
               PROVE  /\ row.hashed_password # Failed
                      /\ Decodes(row.hashed_password.text, BCRYPT_MAXSALT)
                      /\ decode_base64(row.hashed_password.text, BCRYPT_MAXSALT) = account.csalt
    BY DEF SaltSurvives
  <2> DEFINE password == account.salt \o account.password
             key == CString(password)
             logr == Clamped31(LogRounds)
             hash == Hash(key, logr, account.csalt)
  <2>1. /\ password \in Seq(Byte) /\ account.csalt \in Seq(Byte)
        /\ Len(account.csalt) = BCRYPT_MAXSALT
    BY AccountTypes
  <2>2. row.hashed_password = generateHash(password, LogRounds, account.csalt)
    BY DEF RowOfAccount
  <2> HIDE DEF password
  <2>3. key \in Seq(Byte) /\ logr \in BCRYPT_MINLOGROUNDS .. 31 /\ row.hashed_password = hash
    BY <2>1, <2>2, CStringType, GeneratedHash
  <2> HIDE DEF key, logr
  <2>4. PICK csalt \in Seq(Byte) : csalt = account.csalt /\ Len(csalt) = BCRYPT_MAXSALT
    BY <2>1
  <2>5. logr \in Nat
    BY <2>3, BcryptAssumption
  <2>6. PICK more \in Seq(Codes) : more = Behind(key, logr, csalt)
    BY <2>3, <2>4, <2>5, HashShape
  <2>7. hash # Failed
    BY <2>3, <2>4, <2>5, HashShape
  <2>8. hash.text = encode_base64(csalt) \o more
    BY <2>4, <2>6 DEF Hash
  <2>9. Begins(hash.text, csalt)
    BY <2>3, <2>4, <2>8, HashOfSalt
  <2> QED
    BY <2>3, <2>4, <2>7, <2>9, Base64Survives
<1> QED
  BY <1>1, RowKept, PTL DEF PasswordSpec

\* The password an account was created with is accepted, whatever salts were
\* drawn, unless the salt ended in a space.
THEOREM OwnPasswordLogsIn == PasswordSpec => []OwnPasswordAccepted
<1>1. RowOfAccount => OwnPasswordAccepted
  <2> SUFFICES ASSUME RowOfAccount, Tried, attempt = account.password,
                      account.salt[SaltLength] # Space
               PROVE  validated
    BY DEF OwnPasswordAccepted
  <2>1. row # NoRow
    BY DEF RowOfAccount
  <2>2. Len(account.salt) # 0
    BY <2>1, AccountTypes, PasswordAssumption
  <2>3. Column(account.salt) = account.salt
    BY <2>1, <2>2, AccountTypes, ColumnKeeps
  <2>4. /\ row.salt = account.salt
        /\ row.hashed_password = generateHash(account.salt \o account.password,
                                              LogRounds, account.csalt)
        /\ validated = validatePassword(row.salt \o attempt, row.hashed_password)
    BY <2>1, <2>3 DEF RowOfAccount
  <2>5. validatePassword(account.salt \o account.password,
                         generateHash(account.salt \o account.password,
                                      LogRounds, account.csalt))
    BY <2>1, AccountTypes, OwnHashValidates
  <2> QED
    BY <2>4, <2>5, Zenon
<1> QED
  BY <1>1, RowKept, PTL DEF PasswordSpec
=============================================================================
