------------------------------- MODULE Bcrypt -------------------------------
(***************************************************************************)
(* The password hash (ChatServer/bcrypt.cpp) over Blowfish.                *)
(*                                                                         *)
(* A string is the sequence of its bytes, without the NUL that ends it for *)
(* the C functions.  A hash, $2b$rr$ and 53 characters, is the record of   *)
(* its logarithm of rounds and these characters; its fixed parts are as    *)
(* bcrypt_initsalt writes them.  With Radix 4, as in the code, a byte has  *)
(* 8 bits and a character stands for 6; in general three bytes are four    *)
(* characters.                                                             *)
(***************************************************************************)
EXTENDS Blowfish

CONSTANTS
    Base64Code,            \* the characters, in the order of their values
    BCRYPT_MAXSALT,        \* bytes of a salt (16 in the code)
    BCRYPT_MINLOGROUNDS,   \* least logarithm of rounds (4 in the code)
    Magic,                 \* OrpheanBeholderScryDoub, and its NUL, as blocks
    Failed                 \* what is returned instead of a hash

BCRYPT_WORDS == 6
NUL == 0

ASSUME BcryptAssumption ==
    /\ DOMAIN Base64Code = 0 .. Radix * Radix * Radix - 1
    /\ \A i, j \in DOMAIN Base64Code : Base64Code[i] = Base64Code[j] => i = j
    /\ BCRYPT_MAXSALT \in Nat \ {0} /\ BCRYPT_MINLOGROUNDS \in 0 .. 31
    /\ Magic \in [1 .. BCRYPT_WORDS \div 2 -> Block]
    /\ Failed \notin [logr : Nat, text : Seq({Base64Code[v] : v \in DOMAIN Base64Code})]
-----------------------------------------------------------------------------
(* Base64.                                                                 *)

\* The number of characters of len bytes.
TextLength(len) == (4 * len + 2) \div 3

\* Mutant of encode_base64: the second byte's high bits are not carried
\* over to the character before its own.
encode_base64Uncarried(data) ==
    LET byte(n) == IF n < Len(data) THEN data[n + 1] ELSE 0
        value(k) ==
            LET g == 3 * (k \div 4)
            IN  CASE k % 4 = 0 -> byte(g) \div Radix
                  [] k % 4 = 1 -> (byte(g) % Radix) * Radix * Radix
                  [] k % 4 = 2 -> (byte(g + 1) % (Radix * Radix)) * Radix
                                      + byte(g + 2) \div (Radix * Radix * Radix)
                  [] k % 4 = 3 -> byte(g + 2) % (Radix * Radix * Radix)
    IN  [k \in 1 .. TextLength(Len(data)) |-> Base64Code[value(k - 1)]]

\* The last group may have one or two bytes, as if followed by zeros.
encode_base64(data) ==
    LET byte(n) == IF n < Len(data) THEN data[n + 1] ELSE 0
        value(k) ==
            LET g == 3 * (k \div 4)
            IN  CASE k % 4 = 0 -> byte(g) \div Radix
                  [] k % 4 = 1 -> (byte(g) % Radix) * Radix * Radix
                                      + byte(g + 1) \div (Radix * Radix)
                  [] k % 4 = 2 -> (byte(g + 1) % (Radix * Radix)) * Radix
                                      + byte(g + 2) \div (Radix * Radix * Radix)
                  [] k % 4 = 3 -> byte(g + 2) % (Radix * Radix * Radix)
    IN  [k \in 1 .. TextLength(Len(data)) |-> Base64Code[value(k - 1)]]

\* CHAR64 of the character at k, which is in the alphabet.
Char64(text, k) == CHOOSE v \in DOMAIN Base64Code : Base64Code[v] = text[k + 1]

\* decode_base64 returns 0: the characters of len bytes are all there.
Decodes(text, len) ==
    \A k \in 1 .. TextLength(len) :
        k \in DOMAIN text /\ \E v \in DOMAIN Base64Code : Base64Code[v] = text[k]

\* What decode_base64 leaves in its buffer then.
decode_base64(text, len) ==
    LET value(n) ==
            LET g == 4 * (n \div 3)
            IN  CASE n % 3 = 0 -> Char64(text, g) * Radix
                                      + Char64(text, g + 1) \div (Radix * Radix)
                  [] n % 3 = 1 -> (Char64(text, g + 1) % (Radix * Radix)) * Radix * Radix
                                      + Char64(text, g + 2) \div Radix
                  [] n % 3 = 2 -> (Char64(text, g + 2) % Radix) * Radix * Radix * Radix
                                      + Char64(text, g + 3)
    IN  [n \in 1 .. len |-> value(n - 1)]
-----------------------------------------------------------------------------
(* The hash.                                                               *)

\* What a C function sees of a string: it ends at the first NUL.
CString(s) ==
    LET ends == {k \in DOMAIN s : s[k] = NUL}
    IN  IF ends = {} THEN s
        ELSE SubSeq(s, 1, (CHOOSE k \in ends : \A j \in ends : k <= j) - 1)

AtMost(n, limit) == IF n < limit THEN n ELSE limit

\* Mutant of KeyBytes: the NUL that ends the key is left out.
KeyBytesOpen(key) ==
    IF key = << >> THEN << NUL >> ELSE SubSeq(key, 1, AtMost(Len(key), 72))

\* The key of minor version b: 72 bytes of the string, and one more, which
\* is its NUL when it is not longer.
KeyBytes(key) == SubSeq(key \o << NUL >>, 1, AtMost(Len(key), 72) + 1)

\* The context after 2^logr rounds.
Schedule(key, csalt, logr) ==
    LET ctx[k \in 0 .. 2 ^ logr] ==
            IF k = 0 THEN Blowfish_expandstate(Blowfish_initstate, csalt, key)
            ELSE Blowfish_expand0state(Blowfish_expand0state(ctx[k - 1], key), csalt)
    IN  ctx[2 ^ logr]

\* The bytes of blocks, in their order.
BytesOf(blocks) ==
    [k \in 1 .. 8 * Len(blocks) |->
        blocks[(k - 1) \div 8 + 1][((k - 1) % 8) \div 4 + 1][((k - 1) % 4) + 1]]

\* The three blocks of Magic enciphered 64 times by blf_enc, which takes
\* each by itself, as bytes; the last of the 24 is not encoded.
Ciphertext[ctx \in Context] ==
    LET cdata[k \in 0 .. 64] ==
            IF k = 0 THEN Magic ELSE blf_enc(ctx, cdata[k - 1])
    IN  SubSeq(BytesOf(cdata[64]), 1, 4 * BCRYPT_WORDS - 1)

\* The text is a salt's, or a whole hash's that begins with one.
bcrypt_hashpass(key, logr, text) ==
    IF \/ logr < BCRYPT_MINLOGROUNDS \/ logr > 31
       \/ (3 * Len(text)) \div 4 < BCRYPT_MAXSALT
       \/ ~Decodes(text, BCRYPT_MAXSALT)
    THEN Failed
    ELSE LET csalt == decode_base64(text, BCRYPT_MAXSALT)
         IN  [logr |-> logr,
              text |-> encode_base64(csalt)
                           \o encode_base64(Ciphertext[Schedule(KeyBytes(key), csalt, logr)])]

\* bcrypt_initsalt draws csalt and clamps the logarithm.
Clamped31(logr) == IF logr < BCRYPT_MINLOGROUNDS THEN BCRYPT_MINLOGROUNDS
                   ELSE AtMost(logr, 31)

generateHash(password, logr, csalt) ==
    bcrypt_hashpass(CString(password), Clamped31(logr), encode_base64(csalt))

\* bcrypt_checkpass returns 0.
validatePassword(password, goodhash) ==
    /\ goodhash # Failed
    /\ bcrypt_hashpass(CString(password), goodhash.logr, goodhash.text) = goodhash
=============================================================================
