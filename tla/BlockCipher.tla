---------------------------- MODULE BlockCipher -----------------------------
(***************************************************************************)
(* The functions for buffers that blowfish.cpp offers besides the ones     *)
(* bcrypt needs (blf_key, blf_enc and blf_dec, and the ecb and cbc         *)
(* functions, which work in place).  The server calls only blf_enc; the    *)
(* caller here is any that follows blf.h.                                  *)
(***************************************************************************)
EXTENDS Blowfish

CONSTANTS
    Keys, Ivs, Texts   \* what a caller may use: bytes, blocks, sequences of blocks

ASSUME CipherAssumption ==
    /\ \A key \in Keys : key \in Seq(Byte) \ {<< >>}
    /\ Ivs \subseteq Block
    /\ \A text \in Texts : text \in Seq(Block) \ {<< >>}

VARIABLES
    keys,     \* of the contexts used so far: the first enciphers
    mode,     \* "ecb" or "cbc"
    iv,
    text,     \* what was in the buffer before it was enciphered
    buffer

cipherVars == <<keys, mode, iv, text, buffer>>

CipherInit ==
    /\ keys = << >> /\ mode = "ecb"
    /\ iv = << ZeroWord, ZeroWord >>
    /\ text = << >> /\ buffer = << >>

Encrypt(key, m, v, t) ==
    /\ keys = << >>
    /\ keys' = << key >> /\ mode' = m /\ iv' = v /\ text' = t
    /\ buffer' = IF m = "ecb" THEN blf_enc(blf_key(key), t)
                 ELSE blf_cbc_encrypt(blf_key(key), v, t)

\* With the context of a key, the one it was enciphered with or another.
Decrypt(key) ==
    /\ Len(keys) = 1
    /\ keys' = Append(keys, key)
    /\ buffer' = IF mode = "ecb" THEN blf_dec(blf_key(key), buffer)
                 ELSE blf_cbc_decrypt(blf_key(key), iv, buffer)
    /\ UNCHANGED <<mode, iv, text>>

CipherNext ==
    \/ \E key \in Keys, m \in {"ecb", "cbc"}, v \in Ivs, t \in Texts :
          Encrypt(key, m, v, t)
    \/ \E key \in Keys : Decrypt(key)

CipherSpec == CipherInit /\ [][CipherNext]_cipherVars
-----------------------------------------------------------------------------
(* Properties.                                                             *)

\* Two keys are one to the cipher when they give the subkeys the same bytes:
\* a key repeats itself to their end, and nothing is taken beyond it.
SameKey(k1, k2) ==
    \A n \in 0 .. 4 * (BLF_N + 2) - 1 : k1[(n % Len(k1)) + 1] = k2[(n % Len(k2)) + 1]

\* What was enciphered in place, block by block or chained, is deciphered in
\* place to what it was with the same key.
RestoredByItsKey ==
    Len(keys) = 2 /\ SameKey(keys[1], keys[2]) => buffer = text

\* With any other key it is not.
HiddenFromOthers ==
    Len(keys) = 2 /\ ~SameKey(keys[1], keys[2]) => buffer # text
=============================================================================
