----------------------------- MODULE MCHashing ------------------------------
(* The passwords and the buffers of the block cipher for TLC, on bytes of  *)
(* four bits.  They share the functions of Blowfish and no state, so the   *)
(* steps of the one are taken from the initial states of the other.        *)
EXTENDS PasswordHash, BlockCipher

XorTable ==
    [a, b \in 0 .. 15 |->
        LET bit(k) == ((a \div k + b \div k) % 2) * k
        IN  bit(1) + bit(2) + bit(4) + bit(8)]
ByteXor(a, b) == XorTable[a, b]

\* Some fixed tables in place of the digits of Pi.
Digit(n) == (7 * n * n + 5 * n + n \div 3 + 3) % 16
SomeWord(n) == << Digit(n), Digit(2 * n + 1), Digit(3 * n + 5), Digit(n + 9) >>
SomeP == [n \in 0 .. 17 |-> SomeWord(n)]
SomeS == [i \in 0 .. 3 |-> [n \in 0 .. 15 |-> SomeWord(18 + 16 * i + n)]]
SomeBlock(n) == << SomeWord(n), SomeWord(n + 1) >>
SomeMagic == [k \in 1 .. 3 |-> SomeBlock(100 + 2 * k)]
SomeCode == [v \in 0 .. 7 |-> 8 + v]

\* The salt of two bytes leaves 70 of the key's 72.
Repeated(n) == [k \in 1 .. n |-> 5]
SomePasswords ==
    { << >>, << 5 >>, << 5, 5 >>, Repeated(69) \o << 6 >>, Repeated(69) \o << 6, 6 >> }
SomeCsalts == { << 1, 9, 14, 7 >>, << 0, 15, 15, 2 >> }

SomeKeys == { << 3 >>, << 3, 3 >>, << 3, 3, 3, 3, 4 >>, Repeated(72) \o << 6 >>, Repeated(72) }
SomeIvs == { SomeBlock(60), << ZeroWord, ZeroWord >> }
SomeTexts == { << SomeBlock(70) >>, << SomeBlock(70), SomeBlock(70) >>,
               << SomeBlock(80), SomeBlock(70), SomeBlock(90) >> }

Init == PasswordInit /\ CipherInit

Next ==
    \/ keys = << >> /\ PasswordNext /\ UNCHANGED cipherVars
    \/ row = NoRow /\ CipherNext /\ UNCHANGED passwordVars

Spec == Init /\ [][Next]_<<passwordVars, cipherVars>>
=============================================================================
