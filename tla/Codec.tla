-------------------------------- MODULE Codec --------------------------------
(***************************************************************************)
(* pkg/codec/codec.go: PKCS7 padding, ECB over a block cipher, and the     *)
(* frame 00 A0 <length as a big-endian uint32> <ciphertext>.               *)
(*                                                                         *)
(* A byte is a number below Base (256 in the code), a block has BlockSize  *)
(* bytes (16), and the cipher is any pair of operators that are inverse to *)
(* each other on blocks.  A conversion that can fail answers a record with *)
(* a field ok.                                                             *)
(***************************************************************************)
EXTENDS Integers, Sequences

CONSTANTS Base, BlockSize,
          frameByte0, frameByte1,   \* the first two bytes of a frame
          Ciphers,                  \* the keys
          EncBlock(_, _),           \* block.Encrypt with a key
          DecBlock(_, _)            \* block.Decrypt

Byte == 0..(Base - 1)
Block == [1..BlockSize -> Byte]
frameHeaderLen == 6

ASSUME CodecAssumption ==
    /\ Base \in Nat
    /\ BlockSize \in 1..(Base - 1)
    /\ frameByte0 \in Byte /\ frameByte1 \in Byte
    /\ \A k \in Ciphers, b \in Block :
          /\ EncBlock(k, b) \in Block /\ DecBlock(k, EncBlock(k, b)) = b
          /\ DecBlock(k, b) \in Block /\ EncBlock(k, DecBlock(k, b)) = b

Ok(d) == [ok |-> TRUE, data |-> d]
Err == [ok |-> FALSE, data |-> << >>]

\* Between 1 and BlockSize bytes, each holding their number.
pkcs7Pad(d) ==
    LET pad == BlockSize - (Len(d) % BlockSize)
    IN  [i \in 1..(Len(d) + pad) |-> IF i <= Len(d) THEN d[i] ELSE pad]

pkcs7Unpad(d) ==
    LET n == Len(d)
        pad == d[n]
    IN  IF \/ n = 0 \/ n % BlockSize # 0
           \/ pad = 0 \/ pad > BlockSize \/ pad > n
           \/ \E i \in (n - pad + 1)..n : d[i] # pad
        THEN Err
        ELSE Ok([i \in 1..(n - pad) |-> d[i]])

\* Block number b of s, counted from 0; the block of a byte and its place there.
BlockOf(s, b) == [j \in 1..BlockSize |-> s[b * BlockSize + j]]
Number(i) == (i - 1) \div BlockSize
Place(i) == ((i - 1) % BlockSize) + 1

\* The cipher applied to each block.
ecbEncrypt(key, s) ==
    [i \in 1..Len(s) |-> EncBlock(key, BlockOf(s, Number(i)))[Place(i)]]
ecbDecrypt(key, s) ==
    [i \in 1..Len(s) |-> DecBlock(key, BlockOf(s, Number(i)))[Place(i)]]

Encrypt(d, key) == ecbEncrypt(key, pkcs7Pad(d))

Decrypt(c, key) ==
    IF Len(c) = 0 \/ Len(c) % BlockSize # 0 THEN Err ELSE pkcs7Unpad(ecbDecrypt(key, c))

\* binary.BigEndian.PutUint32 and Uint32.
PutUint32(n) ==
    LET q1 == n \div Base
        q2 == q1 \div Base
        q3 == q2 \div Base
    IN  <<q3 % Base, q2 % Base, q1 % Base, n % Base>>
Uint32(s) == ((s[1] * Base + s[2]) * Base + s[3]) * Base + s[4]

Frame(c) == <<frameByte0, frameByte1>> \o PutUint32(Len(c)) \o c

EncodeFrame(d, key) == Frame(Encrypt(d, key))

HasMagic(raw) ==
    Len(raw) >= frameHeaderLen /\ raw[1] = frameByte0 /\ raw[2] = frameByte1

DecodeFrame(raw, key) ==
    IF ~ HasMagic(raw) \/ Uint32(SubSeq(raw, 3, 6)) # Len(raw) - frameHeaderLen
    THEN Err
    ELSE Decrypt(SubSeq(raw, frameHeaderLen + 1, Len(raw)), key)
=============================================================================
