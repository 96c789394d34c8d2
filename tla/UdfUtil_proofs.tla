--------------------------- MODULE UdfUtil_proofs ---------------------------
(***************************************************************************)
(* UdfUtil for names of any bytes and blocks of 32 bits.                   *)
(*                                                                         *)
(* Exclusive or is addition modulo 2 in each of sixteen places, so the     *)
(* division by the polynomial is linear; a byte divided by way of the      *)
(* table is the entry of what it cancels, combined with the rest of the    *)
(* register.  With the table's constants (TableAssumption) a turn of the   *)
(* loop is a division, and the loop computes the remainder by induction    *)
(* over the bytes it has passed.  The descriptor is then followed through  *)
(* its buffers, byte by byte, to what a reader finds in it.                *)
(***************************************************************************)
EXTENDS UdfUtil, SumLemmas, SequenceTheorems

(* The bounds of an unsigned short.                                        *)
LEMMA CharBounds ==
  ASSUME NEW n
  PROVE  n \in Char <=> n \in Nat /\ n <= 65535
<1>1. MaxChar \in Int
  BY DEF MaxChar
<1>2. n \in Char <=> n \in Nat /\ n <= MaxChar
  BY <1>1 DEF Char
<1>3. n <= MaxChar <=> n <= 65535
  BY DEF MaxChar
<1> QED BY <1>2, <1>3

(* The places of its bits.                                                 *)
Weights == {1, 2, 4, 8, 16, 32, 64, 128, 256, 512, 1024, 2048, 4096, 8192,
            16384, 32768}

(* A bit is 0 or 1, and what is above it a natural.                        *)
LEMMA BitType ==
  ASSUME NEW a \in Nat, NEW w \in Weights
  PROVE  Bit(a, w) \in 0 .. 1 /\ a \div w \in Nat
<1>1. a \div w \in Nat
  BY DEF Weights
<1> QED BY <1>1 DEF Bit

(* A bit separates a quotient from the next.                               *)
LEMMA BitBelow ==
  ASSUME NEW a \in Nat, NEW w \in Weights
  PROVE  a \div w = Bit(a, w) + 2 * (a \div (2 * w))
<1>1. a \div 1 = ((a \div 1) % 2) + 2 * (a \div 2)
  OBVIOUS
<1>2. a \div 2 = ((a \div 2) % 2) + 2 * (a \div 4)
  OBVIOUS
<1>3. a \div 4 = ((a \div 4) % 2) + 2 * (a \div 8)
  OBVIOUS
<1>4. a \div 8 = ((a \div 8) % 2) + 2 * (a \div 16)
  OBVIOUS
<1>5. a \div 16 = ((a \div 16) % 2) + 2 * (a \div 32)
  OBVIOUS
<1>6. a \div 32 = ((a \div 32) % 2) + 2 * (a \div 64)
  OBVIOUS
<1>7. a \div 64 = ((a \div 64) % 2) + 2 * (a \div 128)
  OBVIOUS
<1>8. a \div 128 = ((a \div 128) % 2) + 2 * (a \div 256)
  OBVIOUS
<1>9. a \div 256 = ((a \div 256) % 2) + 2 * (a \div 512)
  OBVIOUS
<1>10. a \div 512 = ((a \div 512) % 2) + 2 * (a \div 1024)
  OBVIOUS
<1>11. a \div 1024 = ((a \div 1024) % 2) + 2 * (a \div 2048)
  OBVIOUS
<1>12. a \div 2048 = ((a \div 2048) % 2) + 2 * (a \div 4096)
  OBVIOUS
<1>13. a \div 4096 = ((a \div 4096) % 2) + 2 * (a \div 8192)
  OBVIOUS
<1>14. a \div 8192 = ((a \div 8192) % 2) + 2 * (a \div 16384)
  OBVIOUS
<1>15. a \div 16384 = ((a \div 16384) % 2) + 2 * (a \div 32768)
  OBVIOUS
<1>16. a \div 32768 = ((a \div 32768) % 2) + 2 * (a \div 65536)
  OBVIOUS
<1>17. /\ 2 * 1 = 2 /\ 2 * 2 = 4 /\ 2 * 4 = 8 /\ 2 * 8 = 16 /\ 2 * 16 = 32
       /\ 2 * 32 = 64 /\ 2 * 64 = 128 /\ 2 * 128 = 256 /\ 2 * 256 = 512
       /\ 2 * 512 = 1024 /\ 2 * 1024 = 2048 /\ 2 * 2048 = 4096
       /\ 2 * 4096 = 8192 /\ 2 * 8192 = 16384 /\ 2 * 16384 = 32768
       /\ 2 * 32768 = 65536
  OBVIOUS
<1> QED BY <1>1, <1>2, <1>3, <1>4, <1>5, <1>6, <1>7, <1>8, <1>9, <1>10,
          <1>11, <1>12, <1>13, <1>14, <1>15, <1>16, <1>17 DEF Bit, Weights

(* A bit and what is above it are the remainder and the quotient by two.   *)
LEMMA Peel ==
  ASSUME NEW a \in Nat, NEW w \in Weights
  PROVE  Bit(a, w) = (a \div w) % 2 /\ a \div (2 * w) = (a \div w) \div 2
<1> DEFINE b == Bit(a, w)
           g == a \div (2 * w)
           d == a \div w
<1>1. b \in 0 .. 1 /\ g \in Nat /\ d = b + 2 * g
  <2>1. a \div (2 * w) \in Nat
    BY SMTT(30) DEF Weights
  <2> QED BY <2>1, BitType, BitBelow
<1> HIDE DEF b, g, d
<1>2. b = d % 2 /\ g = d \div 2
  BY ONLY <1>1
<1> QED BY <1>2 DEF b, g, d

(* Two numbers with the same bits are the same.                            *)
LEMMA SameBits ==
  ASSUME NEW a \in Char, NEW b \in Char,
         \A w \in Weights : Bit(a, w) = Bit(b, w)
  PROVE  a = b
<1>1. a \in Nat /\ b \in Nat
  BY CharBounds
<1>2. \A w \in Weights :
        a \div (2 * w) = b \div (2 * w) => a \div w = b \div w
  BY <1>1, BitBelow
<1>w. /\ 1 \in Weights /\ 2 \in Weights /\ 4 \in Weights /\ 8 \in Weights
      /\ 16 \in Weights /\ 32 \in Weights /\ 64 \in Weights /\ 128 \in Weights
      /\ 256 \in Weights /\ 512 \in Weights /\ 1024 \in Weights
      /\ 2048 \in Weights /\ 4096 \in Weights /\ 8192 \in Weights
      /\ 16384 \in Weights /\ 32768 \in Weights
  BY DEF Weights
<1>3. a \div 65536 = 0 /\ b \div 65536 = 0
  BY CharBounds
<1>4. a \div 32768 = b \div 32768
  BY ONLY <1>2, <1>w, <1>3, 2 * 32768 = 65536
<1>5. a \div 16384 = b \div 16384
  BY ONLY <1>2, <1>w, <1>4, 2 * 16384 = 32768
<1>6. a \div 8192 = b \div 8192
  BY ONLY <1>2, <1>w, <1>5, 2 * 8192 = 16384
<1>7. a \div 4096 = b \div 4096
  BY ONLY <1>2, <1>w, <1>6, 2 * 4096 = 8192
<1>8. a \div 2048 = b \div 2048
  BY ONLY <1>2, <1>w, <1>7, 2 * 2048 = 4096
<1>9. a \div 1024 = b \div 1024
  BY ONLY <1>2, <1>w, <1>8, 2 * 1024 = 2048
<1>10. a \div 512 = b \div 512
  BY ONLY <1>2, <1>w, <1>9, 2 * 512 = 1024
<1>11. a \div 256 = b \div 256
  BY ONLY <1>2, <1>w, <1>10, 2 * 256 = 512
<1>12. a \div 128 = b \div 128
  BY ONLY <1>2, <1>w, <1>11, 2 * 128 = 256
<1>13. a \div 64 = b \div 64
  BY ONLY <1>2, <1>w, <1>12, 2 * 64 = 128
<1>14. a \div 32 = b \div 32
  BY ONLY <1>2, <1>w, <1>13, 2 * 32 = 64
<1>15. a \div 16 = b \div 16
  BY ONLY <1>2, <1>w, <1>14, 2 * 16 = 32
<1>16. a \div 8 = b \div 8
  BY ONLY <1>2, <1>w, <1>15, 2 * 8 = 16
<1>17. a \div 4 = b \div 4
  BY ONLY <1>2, <1>w, <1>16, 2 * 4 = 8
<1>18. a \div 2 = b \div 2
  BY ONLY <1>2, <1>w, <1>17, 2 * 2 = 4
<1>19. a \div 1 = b \div 1
  BY ONLY <1>2, <1>w, <1>18, 2 * 1 = 2
<1> QED BY <1>19, CharBounds

-----------------------------------------------------------------------------
(* Exclusive or is addition modulo 2, bit by bit.                          *)
LEMMA XorBits ==
  ASSUME NEW a \in Char, NEW b \in Char
  PROVE  /\ Xor(a, b) \in Char
         /\ \A w \in Weights :
              Bit(Xor(a, b), w) = (Bit(a, w) + Bit(b, w)) % 2
<1> DEFINE c(w) == (Bit(a, w) + Bit(b, w)) % 2
           x == Xor(a, b)
           h65536 == 0
           h32768 == c(32768) + 2 * h65536
           h16384 == c(16384) + 2 * h32768
           h8192 == c(8192) + 2 * h16384
           h4096 == c(4096) + 2 * h8192
           h2048 == c(2048) + 2 * h4096
           h1024 == c(1024) + 2 * h2048
           h512 == c(512) + 2 * h1024
           h256 == c(256) + 2 * h512
           h128 == c(128) + 2 * h256
           h64 == c(64) + 2 * h128
           h32 == c(32) + 2 * h64
           h16 == c(16) + 2 * h32
           h8 == c(8) + 2 * h16
           h4 == c(4) + 2 * h8
           h2 == c(2) + 2 * h4
           h1 == c(1) + 2 * h2
<1>1. \A w \in Weights : c(w) \in 0 .. 1
  <2>1. \A w \in Weights : Bit(a, w) \in 0 .. 1 /\ Bit(b, w) \in 0 .. 1
    BY BitType, CharBounds
  <2> QED BY <2>1
<1>2. x = h1
  BY DEF Xor
<1> HIDE DEF c, x
<1>w. /\ 1 \in Weights /\ 2 \in Weights /\ 4 \in Weights /\ 8 \in Weights
      /\ 16 \in Weights /\ 32 \in Weights /\ 64 \in Weights /\ 128 \in Weights
      /\ 256 \in Weights /\ 512 \in Weights /\ 1024 \in Weights
      /\ 2048 \in Weights /\ 4096 \in Weights /\ 8192 \in Weights
      /\ 16384 \in Weights /\ 32768 \in Weights
  BY DEF Weights
<1>19. h65536 \in Nat /\ h65536 <= 0
  OBVIOUS
<1>20. /\ h32768 = c(32768) + 2 * h65536
      /\ h32768 \in Nat /\ h32768 <= 1
  <2> HIDE DEF h65536
  <2> QED BY <1>1, <1>w, <1>19
<1>21. /\ h16384 = c(16384) + 2 * h32768
      /\ h16384 \in Nat /\ h16384 <= 3
  <2> HIDE DEF h32768
  <2> QED BY <1>1, <1>w, <1>20
<1>22. /\ h8192 = c(8192) + 2 * h16384
      /\ h8192 \in Nat /\ h8192 <= 7
  <2> HIDE DEF h16384
  <2> QED BY <1>1, <1>w, <1>21
<1>23. /\ h4096 = c(4096) + 2 * h8192
      /\ h4096 \in Nat /\ h4096 <= 15
  <2> HIDE DEF h8192
  <2> QED BY <1>1, <1>w, <1>22
<1>24. /\ h2048 = c(2048) + 2 * h4096
      /\ h2048 \in Nat /\ h2048 <= 31
  <2> HIDE DEF h4096
  <2> QED BY <1>1, <1>w, <1>23
<1>25. /\ h1024 = c(1024) + 2 * h2048
      /\ h1024 \in Nat /\ h1024 <= 63
  <2> HIDE DEF h2048
  <2> QED BY <1>1, <1>w, <1>24
<1>26. /\ h512 = c(512) + 2 * h1024
      /\ h512 \in Nat /\ h512 <= 127
  <2> HIDE DEF h1024
  <2> QED BY <1>1, <1>w, <1>25
<1>27. /\ h256 = c(256) + 2 * h512
      /\ h256 \in Nat /\ h256 <= 255
  <2> HIDE DEF h512
  <2> QED BY <1>1, <1>w, <1>26
<1>28. /\ h128 = c(128) + 2 * h256
      /\ h128 \in Nat /\ h128 <= 511
  <2> HIDE DEF h256
  <2> QED BY <1>1, <1>w, <1>27
<1>29. /\ h64 = c(64) + 2 * h128
      /\ h64 \in Nat /\ h64 <= 1023
  <2> HIDE DEF h128
  <2> QED BY <1>1, <1>w, <1>28
<1>30. /\ h32 = c(32) + 2 * h64
      /\ h32 \in Nat /\ h32 <= 2047
  <2> HIDE DEF h64
  <2> QED BY <1>1, <1>w, <1>29
<1>31. /\ h16 = c(16) + 2 * h32
      /\ h16 \in Nat /\ h16 <= 4095
  <2> HIDE DEF h32
  <2> QED BY <1>1, <1>w, <1>30
<1>32. /\ h8 = c(8) + 2 * h16
      /\ h8 \in Nat /\ h8 <= 8191
  <2> HIDE DEF h16
  <2> QED BY <1>1, <1>w, <1>31
<1>33. /\ h4 = c(4) + 2 * h8
      /\ h4 \in Nat /\ h4 <= 16383
  <2> HIDE DEF h8
  <2> QED BY <1>1, <1>w, <1>32
<1>34. /\ h2 = c(2) + 2 * h4
      /\ h2 \in Nat /\ h2 <= 32767
  <2> HIDE DEF h4
  <2> QED BY <1>1, <1>w, <1>33
<1>35. /\ h1 = c(1) + 2 * h2
      /\ h1 \in Nat /\ h1 <= 65535
  <2> HIDE DEF h2
  <2> QED BY <1>1, <1>w, <1>34
<1> HIDE DEF h1, h2, h4, h8, h16, h32, h64, h128, h256, h512, h1024, h2048
          , h4096, h8192, h16384, h32768, h65536
<1>36. x \in Nat /\ x <= 65535 /\ x \div 1 = h1
  BY <1>2, <1>35
<1>p. \A w \in Weights :
        Bit(x, w) = (x \div w) % 2 /\ x \div (2 * w) = (x \div w) \div 2
  BY ONLY <1>36, Peel
<1>37. Bit(x, 1) = c(1) /\ x \div 2 = h2
  <2>1. x % 2 = c(1) /\ x \div 2 = h2
    BY ONLY <1>1, <1>2, <1>w, <1>34, <1>35, <1>36
  <2>2. Bit(x, 1) = x % 2
    BY ONLY <1>36 DEF Bit
  <2> QED BY ONLY <2>1, <2>2
<1>38. Bit(x, 2) = c(2) /\ x \div 4 = h4
  <2>1. Bit(x, 2) = (x \div 2) % 2 /\ x \div 4 = (x \div 2) \div 2
    BY ONLY <1>w, <1>p, 2 * 2 = 4, SMTT(30)
  <2> QED BY ONLY <1>1, <1>w, <1>37, <1>34, <1>33, <2>1
<1>39. Bit(x, 4) = c(4) /\ x \div 8 = h8
  <2>1. Bit(x, 4) = (x \div 4) % 2 /\ x \div 8 = (x \div 4) \div 2
    BY ONLY <1>w, <1>p, 2 * 4 = 8, SMTT(30)
  <2> QED BY ONLY <1>1, <1>w, <1>38, <1>33, <1>32, <2>1
<1>40. Bit(x, 8) = c(8) /\ x \div 16 = h16
  <2>1. Bit(x, 8) = (x \div 8) % 2 /\ x \div 16 = (x \div 8) \div 2
    BY ONLY <1>w, <1>p, 2 * 8 = 16, SMTT(30)
  <2> QED BY ONLY <1>1, <1>w, <1>39, <1>32, <1>31, <2>1
<1>41. Bit(x, 16) = c(16) /\ x \div 32 = h32
  <2>1. Bit(x, 16) = (x \div 16) % 2 /\ x \div 32 = (x \div 16) \div 2
    BY ONLY <1>w, <1>p, 2 * 16 = 32, SMTT(30)
  <2> QED BY ONLY <1>1, <1>w, <1>40, <1>31, <1>30, <2>1
<1>42. Bit(x, 32) = c(32) /\ x \div 64 = h64
  <2>1. Bit(x, 32) = (x \div 32) % 2 /\ x \div 64 = (x \div 32) \div 2
    BY ONLY <1>w, <1>p, 2 * 32 = 64, SMTT(30)
  <2> QED BY ONLY <1>1, <1>w, <1>41, <1>30, <1>29, <2>1
<1>43. Bit(x, 64) = c(64) /\ x \div 128 = h128
  <2>1. Bit(x, 64) = (x \div 64) % 2 /\ x \div 128 = (x \div 64) \div 2
    BY ONLY <1>w, <1>p, 2 * 64 = 128, SMTT(30)
  <2> QED BY ONLY <1>1, <1>w, <1>42, <1>29, <1>28, <2>1
<1>44. Bit(x, 128) = c(128) /\ x \div 256 = h256
  <2>1. Bit(x, 128) = (x \div 128) % 2 /\ x \div 256 = (x \div 128) \div 2
    BY ONLY <1>w, <1>p, 2 * 128 = 256, SMTT(30)
  <2> QED BY ONLY <1>1, <1>w, <1>43, <1>28, <1>27, <2>1
<1>45. Bit(x, 256) = c(256) /\ x \div 512 = h512
  <2>1. Bit(x, 256) = (x \div 256) % 2 /\ x \div 512 = (x \div 256) \div 2
    BY ONLY <1>w, <1>p, 2 * 256 = 512, SMTT(30)
  <2> QED BY ONLY <1>1, <1>w, <1>44, <1>27, <1>26, <2>1
<1>46. Bit(x, 512) = c(512) /\ x \div 1024 = h1024
  <2>1. Bit(x, 512) = (x \div 512) % 2 /\ x \div 1024 = (x \div 512) \div 2
    BY ONLY <1>w, <1>p, 2 * 512 = 1024, SMTT(30)
  <2> QED BY ONLY <1>1, <1>w, <1>45, <1>26, <1>25, <2>1
<1>47. Bit(x, 1024) = c(1024) /\ x \div 2048 = h2048
  <2>1. Bit(x, 1024) = (x \div 1024) % 2 /\ x \div 2048 = (x \div 1024) \div 2
    BY ONLY <1>w, <1>p, 2 * 1024 = 2048, SMTT(30)
  <2> QED BY ONLY <1>1, <1>w, <1>46, <1>25, <1>24, <2>1
<1>48. Bit(x, 2048) = c(2048) /\ x \div 4096 = h4096
  <2>1. Bit(x, 2048) = (x \div 2048) % 2 /\ x \div 4096 = (x \div 2048) \div 2
    BY ONLY <1>w, <1>p, 2 * 2048 = 4096, SMTT(30)
  <2> QED BY ONLY <1>1, <1>w, <1>47, <1>24, <1>23, <2>1
<1>49. Bit(x, 4096) = c(4096) /\ x \div 8192 = h8192
  <2>1. Bit(x, 4096) = (x \div 4096) % 2 /\ x \div 8192 = (x \div 4096) \div 2
    BY ONLY <1>w, <1>p, 2 * 4096 = 8192, SMTT(30)
  <2> QED BY ONLY <1>1, <1>w, <1>48, <1>23, <1>22, <2>1
<1>50. Bit(x, 8192) = c(8192) /\ x \div 16384 = h16384
  <2>1. Bit(x, 8192) = (x \div 8192) % 2 /\ x \div 16384 = (x \div 8192) \div 2
    BY ONLY <1>w, <1>p, 2 * 8192 = 16384, SMTT(30)
  <2> QED BY ONLY <1>1, <1>w, <1>49, <1>22, <1>21, <2>1
<1>51. Bit(x, 16384) = c(16384) /\ x \div 32768 = h32768
  <2>1. Bit(x, 16384) = (x \div 16384) % 2
        /\ x \div 32768 = (x \div 16384) \div 2
    BY ONLY <1>w, <1>p, 2 * 16384 = 32768, SMTT(30)
  <2> QED BY ONLY <1>1, <1>w, <1>50, <1>21, <1>20, <2>1
<1>52. Bit(x, 32768) = c(32768) /\ x \div 65536 = h65536
  <2>1. Bit(x, 32768) = (x \div 32768) % 2
        /\ x \div 65536 = (x \div 32768) \div 2
    BY ONLY <1>w, <1>p, 2 * 32768 = 65536, SMTT(30)
  <2> QED BY ONLY <1>1, <1>w, <1>51, <1>20, <1>19, <2>1
<1>53. \A w \in Weights : Bit(x, w) = c(w)
  BY ONLY <1>37, <1>38, <1>39, <1>40, <1>41, <1>42, <1>43, <1>44, <1>45, <1>46
        , <1>47, <1>48, <1>49, <1>50, <1>51, <1>52 DEF Weights
<1> QED BY <1>36, <1>53, CharBounds DEF c, x

(* Exclusive or is commutative and associative, and cancels itself.        *)
LEMMA XorCommutes ==
  ASSUME NEW a \in Char, NEW b \in Char
  PROVE  Xor(a, b) = Xor(b, a)
<1>1. \A w \in Weights : Bit(Xor(a, b), w) = Bit(Xor(b, a), w)
  <2>1. \A w \in Weights : Bit(a, w) \in 0 .. 1 /\ Bit(b, w) \in 0 .. 1
    BY BitType, CharBounds
  <2> QED BY <2>1, XorBits
<1> QED BY <1>1, XorBits, SameBits

(* Exclusive or is associative: a sum modulo 2 in each place.              *)
LEMMA XorAssociates ==
  ASSUME NEW a \in Char, NEW b \in Char, NEW c \in Char
  PROVE  Xor(Xor(a, b), c) = Xor(a, Xor(b, c))
<1>1. Xor(a, b) \in Char /\ Xor(b, c) \in Char
  BY XorBits
<1> DEFINE left == Xor(Xor(a, b), c)
           right == Xor(a, Xor(b, c))
<1>2. left \in Char /\ right \in Char
  BY <1>1, XorBits
<1>3. ASSUME NEW w \in Weights PROVE Bit(left, w) = Bit(right, w)
  <2> DEFINE p == Bit(a, w)
             q == Bit(b, w)
             r == Bit(c, w)
  <2>1. p \in 0 .. 1 /\ q \in 0 .. 1 /\ r \in 0 .. 1
    BY BitType, CharBounds
  <2>2. Bit(left, w) = (((p + q) % 2) + r) % 2
    BY <1>1, XorBits
  <2>3. Bit(right, w) = (p + ((q + r) % 2)) % 2
    BY <1>1, XorBits
  <2> HIDE DEF p, q, r, left, right
  <2> QED BY ONLY <2>1, <2>2, <2>3
<1> HIDE DEF left, right
<1>4. left = right
  BY <1>2, <1>3, SameBits
<1> QED BY <1>4 DEF left, right

(* A value cancels itself.                                                 *)
LEMMA XorCancels ==
  ASSUME NEW a \in Char
  PROVE  Xor(a, a) = 0 /\ Xor(0, a) = a
<1>1. 0 \in Char /\ \A w \in Weights : Bit(0, w) = 0
  BY CharBounds DEF Bit, Weights
<1>2. \A w \in Weights : Bit(a, w) \in 0 .. 1
  BY BitType, CharBounds
<1>3. \A w \in Weights : Bit(Xor(a, a), w) = Bit(0, w)
  BY <1>1, <1>2, XorBits
<1>4. \A w \in Weights : Bit(Xor(0, a), w) = Bit(a, w)
  <2>1. \A w \in Weights : Bit(Xor(0, a), w) = (0 + Bit(a, w)) % 2
    BY <1>1, XorBits
  <2> QED BY <1>2, <2>1
<1> QED BY <1>1, <1>3, <1>4, XorBits, SameBits

-----------------------------------------------------------------------------
(* The division is linear: the register and the dividend may be split into *)
(* exclusive ors of two each.                                              *)
Double(r) == (r * 2) % 65536

(* The register shifted left by one: each bit one place higher, the lowest *)
(* zero.                                                                   *)
LEMMA DoubleBits ==
  ASSUME NEW r \in Char
  PROVE  /\ Double(r) \in Char /\ Bit(Double(r), 1) = 0
         /\ \A w \in Weights \ {32768} : Bit(Double(r), 2 * w) = Bit(r, w)
<1>1. r \in Nat /\ r <= 65535
  BY CharBounds
<1> DEFINE d == Double(r)
           t == r \div 32768
<1>2. t \in 0 .. 1 /\ d = 2 * r - 65536 * t /\ d \in Nat /\ d <= 65535
  BY ONLY <1>1 DEF Double
<1> HIDE DEF d
<1>3. Bit(d, 1) = 0
  BY ONLY <1>1, <1>2 DEF Bit
<1>4. ASSUME NEW w \in Weights \ {32768}
      PROVE  d \div (2 * w) = r \div w - (65536 \div (2 * w)) * t
  BY ONLY <1>1, <1>2, SMTT(60) DEF Weights
<1>5. ASSUME NEW w \in Weights \ {32768}
      PROVE  Bit(d, 2 * w) = Bit(r, w)
  <2> DEFINE k == 32768 \div (2 * w)
             p == d \div (2 * w)
             q == r \div w
  <2>1. k \in Nat /\ 65536 \div (2 * w) = 2 * k
    BY DEF Weights
  <2>2. q \in Int
    BY <1>1 DEF Weights
  <2>3. p = q - (2 * k) * t
    BY <1>4, <2>1
  <2> HIDE DEF k, p, q, t
  <2>4. p = q \/ p = q - 2 * k
    <3>1. CASE t = 0
      BY ONLY <3>1, <2>1, <2>2, <2>3
    <3>2. CASE t = 1
      BY ONLY <3>2, <2>1, <2>2, <2>3
    <3> QED BY ONLY <1>2, <3>1, <3>2
  <2>5. p % 2 = q % 2
    BY ONLY <2>1, <2>2, <2>4
  <2> QED BY <2>5 DEF Bit, p, q
<1> QED BY <1>2, <1>3, <1>5, CharBounds DEF d

(* The shift passes through exclusive or.                                  *)
LEMMA DoubleXor ==
  ASSUME NEW r \in Char, NEW s \in Char
  PROVE  Double(Xor(r, s)) = Xor(Double(r), Double(s))
<1> DEFINE left == Double(Xor(r, s))
           right == Xor(Double(r), Double(s))
<1>1. /\ Xor(r, s) \in Char /\ Double(r) \in Char /\ Double(s) \in Char
      /\ left \in Char /\ right \in Char
  BY XorBits, DoubleBits
<1>2. Bit(left, 1) = Bit(right, 1)
  <2>1. 1 \in Weights
    BY DEF Weights
  <2>2. Bit(left, 1) = 0
    BY <1>1, DoubleBits
  <2>3. Bit(right, 1) = (0 + 0) % 2
    BY <1>1, <2>1, XorBits, DoubleBits
  <2> HIDE DEF left, right
  <2> QED BY <2>2, <2>3
<1>3. ASSUME NEW w \in Weights \ {32768}
      PROVE  Bit(left, 2 * w) = Bit(right, 2 * w)
  <2>1. 2 * w \in Weights
    BY DEF Weights
  <2>2. Bit(left, 2 * w) = (Bit(r, w) + Bit(s, w)) % 2
    BY <1>1, XorBits, DoubleBits
  <2>3. Bit(right, 2 * w) = (Bit(r, w) + Bit(s, w)) % 2
    BY <1>1, <2>1, XorBits, DoubleBits
  <2> QED BY <2>2, <2>3
<1> HIDE DEF left, right
<1>4. \A w \in Weights : w = 1 \/ \E v \in Weights \ {32768} : w = 2 * v
  BY DEF Weights
<1>5. \A w \in Weights : Bit(left, w) = Bit(right, w)
  BY ONLY <1>2, <1>3, <1>4
<1> QED BY <1>1, <1>5, SameBits DEF left, right

(* Four values are combined in either grouping.                            *)
LEMMA XorSwaps ==
  ASSUME NEW a \in Char, NEW b \in Char, NEW c \in Char, NEW d \in Char
  PROVE  Xor(Xor(a, b), Xor(c, d)) = Xor(Xor(a, c), Xor(b, d))
<1>1. /\ Xor(c, d) \in Char /\ Xor(b, d) \in Char /\ Xor(b, c) \in Char
      /\ Xor(c, b) \in Char
  BY XorBits
<1>2. Xor(Xor(a, b), Xor(c, d)) = Xor(a, Xor(b, Xor(c, d)))
  BY <1>1, XorAssociates
<1>3. Xor(b, Xor(c, d)) = Xor(Xor(b, c), d) /\ Xor(b, c) = Xor(c, b)
  BY XorAssociates, XorCommutes
<1>4. Xor(Xor(c, b), d) = Xor(c, Xor(b, d))
  BY XorAssociates
<1>5. Xor(a, Xor(c, Xor(b, d))) = Xor(Xor(a, c), Xor(b, d))
  BY <1>1, XorAssociates
<1> QED BY <1>2, <1>3, <1>4, <1>5, Zenon

(* The polynomial, when the bit shifted out says so.                       *)
Poly(f) == IF f = 1 THEN \h1021 ELSE 0
Feedback(r, b) == (Bit(r, 32768) + b) % 2

(* A turn of the division shifts, and takes the polynomial off if a one    *)
(* went out.                                                               *)
LEMMA ShiftInIs ==
  ASSUME NEW r \in Char, NEW b \in 0 .. 1
  PROVE  /\ Feedback(r, b) \in 0 .. 1 /\ Poly(Feedback(r, b)) \in Char
         /\ ShiftIn(r, b) = Xor(Double(r), Poly(Feedback(r, b)))
         /\ ShiftIn(r, b) \in Char
<1>1. Bit(r, 32768) \in 0 .. 1
  BY BitType, CharBounds DEF Weights
<1>2. Feedback(r, b) \in 0 .. 1
  BY <1>1 DEF Feedback
<1>3. 0 \in Char /\ \h1021 \in Char
  BY CharBounds
<1>4. Poly(Feedback(r, b)) \in Char
  BY <1>3 DEF Poly
<1>5. Double(r) \in Char
  BY DoubleBits
<1>6. Xor(Double(r), 0) = Double(r)
  BY <1>3, <1>5, XorCommutes, XorCancels
<1>7. ShiftIn(r, b) = Xor(Double(r), Poly(Feedback(r, b)))
  <2>1. CASE Feedback(r, b) = 1
    BY ONLY <2>1 DEF ShiftIn, Poly, Feedback, Double
  <2>2. CASE Feedback(r, b) # 1
    BY ONLY <2>2, <1>6 DEF ShiftIn, Poly, Feedback, Double
  <2> QED BY <2>1, <2>2
<1> QED BY <1>2, <1>4, <1>5, <1>7, XorBits

(* So it is linear in register and bit together.                           *)
LEMMA ShiftInXor ==
  ASSUME NEW r \in Char, NEW s \in Char, NEW b \in 0 .. 1, NEW c \in 0 .. 1
  PROVE  ShiftIn(Xor(r, s), (b + c) % 2) = Xor(ShiftIn(r, b), ShiftIn(s, c))
<1> DEFINE f == Feedback(r, b)
           g == Feedback(s, c)
           x == Xor(r, s)
<1>1. /\ f \in 0 .. 1 /\ Poly(f) \in Char
      /\ ShiftIn(r, b) = Xor(Double(r), Poly(f))
      /\ g \in 0 .. 1 /\ Poly(g) \in Char
      /\ ShiftIn(s, c) = Xor(Double(s), Poly(g))
  BY ShiftInIs
<1>2. x \in Char /\ (b + c) % 2 \in 0 .. 1
  BY XorBits
<1>3. ShiftIn(x, (b + c) % 2) = Xor(Double(x), Poly(Feedback(x, (b + c) % 2)))
  BY <1>2, ShiftInIs
<1>4. Feedback(x, (b + c) % 2) = (f + g) % 2
  <2>1. Bit(x, 32768) = (Bit(r, 32768) + Bit(s, 32768)) % 2
    BY XorBits DEF Weights
  <2>2. Bit(r, 32768) \in 0 .. 1 /\ Bit(s, 32768) \in 0 .. 1
    BY BitType, CharBounds DEF Weights
  <2> HIDE DEF x
  <2> QED BY <2>1, <2>2 DEF Feedback
<1> HIDE DEF f, g
<1>5. Poly((f + g) % 2) = Xor(Poly(f), Poly(g))
  <2>1. 0 \in Char /\ \h1021 \in Char
    BY CharBounds
  <2>2. /\ Xor(0, 0) = 0 /\ Xor(0, \h1021) = \h1021
        /\ Xor(\h1021, 0) = \h1021 /\ Xor(\h1021, \h1021) = 0
    BY <2>1, XorCancels, XorCommutes
  <2>3. /\ f = 0 /\ g = 0 => (f + g) % 2 = 0
        /\ f = 0 /\ g = 1 => (f + g) % 2 = 1
        /\ f = 1 /\ g = 0 => (f + g) % 2 = 1
        /\ f = 1 /\ g = 1 => (f + g) % 2 = 0
        /\ f = 0 \/ f = 1
        /\ g = 0 \/ g = 1
    BY <1>1
  <2> QED BY <2>2, <1>1 DEF Poly
<1>6. Double(x) = Xor(Double(r), Double(s))
      /\ Double(r) \in Char /\ Double(s) \in Char
  BY DoubleXor, DoubleBits
<1>7. Xor(Xor(Double(r), Double(s)), Xor(Poly(f), Poly(g)))
        = Xor(Xor(Double(r), Poly(f)), Xor(Double(s), Poly(g)))
  BY <1>1, <1>6, XorSwaps
<1> HIDE DEF x
<1> QED BY <1>1, <1>3, <1>4, <1>5, <1>6, <1>7 DEF x

-----------------------------------------------------------------------------
(* A byte as a short, and exclusive ors of bytes.                          *)
LEMMA ByteIsChar ==
  ASSUME NEW b \in Byte
  PROVE  b \in Char
BY CharBounds DEF Byte

(* Bytes combine to a byte: the table has an entry for it.                 *)
LEMMA XorByte ==
  ASSUME NEW a \in Byte, NEW b \in Byte
  PROVE  Xor(a, b) \in Byte
<1> DEFINE x == Xor(a, b)
           y == x % 256
<1>1. a \in Char /\ b \in Char
  BY ByteIsChar
<1>2. x \in Char
  BY <1>1, XorBits
<1> HIDE DEF x
<1>3. y \in Char /\ x \in Nat /\ x <= 65535
  BY <1>2, CharBounds
<1>4. ASSUME NEW w \in {256, 512, 1024, 2048, 4096, 8192, 16384, 32768}
      PROVE  Bit(x, w) = 0 /\ Bit(y, w) = 0
  <2>1. Bit(a, w) = 0 /\ Bit(b, w) = 0
    BY DEF Bit, Byte
  <2>2. Bit(x, w) = (0 + 0) % 2
    BY <1>1, <2>1, XorBits DEF x, Weights
  <2>3. y \in 0 .. 255
    BY <1>3
  <2>4. Bit(y, w) = 0
    BY <2>3 DEF Bit
  <2> QED BY <2>2, <2>4
<1>5. ASSUME NEW w \in {1, 2, 4, 8, 16, 32, 64, 128}
      PROVE  Bit(x, w) = Bit(y, w)
  BY ONLY <1>3, SMTT(60) DEF Bit
<1>6. x = y
  <2>1. \A w \in Weights : Bit(x, w) = Bit(y, w)
    BY <1>4, <1>5 DEF Weights
  <2> HIDE DEF y
  <2> QED BY <1>2, <1>3, <2>1, SameBits
<1> QED BY <1>3, <1>6 DEF x, Byte

(* A bit of both dividends.                                                *)
LEMMA ShiftInBits ==
  ASSUME NEW r \in Char, NEW s \in Char, NEW b \in Byte, NEW c \in Byte,
         NEW w \in Weights
  PROVE  /\ ShiftIn(r, Bit(b, w)) \in Char /\ ShiftIn(s, Bit(c, w)) \in Char
         /\ ShiftIn(Xor(r, s), Bit(Xor(b, c), w))
              = Xor(ShiftIn(r, Bit(b, w)), ShiftIn(s, Bit(c, w)))
<1>1. b \in Char /\ c \in Char
  BY ByteIsChar
<1>2. Bit(b, w) \in 0 .. 1 /\ Bit(c, w) \in 0 .. 1
  BY <1>1, CharBounds, BitType
<1>3. Bit(Xor(b, c), w) = (Bit(b, w) + Bit(c, w)) % 2
  BY <1>1, XorBits
<1>4. /\ ShiftIn(r, Bit(b, w)) \in Char /\ ShiftIn(s, Bit(c, w)) \in Char
      /\ ShiftIn(Xor(r, s), (Bit(b, w) + Bit(c, w)) % 2)
           = Xor(ShiftIn(r, Bit(b, w)), ShiftIn(s, Bit(c, w)))
  <2> DEFINE p == Bit(b, w)
             q == Bit(c, w)
  <2>1. p \in 0 .. 1 /\ q \in 0 .. 1
    BY <1>2
  <2> HIDE DEF p, q
  <2>2. /\ ShiftIn(r, p) \in Char /\ ShiftIn(s, q) \in Char
        /\ ShiftIn(Xor(r, s), (p + q) % 2) = Xor(ShiftIn(r, p), ShiftIn(s, q))
    <3>1. ShiftIn(r, p) \in Char /\ ShiftIn(s, q) \in Char
      BY <2>1, ShiftInIs
    <3>2. ShiftIn(Xor(r, s), (p + q) % 2) = Xor(ShiftIn(r, p), ShiftIn(s, q))
      BY <2>1, ShiftInXor
    <3> QED BY <3>1, <3>2
  <2> QED BY <2>2 DEF p, q
<1> QED BY <1>3, <1>4

(* The division of a byte, eight turns, is linear too.                     *)
LEMMA DivideXor ==
  ASSUME NEW r \in Char, NEW s \in Char, NEW b \in Byte, NEW c \in Byte
  PROVE  /\ Divide(r, b) \in Char
         /\ Divide(Xor(r, s), Xor(b, c)) = Xor(Divide(r, b), Divide(s, c))
<1> DEFINE r0 == r
           s0 == s
           x0 == Xor(r, s)
           r1 == ShiftIn(r0, Bit(b, 128))
           s1 == ShiftIn(s0, Bit(c, 128))
           x1 == ShiftIn(x0, Bit(Xor(b, c), 128))
           r2 == ShiftIn(r1, Bit(b, 64))
           s2 == ShiftIn(s1, Bit(c, 64))
           x2 == ShiftIn(x1, Bit(Xor(b, c), 64))
           r3 == ShiftIn(r2, Bit(b, 32))
           s3 == ShiftIn(s2, Bit(c, 32))
           x3 == ShiftIn(x2, Bit(Xor(b, c), 32))
           r4 == ShiftIn(r3, Bit(b, 16))
           s4 == ShiftIn(s3, Bit(c, 16))
           x4 == ShiftIn(x3, Bit(Xor(b, c), 16))
           r5 == ShiftIn(r4, Bit(b, 8))
           s5 == ShiftIn(s4, Bit(c, 8))
           x5 == ShiftIn(x4, Bit(Xor(b, c), 8))
           r6 == ShiftIn(r5, Bit(b, 4))
           s6 == ShiftIn(s5, Bit(c, 4))
           x6 == ShiftIn(x5, Bit(Xor(b, c), 4))
           r7 == ShiftIn(r6, Bit(b, 2))
           s7 == ShiftIn(s6, Bit(c, 2))
           x7 == ShiftIn(x6, Bit(Xor(b, c), 2))
           r8 == ShiftIn(r7, Bit(b, 1))
           s8 == ShiftIn(s7, Bit(c, 1))
           x8 == ShiftIn(x7, Bit(Xor(b, c), 1))
<1>1. Divide(r, b) = r8 /\ Divide(s, c) = s8
      /\ Divide(Xor(r, s), Xor(b, c)) = x8
  BY DEF Divide
<1>w. 128 \in Weights /\ 64 \in Weights /\ 32 \in Weights /\ 16 \in Weights
      /\ 8 \in Weights /\ 4 \in Weights /\ 2 \in Weights /\ 1 \in Weights
  BY DEF Weights
<1>2. r0 \in Char /\ s0 \in Char /\ x0 = Xor(r0, s0)
  OBVIOUS
<1>3. r1 \in Char /\ s1 \in Char /\ x1 = Xor(r1, s1)
  <2> HIDE DEF r0, s0, x0
  <2> QED BY <1>w, <1>2, ShiftInBits
<1>4. r2 \in Char /\ s2 \in Char /\ x2 = Xor(r2, s2)
  <2> HIDE DEF r1, s1, x1
  <2> QED BY <1>w, <1>3, ShiftInBits
<1>5. r3 \in Char /\ s3 \in Char /\ x3 = Xor(r3, s3)
  <2> HIDE DEF r2, s2, x2
  <2> QED BY <1>w, <1>4, ShiftInBits
<1>6. r4 \in Char /\ s4 \in Char /\ x4 = Xor(r4, s4)
  <2> HIDE DEF r3, s3, x3
  <2> QED BY <1>w, <1>5, ShiftInBits
<1>7. r5 \in Char /\ s5 \in Char /\ x5 = Xor(r5, s5)
  <2> HIDE DEF r4, s4, x4
  <2> QED BY <1>w, <1>6, ShiftInBits
<1>8. r6 \in Char /\ s6 \in Char /\ x6 = Xor(r6, s6)
  <2> HIDE DEF r5, s5, x5
  <2> QED BY <1>w, <1>7, ShiftInBits
<1>9. r7 \in Char /\ s7 \in Char /\ x7 = Xor(r7, s7)
  <2> HIDE DEF r6, s6, x6
  <2> QED BY <1>w, <1>8, ShiftInBits
<1>10. r8 \in Char /\ s8 \in Char /\ x8 = Xor(r8, s8)
  <2> HIDE DEF r7, s7, x7
  <2> QED BY <1>w, <1>9, ShiftInBits
<1> HIDE DEF r8, s8, x8
<1> QED BY <1>1, <1>10

(* The register's own high byte, divided, leaves its low byte: the bits    *)
(* that leave the register are those that enter.                           *)
LEMMA ShiftOut ==
  ASSUME NEW r \in Char, NEW b \in 0 .. 1, Bit(r, 32768) = b
  PROVE  ShiftIn(r, b) = (r * 2) % 65536
<1>1. (b + b) % 2 = 0
  OBVIOUS
<1> QED BY <1>1 DEF ShiftIn

(* A byte equal to the register's high half cancels it: the low half is    *)
(* left, shifted up.                                                       *)
LEMMA DivideHigh ==
  ASSUME NEW s \in Char
  PROVE  s \div 256 \in Byte /\ Divide(s, s \div 256) = (s % 256) * 256
<1> DEFINE h == s \div 256
           d0 == s
           d1 == (d0 * 2) % 65536
           d2 == (d1 * 2) % 65536
           d3 == (d2 * 2) % 65536
           d4 == (d3 * 2) % 65536
           d5 == (d4 * 2) % 65536
           d6 == (d5 * 2) % 65536
           d7 == (d6 * 2) % 65536
           d8 == (d7 * 2) % 65536
<1>1. s \in Nat /\ s <= 65535
  BY CharBounds
<1>2. h \in Byte
  BY <1>1 DEF Byte
<1>3. /\ d0 = (s * 1) % 65536 /\ d0 \in Char
      /\ ShiftIn(d0, Bit(h, 128)) = d1
  <2>1. d0 = (s * 1) % 65536
    BY <1>1
  <2>2. d0 \in Char
    BY <1>1, <2>1, CharBounds
  <2>3. Bit(d0, 32768) = Bit(h, 128) /\ Bit(h, 128) \in 0 .. 1
    BY ONLY <1>1, <2>1, SMTT(30) DEF Bit, h
  <2> HIDE DEF d0
  <2> QED BY <2>1, <2>2, <2>3, ShiftOut
<1>4. /\ d1 = (s * 2) % 65536 /\ d1 \in Char
      /\ ShiftIn(d1, Bit(h, 64)) = d2
  <2>1. d1 = (s * 2) % 65536
    <3> HIDE DEF d0
    <3> QED BY <1>1, <1>3
  <2>2. d1 \in Char
    BY <1>1, <2>1, CharBounds
  <2>3. Bit(d1, 32768) = Bit(h, 64) /\ Bit(h, 64) \in 0 .. 1
    BY ONLY <1>1, <2>1, SMTT(30) DEF Bit, h
  <2> HIDE DEF d1
  <2> QED BY <2>1, <2>2, <2>3, ShiftOut
<1>5. /\ d2 = (s * 4) % 65536 /\ d2 \in Char
      /\ ShiftIn(d2, Bit(h, 32)) = d3
  <2>1. d2 = (s * 4) % 65536
    <3> HIDE DEF d1
    <3> QED BY <1>1, <1>4
  <2>2. d2 \in Char
    BY <1>1, <2>1, CharBounds
  <2>3. Bit(d2, 32768) = Bit(h, 32) /\ Bit(h, 32) \in 0 .. 1
    BY ONLY <1>1, <2>1, SMTT(30) DEF Bit, h
  <2> HIDE DEF d2
  <2> QED BY <2>1, <2>2, <2>3, ShiftOut
<1>6. /\ d3 = (s * 8) % 65536 /\ d3 \in Char
      /\ ShiftIn(d3, Bit(h, 16)) = d4
  <2>1. d3 = (s * 8) % 65536
    <3> HIDE DEF d2
    <3> QED BY <1>1, <1>5
  <2>2. d3 \in Char
    BY <1>1, <2>1, CharBounds
  <2>3. Bit(d3, 32768) = Bit(h, 16) /\ Bit(h, 16) \in 0 .. 1
    BY ONLY <1>1, <2>1, SMTT(30) DEF Bit, h
  <2> HIDE DEF d3
  <2> QED BY <2>1, <2>2, <2>3, ShiftOut
<1>7. /\ d4 = (s * 16) % 65536 /\ d4 \in Char
      /\ ShiftIn(d4, Bit(h, 8)) = d5
  <2>1. d4 = (s * 16) % 65536
    <3> HIDE DEF d3
    <3> QED BY <1>1, <1>6
  <2>2. d4 \in Char
    BY <1>1, <2>1, CharBounds
  <2>3. Bit(d4, 32768) = Bit(h, 8) /\ Bit(h, 8) \in 0 .. 1
    BY ONLY <1>1, <2>1, SMTT(30) DEF Bit, h
  <2> HIDE DEF d4
  <2> QED BY <2>1, <2>2, <2>3, ShiftOut
<1>8. /\ d5 = (s * 32) % 65536 /\ d5 \in Char
      /\ ShiftIn(d5, Bit(h, 4)) = d6
  <2>1. d5 = (s * 32) % 65536
    <3> HIDE DEF d4
    <3> QED BY <1>1, <1>7
  <2>2. d5 \in Char
    BY <1>1, <2>1, CharBounds
  <2>3. Bit(d5, 32768) = Bit(h, 4) /\ Bit(h, 4) \in 0 .. 1
    BY ONLY <1>1, <2>1, SMTT(30) DEF Bit, h
  <2> HIDE DEF d5
  <2> QED BY <2>1, <2>2, <2>3, ShiftOut
<1>9. /\ d6 = (s * 64) % 65536 /\ d6 \in Char
      /\ ShiftIn(d6, Bit(h, 2)) = d7
  <2>1. d6 = (s * 64) % 65536
    <3> HIDE DEF d5
    <3> QED BY <1>1, <1>8
  <2>2. d6 \in Char
    BY <1>1, <2>1, CharBounds
  <2>3. Bit(d6, 32768) = Bit(h, 2) /\ Bit(h, 2) \in 0 .. 1
    BY ONLY <1>1, <2>1, SMTT(30) DEF Bit, h
  <2> HIDE DEF d6
  <2> QED BY <2>1, <2>2, <2>3, ShiftOut
<1>10. /\ d7 = (s * 128) % 65536 /\ d7 \in Char
      /\ ShiftIn(d7, Bit(h, 1)) = d8
  <2>1. d7 = (s * 128) % 65536
    <3> HIDE DEF d6
    <3> QED BY <1>1, <1>9
  <2>2. d7 \in Char
    BY <1>1, <2>1, CharBounds
  <2>3. Bit(d7, 32768) = Bit(h, 1) /\ Bit(h, 1) \in 0 .. 1
    BY ONLY <1>1, <2>1, SMTT(30) DEF Bit, h
  <2> HIDE DEF d7
  <2> QED BY <2>1, <2>2, <2>3, ShiftOut
<1>11. d8 = (s * 256) % 65536
  <2> HIDE DEF d7
  <2> QED BY <1>1, <1>10
<1>12. Divide(s, h) = d8
  <2> HIDE DEF h, d1, d2, d3, d4, d5, d6, d7, d8
  <2> QED BY <1>3, <1>4, <1>5, <1>6, <1>7, <1>8, <1>9, <1>10 DEF Divide
<1>13. (s * 256) % 65536 = (s % 256) * 256
  BY <1>1
<1> QED BY <1>2, <1>11, <1>12, <1>13

(* So a turn of the loop over the table divides the next byte: the         *)
(* register is split into what the byte cancels and the rest, 0 and itself.*)
LEMMA CksumIsDivide ==
  ASSUME NEW s \in Char, NEW b \in Byte
  PROVE  Cksum(s, b) = Divide(s, b) /\ Divide(s, b) \in Char
<1> DEFINE h == s \div 256
           x == Xor(h, b)
<1>1. h \in Byte /\ Divide(s, h) = (s % 256) * 256
  BY DivideHigh
<1>2. h \in Char /\ b \in Char /\ 0 \in Char
  BY <1>1, ByteIsChar, CharBounds
<1> HIDE DEF h
<1>3. x \in Byte /\ x \in Char
  BY <1>1, XorByte, ByteIsChar
<1>4. Xor(x, h) = b
  <2>1. Xor(h, b) = Xor(b, h)
    BY <1>2, XorCommutes
  <2>2. Xor(Xor(b, h), h) = Xor(b, Xor(h, h))
    BY <1>2, XorAssociates
  <2>3. Xor(h, h) = 0 /\ Xor(b, 0) = Xor(0, b) /\ Xor(0, b) = b
    BY <1>2, XorCancels, XorCommutes
  <2> QED BY ONLY <2>1, <2>2, <2>3 DEF x
<1>5. crc_table[x + 1] = Divide(0, x)
  BY <1>3, TableAssumption
<1> HIDE DEF x
<1>6. Divide(Xor(0, s), Xor(x, h)) = Xor(Divide(0, x), Divide(s, h))
  BY <1>1, <1>2, <1>3, DivideXor
<1>7. Xor(0, s) = s
  BY XorCancels
<1>8. (s * 256) % 65536 = (s % 256) * 256
  BY CharBounds
<1>9. Cksum(s, b) = Xor(crc_table[x + 1], (s * 256) % 65536)
  BY DEF Cksum, x, h
<1>10. Divide(s, b) \in Char
  BY <1>2, DivideXor
<1> QED BY ONLY <1>1, <1>4, <1>5, <1>6, <1>7, <1>8, <1>9, <1>10

-----------------------------------------------------------------------------
(* The remainder of a list of bytes is computed by its equations.          *)
Divided(bytes, k, rem) == [r \in Char |-> Divide(r, bytes[k])][rem]

IsRem(bytes, m, g) ==
  g = [k \in 0 .. m |-> IF k = 0 THEN 0 ELSE Divided(bytes, k, g[k - 1])]

(* A function satisfies the equations of the remainder up to each length.  *)
LEMMA RemSolvable ==
  ASSUME NEW bytes, NEW m \in Nat
  PROVE  \E g : IsRem(bytes, m, g)
<1> DEFINE Good == {n \in Nat : \E g : IsRem(bytes, n, g)}
<1>1. 0 \in Good
  <2> DEFINE g == [k \in 0 .. 0 |-> 0]
  <2>1. g = [k \in 0 .. 0 |-> IF k = 0 THEN 0 ELSE Divided(bytes, k, g[k - 1])]
    OBVIOUS
  <2> HIDE DEF g
  <2> QED BY <2>1 DEF IsRem
<1>2. ASSUME NEW n \in Nat, n \in Good
      PROVE  n + 1 \in Good
  <2>1. PICK g : IsRem(bytes, n, g)
    BY <1>2
  <2> DEFINE c == n + 1
             last == Divided(bytes, c, g[n])
             h == [k \in 0 .. c |-> IF k = c THEN last ELSE g[k]]
  <2>2. c \in Nat /\ c # 0 /\ c - 1 = n /\ n \in 0 .. n /\ n # c
    OBVIOUS
  <2>3. \A k \in 0 .. n : k \in 0 .. c /\ h[k] = g[k]
    OBVIOUS
  <2>4. \A k \in 0 .. c :
          h[k] = IF k = 0 THEN 0 ELSE Divided(bytes, k, h[k - 1])
    <3> SUFFICES ASSUME NEW k \in 0 .. c
                 PROVE  h[k] = IF k = 0 THEN 0 ELSE Divided(bytes, k, h[k - 1])
      OBVIOUS
    <3>1. CASE k = c
      <4>1. h[c] = last
        OBVIOUS
      <4>2. h[n] = g[n]
        <5> HIDE DEF h, c
        <5> QED BY <2>2, <2>3
      <4> HIDE DEF h, c
      <4> QED BY <2>2, <3>1, <4>1, <4>2
    <3>2. CASE k # c
      <4>1. k \in 0 .. n /\ (k # 0 => k - 1 \in 0 .. n)
        BY <3>2
      <4>2. g[k] = IF k = 0 THEN 0 ELSE Divided(bytes, k, g[k - 1])
        BY <2>1, <4>1 DEF IsRem
      <4>3. h[k] = g[k] /\ (k # 0 => h[k - 1] = g[k - 1])
        <5> HIDE DEF h, c
        <5> QED BY <2>3, <4>1
      <4> HIDE DEF h, c
      <4> QED BY <4>2, <4>3
    <3> QED BY <3>1, <3>2
  <2>5. IsRem(bytes, c, h)
    <3>1. h = [k \in 0 .. c |-> h[k]]
      OBVIOUS
    <3> HIDE DEF h, c
    <3> QED BY <2>4, <3>1 DEF IsRem
  <2> HIDE DEF h
  <2> QED BY <2>2, <2>5
<1> HIDE DEF Good
<1>3. \A n \in 0 .. m : n \in Good
  <2>1. Good \in SUBSET Nat
    BY DEF Good
  <2> QED BY <1>1, <1>2, <2>1, Upwards
<1>4. m \in Good
  BY <1>3
<1> QED BY <1>4 DEF Good

(* RemainderTo therefore satisfies them, one byte after the other.         *)
LEMMA RemainderEquations ==
  ASSUME NEW bytes \in Seq(Byte)
  PROVE  /\ RemainderTo(bytes, 0) = 0
         /\ \A n \in Nat : n < Len(bytes) /\ RemainderTo(bytes, n) \in Char =>
              RemainderTo(bytes, n + 1)
                = Divide(RemainderTo(bytes, n), bytes[n + 1])
<1> DEFINE rem == CHOOSE g : IsRem(bytes, Len(bytes), g)
<1>1. Len(bytes) \in Nat
  OBVIOUS
<1>2. IsRem(bytes, Len(bytes), rem)
  <2>1. \E g : IsRem(bytes, Len(bytes), g)
    BY <1>1, RemSolvable
  <2> QED BY <2>1
<1>3. \A n : RemainderTo(bytes, n) = rem[n]
  BY DEF RemainderTo, IsRem, Divided
<1> HIDE DEF rem
<1>4. rem[0] = 0
  BY <1>1, <1>2 DEF IsRem
<1>5. ASSUME NEW n \in Nat, n < Len(bytes), rem[n] \in Char
      PROVE  rem[n + 1] = Divide(rem[n], bytes[n + 1])
  <2> DEFINE k == n + 1
  <2>1. k \in 0 .. Len(bytes) /\ k # 0 /\ k - 1 = n
    BY <1>1, <1>5
  <2> HIDE DEF k
  <2>2. rem[k] = Divided(bytes, k, rem[n])
    BY <1>2, <2>1 DEF IsRem
  <2>3. Divided(bytes, k, rem[n]) = Divide(rem[n], bytes[k])
    BY <1>5 DEF Divided
  <2> QED BY <2>2, <2>3 DEF k
<1> QED BY <1>3, <1>4, <1>5

(* A turn more of the loop and the remainder of a byte more.               *)
LEMMA RemainderStep ==
  ASSUME NEW bytes \in Seq(Byte), NEW n \in Nat, n < Len(bytes),
         RemainderTo(bytes, n) \in Char
  PROVE  /\ RemainderTo(bytes, n + 1)
              = Cksum(RemainderTo(bytes, n), bytes[n + 1])
         /\ RemainderTo(bytes, n + 1) \in Char
<1> DEFINE r == RemainderTo(bytes, n)
           b == bytes[n + 1]
<1>1. b \in Byte
  OBVIOUS
<1>2. RemainderTo(bytes, n + 1) = Divide(r, b)
  BY RemainderEquations
<1> HIDE DEF b, r
<1>3. r \in Char
  BY DEF r
<1>4. Cksum(r, b) = Divide(r, b) /\ Divide(r, b) \in Char
  BY <1>1, <1>3, CksumIsDivide
<1> QED BY <1>2, <1>4 DEF r, b

-----------------------------------------------------------------------------
(* Two lists of bytes, one behind the other.                               *)
LEMMA Behind ==
  ASSUME NEW s \in Seq(Byte), NEW t \in Seq(Byte)
  PROVE  /\ s \o t \in Seq(Byte) /\ Len(s \o t) = Len(s) + Len(t)
         /\ \A i \in 1 .. Len(s) : (s \o t)[i] = s[i]
         /\ \A i \in 1 .. Len(t) : (s \o t)[Len(s) + i] = t[i]
<1>1. s \o t \in Seq(Byte)
  BY ConcatProperties
<1>2. /\ Len(s \o t) = Len(s) + Len(t)
      /\ \A i \in 1 .. Len(s) + Len(t) :
           (s \o t)[i] = IF i <= Len(s) THEN s[i] ELSE t[i - Len(s)]
  BY ConcatProperties
<1>3. Len(s) \in Nat /\ Len(t) \in Nat
  OBVIOUS
<1>4. ASSUME NEW i \in 1 .. Len(s)
      PROVE  (s \o t)[i] = s[i]
  BY <1>2, <1>3
<1>5. ASSUME NEW i \in 1 .. Len(t)
      PROVE  (s \o t)[Len(s) + i] = t[i]
  <2>1. Len(s) + i \in 1 .. Len(s) + Len(t) /\ ~(Len(s) + i <= Len(s))
        /\ (Len(s) + i) - Len(s) = i
    BY <1>3
  <2> QED BY <1>2, <2>1
<1> QED BY <1>1, <1>2, <1>4, <1>5

(* The two halves of such a list.                                          *)
LEMMA HalvesOf ==
  ASSUME NEW s \in Seq(Byte), NEW t \in Seq(Byte)
  PROVE  /\ SubSeq(s \o t, 1, Len(s)) = s
         /\ SubSeq(s \o t, Len(s) + 1, Len(s) + Len(t)) = t
<1> DEFINE u == s \o t
           m == Len(s)
           n == Len(t)
<1>1. /\ u \in Seq(Byte) /\ Len(u) = m + n /\ m \in Nat /\ n \in Nat
      /\ \A i \in 1 .. m : u[i] = s[i]
      /\ \A i \in 1 .. n : u[m + i] = t[i]
  BY Behind
<1>2. s = [i \in 1 .. m |-> s[i]] /\ t = [i \in 1 .. n |-> t[i]]
  OBVIOUS
<1> HIDE DEF u, m, n
<1>3. SubSeq(u, 1, m) = [i \in 1 .. m |-> u[i]]
  BY <1>1
<1>4. SubSeq(u, m + 1, m + n) = [i \in 1 .. n |-> u[m + i]]
  BY <1>1
<1> QED BY <1>1, <1>2, <1>3, <1>4 DEF u, m, n

(* Numbers in memory, and what is read from there.                         *)
LEMMA HostBytes ==
  ASSUME NEW v \in Nat
  PROVE  /\ Host16(v) \in Seq(Byte) /\ Len(Host16(v)) = 2
         /\ Host32(v) \in Seq(Byte) /\ Len(Host32(v)) = 4
<1>1. /\ ByteAt(v, 1) \in Byte /\ ByteAt(v, 256) \in Byte
      /\ ByteAt(v, 65536) \in Byte /\ ByteAt(v, 16777216) \in Byte
  BY DEF ByteAt, Byte
<1> QED BY <1>1 DEF Host16, Host32

(* As many zeros as asked for.                                             *)
LEMMA ZerosType ==
  ASSUME NEW n \in Nat
  PROVE  Zeros(n) \in Seq(Byte) /\ Len(Zeros(n)) = n
BY DEF Zeros, Byte

(* Two bytes in the host's order are read as the number they hold,         *)
LEMMA Reads16 ==
  ASSUME NEW v \in Nat, v < 65536
  PROVE  ByteAt(v, 1) + 256 * ByteAt(v, 256) = v
BY DEF ByteAt

(* The halves of a number of 32 bits are of 16.                            *)
LEMMA WordBounds ==
  ASSUME NEW v \in Word32
  PROVE  v \in Nat /\ v \div 65536 \in Char
BY DEF Word32

(* and so are four.                                                        *)
LEMMA Reads32 ==
  ASSUME NEW v \in Word32
  PROVE  (ByteAt(v, 1) + 256 * ByteAt(v, 256))
           + 65536 * (ByteAt(v, 65536) + 256 * ByteAt(v, 16777216)) = v
<1>1. v \in Nat /\ v \div 65536 \in Nat /\ v \div 65536 <= 65535
  BY WordBounds, CharBounds
<1>2. v \div 16777216 = (v \div 65536) \div 256
  BY <1>1
<1>3. v = (v % 65536) + 65536 * (v \div 65536)
  BY <1>1
<1>4. ByteAt(v, 65536) + 256 * ByteAt(v, 16777216) = v \div 65536
  BY <1>1, <1>2 DEF ByteAt
<1>5. ByteAt(v, 1) + 256 * ByteAt(v, 256) = v % 65536
  BY <1>1 DEF ByteAt
<1> QED BY <1>3, <1>4, <1>5

-----------------------------------------------------------------------------
(* What the descriptor holds, from its entry alone: the name with the zero *)
(* behind an odd one, the descriptor before its tag is written, and the    *)
(* part of it that the CRC covers.                                         *)
Padded == name \o (IF Len(name) % 2 = 0 THEN <<>> ELSE <<0>>)
Described == Zeros(TagSize) \o FixedBytes \o HostChars(Padded)
Covered == SubSeq(Described, TagSize + 1, StructSize)

(* The tag with the CRC and the sum it has got.                            *)
TagOf(sum, c) ==
  [tag_checksum |-> sum, desc_crc |-> c,
   desc_crc_len |-> StructSize - TagSize, tag_location |-> cur_spec_lba]

(* The entry, and the characters passed to the loops.                      *)
EntryInv ==
  name \in Names /\ directory \in BOOLEAN
  /\ lba \in Locations /\ cur_spec_lba \in Locations

(* The loop over the name has copied what it passed; the loop over the     *)
(* table has the remainder of what it passed; the tag is filled from it,   *)
(* and then replaces the head of the descriptor.                           *)
NameInv ==
  /\ step \in {"uncompress", "cksum", "tag", "done"}
  /\ step = "uncompress" =>
       /\ at \in 1 .. Len(UdfComp)
       /\ f_name_buf \in Seq(Byte) /\ Len(f_name_buf) = at - 1
       /\ \A i \in 1 .. at - 1 : f_name_buf[i] = Padded[i]
       /\ crc = 0
  /\ step # "uncompress" => f_name_buf = Padded

CrcInv ==
  /\ step \in {"cksum", "tag"} => str_buf = Described
  /\ step = "cksum" =>
       /\ at \in TagSize .. StructSize
       /\ crc = RemainderTo(Covered, at - TagSize) /\ crc \in Char
  /\ step \in {"tag", "done"} =>
       at = StructSize /\ crc = Remainder(Covered) /\ crc \in Char

TagInv ==
  /\ step \in {"uncompress", "cksum"} => tag = TagOf(0, 0)
  /\ step \in {"tag", "done"} =>
       tag = TagOf(CksumTag(TagBytes(TagOf(0, crc))), crc)
  /\ step = "done" => str_buf = TagBytes(tag) \o Covered

IInv == EntryInv /\ NameInv /\ CrcInv /\ TagInv

(* What the assumption says of the entry described.                        *)
LEMMA EntryTyped ==
  ASSUME EntryInv
  PROVE  /\ name \in Seq(Byte) /\ Len(name) \in 1 .. 255
         /\ lba \in Word32 /\ cur_spec_lba \in Word32
         /\ lba \in Nat /\ cur_spec_lba \in Nat
<1>1. name \in Names /\ lba \in Locations /\ cur_spec_lba \in Locations
  BY DEF EntryInv
<1>2. name \in Seq(Byte) /\ Len(name) \in 1 .. 255
  BY <1>1, UtilAssumption
<1>3. lba \in Word32 /\ cur_spec_lba \in Word32
  BY <1>1, UtilAssumption
<1> QED BY <1>2, <1>3, WordBounds, SMTT(30)

(* The padded name is the compressed one behind its compression id, has    *)
(* the name in front and an even number of bytes.                          *)
LEMMA PaddedName ==
  ASSUME EntryInv
  PROVE  /\ name \in Seq(Byte) /\ Len(name) \in 1 .. 255
         /\ Padded \in Seq(Byte) /\ Len(Padded) = Len(name) + (Len(name) % 2)
         /\ \A i \in 1 .. Len(name) : Padded[i] = name[i]
         /\ Len(UdfComp) = Len(Padded) + 1
         /\ \A i \in 1 .. Len(Padded) : UdfComp[i + 1] = Padded[i]
<1> DEFINE pad == IF Len(name) % 2 = 0 THEN <<>> ELSE <<0>>
           id == <<8>>
           n == Len(name)
<1>1. name \in Seq(Byte) /\ n \in 1 .. 255
  BY EntryTyped
<1>2. pad \in Seq(Byte) /\ Len(pad) = n % 2
  <2>1. <<>> \in Seq(Byte) /\ <<0>> \in Seq(Byte)
        /\ Len(<<>>) = 0 /\ Len(<<0>>) = 1
    BY DEF Byte
  <2>2. n \in Nat
    BY <1>1
  <2> QED BY <2>1, <2>2, SMTT(30)
<1>3. id \in Seq(Byte) /\ Len(id) = 1
  BY DEF Byte
<1>4. Padded = name \o pad /\ UdfComp = (id \o name) \o pad
  BY DEF Padded, UdfComp
<1> HIDE DEF pad, id, n
<1>5. /\ Padded \in Seq(Byte) /\ Len(Padded) = n + (n % 2)
      /\ \A i \in 1 .. n : Padded[i] = name[i]
      /\ \A i \in 1 .. (n % 2) : Padded[n + i] = pad[i]
  <2>1. name \in Seq(Byte) /\ pad \in Seq(Byte)
    BY ONLY <1>1, <1>2
  <2>2. /\ Padded \in Seq(Byte) /\ Len(Padded) = n + Len(pad)
        /\ \A i \in 1 .. n : Padded[i] = name[i]
        /\ \A i \in 1 .. Len(pad) : Padded[n + i] = pad[i]
    BY ONLY <1>4, <2>1, Behind DEF n
  <2> QED BY ONLY <1>2, <2>2
<1>6. /\ id \o name \in Seq(Byte) /\ Len(id \o name) = 1 + n
      /\ \A i \in 1 .. n : (id \o name)[1 + i] = name[i]
  <2>1. id \in Seq(Byte) /\ name \in Seq(Byte)
    BY ONLY <1>1, <1>3
  <2>2. /\ id \o name \in Seq(Byte) /\ Len(id \o name) = Len(id) + n
        /\ \A i \in 1 .. n : (id \o name)[Len(id) + i] = name[i]
    BY ONLY <2>1, Behind DEF n
  <2> QED BY ONLY <1>3, <2>2
<1>7. /\ Len(UdfComp) = (1 + n) + (n % 2)
      /\ \A i \in 1 .. 1 + n : UdfComp[i] = (id \o name)[i]
      /\ \A i \in 1 .. (n % 2) : UdfComp[(1 + n) + i] = pad[i]
  <2> DEFINE front == id \o name
  <2>1. front \in Seq(Byte) /\ Len(front) = 1 + n
    BY <1>6
  <2>2. UdfComp = front \o pad
    BY <1>4
  <2> HIDE DEF front
  <2>3. /\ Len(UdfComp) = (1 + n) + (n % 2)
        /\ \A i \in 1 .. 1 + n : UdfComp[i] = front[i]
        /\ \A i \in 1 .. (n % 2) : UdfComp[(1 + n) + i] = pad[i]
    <3>1. front \in Seq(Byte) /\ pad \in Seq(Byte)
      BY ONLY <1>2, <2>1
    <3>2. /\ Len(UdfComp) = Len(front) + Len(pad)
          /\ \A i \in 1 .. Len(front) : UdfComp[i] = front[i]
          /\ \A i \in 1 .. Len(pad) : UdfComp[Len(front) + i] = pad[i]
      BY ONLY <2>2, <3>1, Behind
    <3> QED BY ONLY <1>2, <2>1, <3>2
  <2> QED BY <2>3 DEF front
<1>8. n \in Nat /\ n % 2 \in Nat /\ Len(Padded) = n + (n % 2)
  <2>1. n \in Nat
    BY ONLY <1>1
  <2>2. n % 2 \in Nat
    BY ONLY <2>1
  <2> QED BY ONLY <1>5, <2>1, <2>2
<1>9. ASSUME NEW i \in 1 .. Len(Padded)
      PROVE  UdfComp[i + 1] = Padded[i]
  <2> DEFINE k == n % 2
  <2>1. i \in Nat /\ 1 <= i /\ i <= n + k /\ n \in Nat /\ k \in Nat
    BY <1>8
  <2> HIDE DEF k
  <2>2. CASE i <= n
    <3>1. i \in 1 .. n /\ i + 1 \in 1 .. 1 + n /\ i + 1 = 1 + i
      BY ONLY <2>1, <2>2
    <3> QED BY ONLY <1>5, <1>6, <1>7, <3>1
  <2>3. CASE i > n
    <3> DEFINE j == i - n
    <3>1. j \in 1 .. k /\ i = n + j /\ i + 1 = (1 + n) + j
      BY ONLY <2>1, <2>3
    <3> HIDE DEF j
    <3> QED BY ONLY <1>5, <1>7, <3>1 DEF k
  <2> QED BY ONLY <2>1, <2>2, <2>3
<1>10. Len(UdfComp) = Len(Padded) + 1
  BY ONLY <1>7, <1>8
<1> QED BY <1>1, <1>5, <1>9, <1>10 DEF n

(* How long a padded name can be.                                          *)
LEMMA PaddedLen ==
  ASSUME EntryInv
  PROVE  /\ Padded \in Seq(Byte) /\ Len(Padded) \in Nat /\ Len(Padded) <= 256
         /\ Len(UdfComp) = Len(Padded) + 1
<1> DEFINE n == Len(name)
<1>1. Padded \in Seq(Byte) /\ Len(UdfComp) = Len(Padded) + 1
  BY PaddedName
<1>2. Len(Padded) = n + (n % 2)
  BY PaddedName, SMTT(30)
<1>3. n \in 1 .. 255
  BY EntryTyped, SMTT(30)
<1> HIDE DEF n
<1>4. Len(Padded) \in Nat /\ Len(Padded) <= 256
  BY ONLY <1>2, <1>3
<1> QED BY ONLY <1>1, <1>4

(* The characters in memory are the bytes with a zero behind each.         *)
LEMMA HostCharsOf ==
  ASSUME NEW chars \in Seq(Byte)
  PROVE  /\ HostChars(chars) \in Seq(Byte)
         /\ Len(HostChars(chars)) = 2 * Len(chars)
         /\ \A i \in 1 .. Len(chars) :
              HostChars(chars)[2 * i - 1] = chars[i]
              /\ HostChars(chars)[2 * i] = 0
<1> DEFINE at16(i) == IF i % 2 = 1 THEN chars[(i + 1) \div 2] % 256
                                   ELSE chars[i \div 2] \div 256
           n == Len(chars)
<1>1. n \in Nat /\ \A i \in 1 .. n : chars[i] \in 0 .. 255
  <2>1. \A i \in 1 .. n : chars[i] \in Byte
    OBVIOUS
  <2> QED BY <2>1 DEF Byte
<1>2. HostChars(chars) = [i \in 1 .. 2 * n |-> at16(i)]
  BY DEF HostChars
<1>3. ASSUME NEW i \in 1 .. 2 * n
      PROVE  at16(i) \in Byte
  <2>1. i % 2 = 1 => (i + 1) \div 2 \in 1 .. n
    BY <1>1
  <2>2. i % 2 # 1 => i \div 2 \in 1 .. n
    BY <1>1
  <2>3. \A c \in 0 .. 255 : c % 256 \in Byte /\ c \div 256 \in Byte
    BY DEF Byte
  <2>4. CASE i % 2 = 1
    <3>1. chars[(i + 1) \div 2] \in 0 .. 255
      BY ONLY <1>1, <2>1, <2>4
    <3> QED BY ONLY <2>3, <2>4, <3>1
  <2>5. CASE i % 2 # 1
    <3>1. chars[i \div 2] \in 0 .. 255
      BY ONLY <1>1, <2>2, <2>5
    <3> QED BY ONLY <2>3, <2>5, <3>1
  <2> QED BY ONLY <2>4, <2>5
<1>4. ASSUME NEW i \in 1 .. n
      PROVE  at16(2 * i - 1) = chars[i] /\ at16(2 * i) = 0
  <2>1. /\ (2 * i - 1) % 2 = 1 /\ ((2 * i - 1) + 1) \div 2 = i
        /\ (2 * i) % 2 = 0 /\ (2 * i) \div 2 = i
    BY <1>1
  <2>2. chars[i] % 256 = chars[i] /\ chars[i] \div 256 = 0
    <3> DEFINE c == chars[i]
    <3>1. c \in 0 .. 255
      BY <1>1
    <3> HIDE DEF c
    <3>2. c % 256 = c /\ c \div 256 = 0
      BY ONLY <3>1
    <3> QED BY <3>2 DEF c
  <2> QED BY <2>1, <2>2
<1>5. \A i \in 1 .. n : 2 * i - 1 \in 1 .. 2 * n /\ 2 * i \in 1 .. 2 * n
  BY <1>1
<1> HIDE DEF at16
<1>6. 2 * n \in Nat
  BY <1>1
<1> HIDE DEF n
<1>7. HostChars(chars) \in Seq(Byte) /\ Len(HostChars(chars)) = 2 * n
  BY <1>2, <1>3, <1>6
<1> QED BY <1>2, <1>4, <1>5, <1>7 DEF n

(* The fields between the tag and the name.                                *)
LEMMA FixedBytesAre ==
  ASSUME EntryInv
  PROVE  /\ FixedBytes \in Seq(Byte) /\ Len(FixedBytes) = 24
         /\ FixedBytes[4] = FileStrLen % 256
         /\ \A i \in 1 .. 4 : FixedBytes[8 + i] = Host32(lba)[i]
         /\ FixedBytes[23] = 16 /\ FixedBytes[24] = 0
<1> DEFINE a == <<1, 0, IF directory THEN 2 ELSE 0, FileStrLen % 256>>
           b == Host32(316)
           c == Host32(lba)
           d == Zeros(10)
           e == <<16, 0>>
<1>1. FileStrLen \in Nat
  <2> DEFINE n == Len(name)
  <2>1. n \in 1 .. 255
    BY EntryTyped
  <2>2. FileStrLen = n * 2 + 1
    BY DEF FileStrLen
  <2> HIDE DEF n
  <2> QED BY ONLY <2>1, <2>2
<1>2. /\ a \in Seq(Byte) /\ Len(a) = 4 /\ a[4] = FileStrLen % 256
      /\ b \in Seq(Byte) /\ Len(b) = 4 /\ c \in Seq(Byte) /\ Len(c) = 4
      /\ d \in Seq(Byte) /\ Len(d) = 10
      /\ e \in Seq(Byte) /\ Len(e) = 2 /\ e[1] = 16 /\ e[2] = 0
  <2>1. a \in Seq(Byte) /\ Len(a) = 4 /\ a[4] = FileStrLen % 256
    BY <1>1 DEF Byte
  <2>2. b \in Seq(Byte) /\ Len(b) = 4 /\ c \in Seq(Byte) /\ Len(c) = 4
    <3>1. lba \in Nat
      BY EntryTyped
    <3> QED BY <3>1, HostBytes
  <2>3. d \in Seq(Byte) /\ Len(d) = 10
    BY ZerosType
  <2>4. e \in Seq(Byte) /\ Len(e) = 2 /\ e[1] = 16 /\ e[2] = 0
    BY DEF Byte
  <2> QED BY <2>1, <2>2, <2>3, <2>4
<1> DEFINE p == a \o b
           q == p \o c
           r == q \o d
           f == r \o e
<1>3. FixedBytes = f
  BY DEF FixedBytes
<1> HIDE DEF a, b, c, d, e
<1>4. /\ p \in Seq(Byte) /\ Len(p) = 8
      /\ \A i \in 1 .. 4 : p[i] = a[i]
  <2>1. a \in Seq(Byte) /\ b \in Seq(Byte)
    BY ONLY <1>2
  <2>2. /\ p \in Seq(Byte) /\ Len(p) = Len(a) + Len(b)
        /\ \A i \in 1 .. Len(a) : p[i] = a[i]
        /\ \A i \in 1 .. Len(b) : p[Len(a) + i] = b[i]
    BY ONLY <2>1, Behind
  <2> HIDE DEF p
  <2> QED BY ONLY <1>2, <2>2
<1> HIDE DEF p
<1>5. /\ q \in Seq(Byte) /\ Len(q) = 12
      /\ \A i \in 1 .. 8 : q[i] = p[i]
      /\ \A i \in 1 .. 4 : q[8 + i] = c[i]
  <2>1. p \in Seq(Byte) /\ c \in Seq(Byte)
    BY ONLY <1>2, <1>4
  <2>2. /\ q \in Seq(Byte) /\ Len(q) = Len(p) + Len(c)
        /\ \A i \in 1 .. Len(p) : q[i] = p[i]
        /\ \A i \in 1 .. Len(c) : q[Len(p) + i] = c[i]
    BY ONLY <2>1, Behind
  <2> HIDE DEF q
  <2> QED BY ONLY <1>2, <1>4, <2>2
<1> HIDE DEF q
<1>6. /\ r \in Seq(Byte) /\ Len(r) = 22
      /\ \A i \in 1 .. 12 : r[i] = q[i]
  <2>1. q \in Seq(Byte) /\ d \in Seq(Byte)
    BY ONLY <1>2, <1>5
  <2>2. /\ r \in Seq(Byte) /\ Len(r) = Len(q) + Len(d)
        /\ \A i \in 1 .. Len(q) : r[i] = q[i]
        /\ \A i \in 1 .. Len(d) : r[Len(q) + i] = d[i]
    BY ONLY <2>1, Behind
  <2> HIDE DEF r
  <2> QED BY ONLY <1>2, <1>5, <2>2
<1> HIDE DEF r
<1>7. /\ f \in Seq(Byte) /\ Len(f) = 24
      /\ \A i \in 1 .. 22 : f[i] = r[i]
      /\ \A i \in 1 .. 2 : f[22 + i] = e[i]
  <2>1. r \in Seq(Byte) /\ e \in Seq(Byte)
    BY ONLY <1>2, <1>6
  <2>2. /\ f \in Seq(Byte) /\ Len(f) = Len(r) + Len(e)
        /\ \A i \in 1 .. Len(r) : f[i] = r[i]
        /\ \A i \in 1 .. Len(e) : f[Len(r) + i] = e[i]
    BY ONLY <2>1, Behind
  <2> HIDE DEF f
  <2> QED BY ONLY <1>2, <1>6, <2>2
<1> HIDE DEF f
<1>8. f[4] = FileStrLen % 256
  BY <1>2, <1>4, <1>5, <1>6, <1>7
<1>9. \A i \in 1 .. 4 : f[8 + i] = c[i]
  <2>1. \A i \in 1 .. 4 : 8 + i \in 1 .. 12 /\ 8 + i \in 1 .. 22
    OBVIOUS
  <2>2. \A i \in 1 .. 4 : f[8 + i] = r[8 + i]
    BY ONLY <1>7, <2>1
  <2>3. \A i \in 1 .. 4 : r[8 + i] = q[8 + i]
    BY ONLY <1>6, <2>1
  <2>4. \A i \in 1 .. 4 : q[8 + i] = c[i]
    BY ONLY <1>5
  <2> QED BY ONLY <2>2, <2>3, <2>4
<1>10. f[23] = 16 /\ f[24] = 0
  BY <1>2, <1>7
<1> QED BY <1>3, <1>7, <1>8, <1>9, <1>10 DEF c

(* The descriptor has the size computed for it, and the CRC covers all of  *)
(* it behind the tag: the fields, then the characters of the name.         *)
LEMMA DescribedIs ==
  ASSUME EntryInv
  PROVE  /\ StructSize = 40 + 2 * Len(Padded) /\ StructSize \in Nat
         /\ Described \in Seq(Byte) /\ Len(Described) = StructSize
         /\ Covered \in Seq(Byte) /\ Len(Covered) = StructSize - TagSize
         /\ \A i \in 1 .. StructSize - TagSize :
              Described[TagSize + i] = Covered[i]
         /\ \A i \in 1 .. 24 : Covered[i] = FixedBytes[i]
         /\ \A i \in 1 .. 2 * Len(Padded) :
              Covered[24 + i] = HostChars(Padded)[i]
<1> DEFINE z == Zeros(TagSize)
           f == FixedBytes
           h == HostChars(Padded)
           p == z \o f
           d == p \o h
           n == Len(Padded)
<1>1. z \in Seq(Byte) /\ Len(z) = 16 /\ f \in Seq(Byte) /\ Len(f) = 24
  <2>1. TagSize = 16
    BY DEF TagSize
  <2> QED BY <2>1, ZerosType, FixedBytesAre
<1>2. h \in Seq(Byte) /\ Len(h) = 2 * n /\ n \in Nat
  BY PaddedLen, HostCharsOf
<1>3. StructSize = 40 + 2 * n
  <2> DEFINE l == Len(name)
             m == l % 2
  <2>1. l \in Nat /\ m \in Nat /\ n = l + m
    <3>1. l \in 1 .. 255 /\ n = l + m
      BY PaddedName
    <3> HIDE DEF l
    <3>2. l \in Nat
      BY ONLY <3>1
    <3>3. l % 2 \in Nat
      BY ONLY <3>2
    <3> QED BY ONLY <3>1, <3>2, <3>3
  <2>2. StructSize = 40 - 1 + (l * 2 + 1) + m * 2
    BY DEF StructSize, IdentifierSize, FileStrLen
  <2> HIDE DEF l, m, n
  <2> QED BY ONLY <2>1, <2>2
<1>4. Described = d
  BY DEF Described
<1> HIDE DEF z, f, h, n
<1>5. /\ p \in Seq(Byte) /\ Len(p) = 40
      /\ \A i \in 1 .. 24 : p[16 + i] = f[i]
  <2>1. z \in Seq(Byte) /\ f \in Seq(Byte)
    BY ONLY <1>1
  <2>2. /\ p \in Seq(Byte) /\ Len(p) = Len(z) + Len(f)
        /\ \A i \in 1 .. Len(f) : p[Len(z) + i] = f[i]
    BY ONLY <2>1, Behind
  <2> HIDE DEF p
  <2> QED BY ONLY <1>1, <2>2
<1> HIDE DEF p
<1>6. /\ d \in Seq(Byte) /\ Len(d) = 40 + 2 * n
      /\ \A i \in 1 .. 40 : d[i] = p[i]
      /\ \A i \in 1 .. 2 * n : d[40 + i] = h[i]
  <2>1. p \in Seq(Byte) /\ h \in Seq(Byte)
    BY ONLY <1>2, <1>5
  <2>2. /\ d \in Seq(Byte) /\ Len(d) = Len(p) + Len(h)
        /\ \A i \in 1 .. Len(p) : d[i] = p[i]
        /\ \A i \in 1 .. Len(h) : d[Len(p) + i] = h[i]
    BY ONLY <2>1, Behind
  <2> HIDE DEF d
  <2> QED BY ONLY <1>2, <1>5, <2>2
<1> HIDE DEF d
<1> DEFINE c == SubSeq(d, 17, 40 + 2 * n)
<1>7. Covered = c
  <2>1. TagSize + 1 = 17
    BY DEF TagSize
  <2> QED BY <1>3, <1>4, <2>1 DEF Covered
<1>8. /\ c \in Seq(Byte) /\ Len(c) = 24 + 2 * n
      /\ \A i \in 1 .. 24 + 2 * n : c[i] = d[16 + i]
  <2> DEFINE e == 40 + 2 * n
             m == 24 + 2 * n
  <2>1. e \in Nat /\ m \in Nat /\ e = m + 16 /\ Len(d) = e
    BY <1>2, <1>6
  <2>2. c = SubSeq(d, 17, e)
    OBVIOUS
  <2> HIDE DEF c, e
  <2>3. c = [i \in 1 .. m |-> d[16 + i]]
    BY ONLY <2>1, <2>2
  <2>4. \A i \in 1 .. m : d[16 + i] \in Byte
    <3>1. \A i \in 1 .. m : 16 + i \in 1 .. e
      BY <2>1
    <3>2. \A i \in 1 .. e : d[i] \in Byte
      <4>1. d \in Seq(Byte)
        BY <1>6
      <4> QED BY ONLY <2>1, <4>1
    <3> QED BY ONLY <3>1, <3>2
  <2> HIDE DEF m
  <2>5. c \in Seq(Byte) /\ Len(c) = m /\ \A i \in 1 .. m : c[i] = d[16 + i]
    BY ONLY <2>1, <2>3, <2>4
  <2> QED BY <2>5 DEF m
<1> HIDE DEF c
<1>9. ASSUME NEW i \in 1 .. 24
      PROVE  c[i] = f[i]
  <2>1. i \in 1 .. 24 + 2 * n /\ 16 + i \in 1 .. 40
    BY <1>2
  <2>2. c[i] = d[16 + i]
    BY ONLY <1>8, <2>1
  <2>3. d[16 + i] = p[16 + i]
    BY ONLY <1>6, <2>1
  <2>4. p[16 + i] = f[i]
    BY ONLY <1>5
  <2> QED BY ONLY <2>2, <2>3, <2>4
<1>10. ASSUME NEW i \in 1 .. 2 * n
       PROVE  c[24 + i] = h[i]
  <2>1. 24 + i \in 1 .. 24 + 2 * n /\ 16 + (24 + i) = 40 + i
    BY <1>2
  <2>2. c[24 + i] = d[16 + (24 + i)]
    BY ONLY <1>8, <2>1
  <2>3. d[40 + i] = h[i]
    BY ONLY <1>6
  <2> QED BY ONLY <2>1, <2>2, <2>3
<1>11. StructSize - TagSize = 24 + 2 * n
  BY <1>2, <1>3 DEF TagSize
<1>12. \A i \in 1 .. 24 + 2 * n : d[TagSize + i] = c[i]
  <2>1. TagSize = 16
    BY DEF TagSize
  <2> QED BY <1>8, <2>1
<1>13. StructSize \in Nat
  BY <1>2, <1>3
<1> QED BY <1>3, <1>4, <1>6, <1>7, <1>8, <1>9, <1>10, <1>11, <1>12, <1>13
      DEF f, h, n

(* The tag in memory, byte by byte.                                        *)
LEMMA TagBytesAre ==
  ASSUME NEW t, t.tag_checksum \in Byte, t.desc_crc \in Nat,
         t.desc_crc_len \in Nat, t.tag_location \in Nat
  PROVE  /\ TagBytes(t) \in Seq(Byte) /\ Len(TagBytes(t)) = TagSize
         /\ \A i \in 1 .. 8 :
              TagBytes(t)[i] = <<1, 1, 2, 0, t.tag_checksum, 0, 0, 0>>[i]
         /\ \A i \in 1 .. 2 : TagBytes(t)[8 + i] = Host16(t.desc_crc)[i]
         /\ \A i \in 1 .. 2 : TagBytes(t)[10 + i] = Host16(t.desc_crc_len)[i]
         /\ \A i \in 1 .. 4 : TagBytes(t)[12 + i] = Host32(t.tag_location)[i]
<1> DEFINE a == <<1, 1, 2, 0, t.tag_checksum, 0, 0, 0>>
           b == Host16(t.desc_crc)
           c == Host16(t.desc_crc_len)
           d == Host32(t.tag_location)
           p == a \o b
           q == p \o c
           r == q \o d
<1>1. a \in Seq(Byte) /\ Len(a) = 8
  BY DEF Byte
<1>2. b \in Seq(Byte) /\ Len(b) = 2 /\ c \in Seq(Byte) /\ Len(c) = 2
      /\ d \in Seq(Byte) /\ Len(d) = 4
  BY HostBytes
<1>3. TagBytes(t) = r
  BY DEF TagBytes
<1> HIDE DEF a, b, c, d
<1>4. /\ p \in Seq(Byte) /\ Len(p) = 10
      /\ \A i \in 1 .. 8 : p[i] = a[i]
      /\ \A i \in 1 .. 2 : p[8 + i] = b[i]
  <2>1. a \in Seq(Byte) /\ b \in Seq(Byte)
    BY ONLY <1>1, <1>2
  <2>2. /\ p \in Seq(Byte) /\ Len(p) = Len(a) + Len(b)
        /\ \A i \in 1 .. Len(a) : p[i] = a[i]
        /\ \A i \in 1 .. Len(b) : p[Len(a) + i] = b[i]
    BY ONLY <2>1, Behind
  <2> HIDE DEF p
  <2> QED BY ONLY <1>1, <1>2, <2>2
<1> HIDE DEF p
<1>5. /\ q \in Seq(Byte) /\ Len(q) = 12
      /\ \A i \in 1 .. 10 : q[i] = p[i]
      /\ \A i \in 1 .. 2 : q[10 + i] = c[i]
  <2>1. p \in Seq(Byte) /\ c \in Seq(Byte)
    BY ONLY <1>2, <1>4
  <2>2. /\ q \in Seq(Byte) /\ Len(q) = Len(p) + Len(c)
        /\ \A i \in 1 .. Len(p) : q[i] = p[i]
        /\ \A i \in 1 .. Len(c) : q[Len(p) + i] = c[i]
    BY ONLY <2>1, Behind
  <2> HIDE DEF q
  <2> QED BY ONLY <1>2, <1>4, <2>2
<1> HIDE DEF q
<1>6. /\ r \in Seq(Byte) /\ Len(r) = 16
      /\ \A i \in 1 .. 12 : r[i] = q[i]
      /\ \A i \in 1 .. 4 : r[12 + i] = d[i]
  <2>1. q \in Seq(Byte) /\ d \in Seq(Byte)
    BY ONLY <1>2, <1>5
  <2>2. /\ r \in Seq(Byte) /\ Len(r) = Len(q) + Len(d)
        /\ \A i \in 1 .. Len(q) : r[i] = q[i]
        /\ \A i \in 1 .. Len(d) : r[Len(q) + i] = d[i]
    BY ONLY <2>1, Behind
  <2> HIDE DEF r
  <2> QED BY ONLY <1>2, <1>5, <2>2
<1> HIDE DEF r
<1>7. \A i \in 1 .. 8 : r[i] = a[i]
  <2>1. \A i \in 1 .. 8 : i \in 1 .. 10 /\ i \in 1 .. 12
    OBVIOUS
  <2> QED BY ONLY <1>4, <1>5, <1>6, <2>1
<1>8. \A i \in 1 .. 2 : r[8 + i] = b[i]
  <2>1. \A i \in 1 .. 2 : 8 + i \in 1 .. 10 /\ 8 + i \in 1 .. 12
    OBVIOUS
  <2>2. \A i \in 1 .. 2 : r[8 + i] = q[8 + i]
    BY ONLY <1>6, <2>1
  <2>3. \A i \in 1 .. 2 : q[8 + i] = p[8 + i]
    BY ONLY <1>5, <2>1
  <2> QED BY ONLY <1>4, <2>2, <2>3
<1>9. \A i \in 1 .. 2 : r[10 + i] = c[i]
  <2>1. \A i \in 1 .. 2 : 10 + i \in 1 .. 12
    OBVIOUS
  <2> QED BY ONLY <1>5, <1>6, <2>1
<1>10. Len(r) = TagSize
  BY <1>6 DEF TagSize
<1> QED BY <1>3, <1>6, <1>7, <1>8, <1>9, <1>10 DEF a, b, c, d

(* Two tags that differ in the sum alone differ in byte 5 alone, so they   *)
(* have the same sum, which makes that byte what a reader expects.         *)
LEMMA SumOfTag ==
  ASSUME NEW t, t.tag_checksum \in Byte, t.desc_crc \in Nat,
         t.desc_crc_len \in Nat, t.tag_location \in Nat
  PROVE  /\ CksumTag(TagBytes(t)) \in Byte
         /\ SumFunction(TagBytes(t)) \in Int
         /\ (SumFunction(TagBytes(t)) - t.tag_checksum) % 256
              = CksumTag(TagBytes(t))
<1> DEFINE b == TagBytes(t)
           S == 1 .. 16
           rest == [i \in S \ {5} |-> b[i]]
<1>1. b \in Seq(Byte) /\ Len(b) = 16 /\ b[5] = t.tag_checksum
  <2>1. b \in Seq(Byte) /\ Len(b) = 16
    BY TagBytesAre DEF TagSize
  <2>2. b[5] = <<1, 1, 2, 0, t.tag_checksum, 0, 0, 0>>[5]
    BY TagBytesAre, 5 \in 1 .. 8
  <2> QED BY <2>1, <2>2
<1>2. CksumTag(b) = SumFunction(rest) % 256
  BY DEF CksumTag, TagSize
<1> HIDE DEF b
<1>3. b \in [S -> Nat] /\ \A i \in S : b[i] \in Nat
  <2>1. b \in [1 .. Len(b) -> Byte]
    <3>1. b \in Seq(Byte)
      BY <1>1
    <3> QED BY ONLY <3>1
  <2>2. 1 .. Len(b) = S
    BY <1>1
  <2> HIDE DEF S
  <2>3. b \in [S -> Byte]
    BY ONLY <2>1, <2>2
  <2>4. \A n \in Byte : n \in Nat
    BY DEF Byte
  <2> QED BY ONLY <2>3, <2>4
<1>4. IsFiniteSet(S) /\ 5 \in S
  <2>1. \A m, n \in Int : IsFiniteSet(m .. n)
    BY FS_Interval
  <2>2. 1 \in Int /\ 16 \in Int /\ 5 \in S
    OBVIOUS
  <2>3. IsFiniteSet(S)
    BY <2>1, <2>2
  <2> QED BY <2>2, <2>3
<1>5. SumFunction(rest) \in Nat
  <2>1. IsFiniteSet(S \ {5})
    BY <1>4, FS_RemoveElement
  <2>2. rest \in [S \ {5} -> Nat]
    BY <1>3
  <2> HIDE DEF rest, S
  <2> QED BY <2>1, <2>2, SumIsNat
<1>6. SumFunction(b) = b[5] + SumFunction(rest)
  <2>1. IsFiniteSet(S) /\ b \in [S -> Nat] /\ 5 \in S
    BY ONLY <1>3, <1>4
  <2> DEFINE others(x) == [i \in S \ {x} |-> b[i]]
  <2> HIDE DEF S
  <2>2. \A x \in S : SumFunction(b) = b[x] + SumFunction(others(x))
    BY ONLY <2>1, SumSplits
  <2> QED BY <2>1, <2>2
<1> HIDE DEF rest, S
<1> DEFINE n == SumFunction(rest)
           m == t.tag_checksum
<1>7. m \in Nat /\ SumFunction(b) = m + n /\ n \in Nat
  <2>1. m \in Nat
    BY DEF Byte
  <2> QED BY <1>1, <1>5, <1>6, <2>1
<1> HIDE DEF n, m
<1>8. SumFunction(b) \in Int /\ SumFunction(b) - m = n /\ n % 256 \in 0 .. 255
  BY <1>7
<1> QED BY <1>2, <1>8 DEF b, n, m, Byte

-----------------------------------------------------------------------------
(* The entry keeps its descriptor.                                         *)
LEMMA EntryStays ==
  ASSUME UNCHANGED entryVars
  PROVE  /\ EntryInv' <=> EntryInv
         /\ UdfComp' = UdfComp /\ Padded' = Padded /\ StructSize' = StructSize
         /\ Described' = Described /\ Covered' = Covered
         /\ name' = name /\ cur_spec_lba' = cur_spec_lba /\ lba' = lba
<1>1. name' = name /\ directory' = directory /\ lba' = lba
      /\ cur_spec_lba' = cur_spec_lba
  BY DEF entryVars
<1>2. UdfComp' = UdfComp /\ Padded' = Padded
  BY <1>1 DEF UdfComp, Padded
<1>3. StructSize' = StructSize /\ FixedBytes' = FixedBytes
  BY <1>1 DEF StructSize, FixedBytes, FileStrLen
<1>4. Described' = Described
  BY <1>2, <1>3 DEF Described
<1>5. Covered' = Covered
  BY <1>3, <1>4 DEF Covered
<1>6. EntryInv' <=> EntryInv
  BY <1>1 DEF EntryInv
<1> QED BY <1>1, <1>2, <1>3, <1>4, <1>5, <1>6

(* The invariant holds before anything is filled in,                       *)
LEMMA InvInit == Init => IInv
<1> SUFFICES ASSUME Init PROVE IInv
  OBVIOUS
<1>1. EntryInv
  BY DEF Init, EntryInv
<1>2. NameInv
  <2>1. Len(UdfComp) \in Nat /\ Len(UdfComp) >= 1
    BY <1>1, PaddedLen
  <2>2. <<>> \in Seq(Byte) /\ Len(<<>>) = 0 /\ 1 \in 1 .. Len(UdfComp)
    BY <2>1
  <2> QED BY <2>2 DEF Init, NameInv
<1>3. CrcInv
  BY DEF Init, CrcInv
<1>4. TagInv
  BY DEF Init, TagInv, TagOf
<1> QED BY <1>1, <1>2, <1>3, <1>4 DEF IInv

(* The next byte of the name is copied.                                    *)
LEMMA InvUncompress == IInv /\ Uncompress => IInv'
<1> SUFFICES ASSUME IInv, Uncompress PROVE IInv'
  OBVIOUS
<1>1. EntryInv /\ NameInv /\ TagInv
  BY DEF IInv
<1>2. /\ step = "uncompress" /\ step' = step
      /\ at < Len(UdfComp) /\ at' = at + 1
      /\ f_name_buf' = Append(f_name_buf, UdfComp[at + 1])
      /\ UNCHANGED entryVars /\ str_buf' = str_buf /\ crc' = crc /\ tag' = tag
  BY DEF Uncompress
<1>3. /\ EntryInv' /\ UdfComp' = UdfComp /\ Padded' = Padded
      /\ StructSize' = StructSize /\ cur_spec_lba' = cur_spec_lba
  BY <1>1, <1>2, EntryStays
<1>4. /\ Len(UdfComp) = Len(Padded) + 1 /\ Len(Padded) \in Nat
      /\ \A i \in 1 .. Len(Padded) : UdfComp[i + 1] = Padded[i]
      /\ \A i \in 1 .. Len(Padded) : Padded[i] \in Byte
  <2>1. /\ Padded \in Seq(Byte) /\ Len(Padded) \in Nat
        /\ Len(UdfComp) = Len(Padded) + 1
    BY ONLY <1>1, PaddedLen
  <2>2. \A i \in 1 .. Len(Padded) : UdfComp[i + 1] = Padded[i]
    BY ONLY <1>1, PaddedName
  <2>3. \A i \in 1 .. Len(Padded) : Padded[i] \in Byte
    BY ONLY <2>1
  <2> QED BY ONLY <2>1, <2>2, <2>3
<1>5. /\ at \in 1 .. Len(UdfComp) /\ Len(f_name_buf) = at - 1
      /\ f_name_buf \in Seq(Byte) /\ crc = 0
      /\ \A i \in 1 .. at - 1 : f_name_buf[i] = Padded[i]
  BY <1>1, <1>2 DEF NameInv
<1> DEFINE b == Padded[at]
           f == Append(f_name_buf, b)
<1>6. at \in 1 .. Len(Padded) /\ UdfComp[at + 1] = b /\ b \in Byte
      /\ at' \in 1 .. Len(UdfComp)
  <2>1. at \in 1 .. Len(Padded) /\ at + 1 \in 1 .. Len(UdfComp)
    BY <1>2, <1>4, <1>5
  <2> QED BY <1>2, <1>4, <2>1
<1> HIDE DEF b
<1>7. /\ f \in Seq(Byte) /\ Len(f) = at
      /\ \A i \in 1 .. at - 1 : f[i] = f_name_buf[i]
      /\ f[at] = b
  <2>1. at \in Nat /\ at = (at - 1) + 1
    BY <1>6, <1>4
  <2> QED BY <1>5, <1>6, <2>1
<1>8. f_name_buf' = f
  BY <1>2, <1>6
<1> HIDE DEF f
<1>9. \A i \in 1 .. at : f[i] = Padded[i]
  <2>1. \A i \in 1 .. at : i = at \/ i \in 1 .. at - 1
    BY <1>4, <1>6
  <2> QED BY <1>5, <1>7, <2>1 DEF b
<1>10. at \in Nat /\ at' - 1 = at
  BY <1>2, <1>4, <1>6
<1>11. NameInv'
  BY <1>2, <1>3, <1>5, <1>6, <1>7, <1>8, <1>9, <1>10 DEF NameInv
<1>12. CrcInv'
  BY <1>2 DEF CrcInv
<1>13. TagInv'
  BY <1>1, <1>2, <1>3 DEF TagInv, TagOf
<1> QED BY <1>3, <1>11, <1>12, <1>13 DEF IInv

(* All of it is, so the descriptor holds it.                               *)
LEMMA InvFillStruct == IInv /\ FillStruct => IInv'
<1> SUFFICES ASSUME IInv, FillStruct PROVE IInv'
  OBVIOUS
<1>1. EntryInv /\ NameInv /\ TagInv
  BY DEF IInv
<1>2. /\ step = "uncompress" /\ step' = "cksum"
      /\ at = Len(UdfComp) /\ at' = TagSize
      /\ str_buf' = Zeros(TagSize) \o FixedBytes \o HostChars(f_name_buf)
      /\ UNCHANGED entryVars /\ f_name_buf' = f_name_buf
      /\ crc' = crc /\ tag' = tag
  BY DEF FillStruct
<1>3. /\ EntryInv' /\ Padded' = Padded /\ Described' = Described
      /\ StructSize' = StructSize /\ Covered' = Covered
      /\ cur_spec_lba' = cur_spec_lba
  BY <1>1, <1>2, EntryStays
<1>4. /\ Padded \in Seq(Byte) /\ Len(UdfComp) = Len(Padded) + 1
      /\ Len(Padded) \in Nat
  BY <1>1, PaddedLen
<1>5. /\ Len(f_name_buf) = at - 1
      /\ f_name_buf \in Seq(Byte) /\ crc = 0
      /\ \A i \in 1 .. at - 1 : f_name_buf[i] = Padded[i]
  BY <1>1, <1>2 DEF NameInv
<1>6. f_name_buf = Padded
  <2>1. at - 1 = Len(Padded)
    BY <1>2, <1>4
  <2> DEFINE n == Len(Padded)
  <2>2. Len(f_name_buf) = n /\ \A i \in 1 .. n : f_name_buf[i] = Padded[i]
    BY <1>5, <2>1
  <2> QED BY ONLY <1>4, <1>5, <2>2
<1>7. str_buf' = Described
  BY <1>2, <1>6 DEF Described
<1>8. /\ Covered \in Seq(Byte) /\ StructSize \in Nat
      /\ StructSize = 40 + 2 * Len(Padded)
  BY <1>1, DescribedIs
<1>9. at' \in TagSize .. StructSize /\ at' - TagSize = 0
  BY <1>2, <1>4, <1>8 DEF TagSize
<1>10. crc' = RemainderTo(Covered, 0) /\ crc' \in Char
  <2>1. 0 \in Char
    BY CharBounds
  <2> QED BY <1>2, <1>5, <1>8, <2>1, RemainderEquations
<1>11. NameInv'
  BY <1>2, <1>3, <1>6 DEF NameInv
<1>12. CrcInv'
  BY <1>2, <1>3, <1>7, <1>9, <1>10 DEF CrcInv
<1>13. TagInv'
  BY <1>1, <1>2, <1>3 DEF TagInv, TagOf
<1> QED BY <1>3, <1>11, <1>12, <1>13 DEF IInv

(* The next byte behind the tag is divided.                                *)
LEMMA InvCksumByte == IInv /\ CksumByte => IInv'
<1> SUFFICES ASSUME IInv, CksumByte PROVE IInv'
  OBVIOUS
<1>1. EntryInv /\ NameInv /\ CrcInv /\ TagInv
  BY DEF IInv
<1>2. /\ step = "cksum" /\ step' = step
      /\ at < StructSize /\ at' = at + 1
      /\ crc' = Cksum(crc, str_buf[at + 1])
      /\ UNCHANGED entryVars /\ f_name_buf' = f_name_buf
      /\ str_buf' = str_buf /\ tag' = tag
  BY DEF CksumByte
<1>3. /\ EntryInv' /\ Padded' = Padded /\ Described' = Described
      /\ StructSize' = StructSize /\ Covered' = Covered
      /\ cur_spec_lba' = cur_spec_lba
  BY <1>1, <1>2, EntryStays
<1>4. /\ str_buf = Described /\ at \in TagSize .. StructSize
      /\ crc = RemainderTo(Covered, at - TagSize) /\ crc \in Char
  BY <1>1, <1>2 DEF CrcInv
<1>5. /\ StructSize \in Nat /\ Covered \in Seq(Byte)
      /\ Len(Covered) = StructSize - TagSize
      /\ \A i \in 1 .. StructSize - TagSize :
           Described[TagSize + i] = Covered[i]
  BY <1>1, DescribedIs
<1> DEFINE n == at - TagSize
<1>6. /\ n \in Nat /\ n < Len(Covered) /\ TagSize + (n + 1) = at + 1
      /\ n + 1 \in 1 .. StructSize - TagSize
      /\ at' - TagSize = n + 1 /\ at' \in TagSize .. StructSize
  BY <1>2, <1>4, <1>5 DEF TagSize
<1> HIDE DEF n
<1>7. str_buf[at + 1] = Covered[n + 1]
  <2>1. Described[TagSize + (n + 1)] = Covered[n + 1]
    BY <1>5, <1>6
  <2> QED BY <1>4, <1>6, <2>1
<1>8. RemainderTo(Covered, n) = crc
  BY <1>4 DEF n
<1>9. /\ RemainderTo(Covered, n + 1) = Cksum(crc, Covered[n + 1])
      /\ RemainderTo(Covered, n + 1) \in Char
  BY <1>4, <1>5, <1>6, <1>8, RemainderStep
<1>10. NameInv'
  BY <1>1, <1>2, <1>3 DEF NameInv
<1>11. CrcInv'
  BY <1>2, <1>3, <1>4, <1>6, <1>7, <1>9 DEF CrcInv
<1>12. TagInv'
  BY <1>1, <1>2, <1>3 DEF TagInv, TagOf
<1> QED BY <1>3, <1>10, <1>11, <1>12 DEF IInv

(* All are, so the tag gets the remainder of them, and its sum.            *)
LEMMA InvFillTag == IInv /\ FillTag => IInv'
<1> SUFFICES ASSUME IInv, FillTag PROVE IInv'
  OBVIOUS
<1>1. EntryInv /\ NameInv /\ CrcInv /\ TagInv
  BY DEF IInv
<1> DEFINE summed == [tag EXCEPT !.desc_crc = crc, !.tag_checksum = 0]
<1>2. /\ step = "cksum" /\ step' = "tag" /\ at = StructSize /\ at' = at
      /\ tag' = [summed EXCEPT !.tag_checksum = CksumTag(TagBytes(summed))]
      /\ UNCHANGED entryVars /\ f_name_buf' = f_name_buf
      /\ str_buf' = str_buf /\ crc' = crc
  BY DEF FillTag
<1>3. /\ EntryInv' /\ Padded' = Padded /\ Described' = Described
      /\ StructSize' = StructSize /\ Covered' = Covered
      /\ cur_spec_lba' = cur_spec_lba
  BY <1>1, <1>2, EntryStays
<1>4. /\ str_buf = Described /\ crc \in Char
      /\ crc = RemainderTo(Covered, at - TagSize)
  BY <1>1, <1>2 DEF CrcInv
<1>5. crc = Remainder(Covered)
  <2>1. Len(Covered) = StructSize - TagSize
    BY <1>1, DescribedIs
  <2> QED BY <1>2, <1>4, <2>1 DEF Remainder
<1>6. tag = TagOf(0, 0)
  BY <1>1, <1>2 DEF TagInv
<1>7. summed = TagOf(0, crc)
  <2> DEFINE l == StructSize - TagSize
  <2>1. tag = [tag_checksum |-> 0, desc_crc |-> 0, desc_crc_len |-> l,
               tag_location |-> cur_spec_lba]
    BY <1>6 DEF TagOf
  <2> HIDE DEF l
  <2> DEFINE crced == [tag EXCEPT !.desc_crc = crc]
  <2>2. crced = [tag_checksum |-> 0, desc_crc |-> crc, desc_crc_len |-> l,
                 tag_location |-> cur_spec_lba]
    BY <2>1
  <2> HIDE DEF crced
  <2>3. [crced EXCEPT !.tag_checksum = 0]
          = [tag_checksum |-> 0, desc_crc |-> crc, desc_crc_len |-> l,
             tag_location |-> cur_spec_lba]
    BY <2>2
  <2>4. summed = [crced EXCEPT !.tag_checksum = 0]
    BY DEF crced
  <2> QED BY <2>3, <2>4 DEF TagOf, l
<1> HIDE DEF summed
<1>8. tag' = TagOf(CksumTag(TagBytes(TagOf(0, crc))), crc)
  <2> DEFINE sum == CksumTag(TagBytes(TagOf(0, crc)))
  <2>1. tag' = [TagOf(0, crc) EXCEPT !.tag_checksum = sum]
    BY <1>2, <1>7
  <2> HIDE DEF sum
  <2>2. tag' = TagOf(sum, crc)
    BY <2>1 DEF TagOf
  <2> QED BY <2>2 DEF sum
<1>9. NameInv'
  BY <1>1, <1>2, <1>3 DEF NameInv
<1>10. CrcInv'
  BY <1>2, <1>3, <1>4, <1>5 DEF CrcInv
<1>11. TagInv'
  BY <1>2, <1>3, <1>8 DEF TagInv, TagOf
<1> QED BY <1>3, <1>9, <1>10, <1>11 DEF IInv

(* The tag replaces what malloc left in its place.                         *)
LEMMA InvWriteTag == IInv /\ WriteTag => IInv'
<1> SUFFICES ASSUME IInv, WriteTag PROVE IInv'
  OBVIOUS
<1>1. EntryInv /\ NameInv /\ CrcInv /\ TagInv
  BY DEF IInv
<1>2. /\ step = "tag" /\ step' = "done"
      /\ str_buf' = TagBytes(tag) \o SubSeq(str_buf, TagSize + 1, Len(str_buf))
      /\ UNCHANGED entryVars /\ at' = at /\ f_name_buf' = f_name_buf
      /\ crc' = crc /\ tag' = tag
  BY DEF WriteTag
<1>3. /\ EntryInv' /\ Padded' = Padded /\ Described' = Described
      /\ StructSize' = StructSize /\ Covered' = Covered
      /\ cur_spec_lba' = cur_spec_lba
  BY <1>1, <1>2, EntryStays
<1>4. str_buf = Described /\ Len(Described) = StructSize
  BY <1>1, <1>2, DescribedIs DEF CrcInv
<1>5. str_buf' = TagBytes(tag) \o Covered
  BY <1>2, <1>4 DEF Covered
<1>6. NameInv'
  BY <1>1, <1>2, <1>3 DEF NameInv
<1>7. CrcInv'
  BY <1>1, <1>2, <1>3 DEF CrcInv
<1>8. TagInv'
  BY <1>1, <1>2, <1>3, <1>5 DEF TagInv, TagOf
<1> QED BY <1>3, <1>6, <1>7, <1>8 DEF IInv

(* and every step keeps it.                                                *)
LEMMA InvNext == IInv /\ [Next]_vars => IInv'
<1> SUFFICES ASSUME IInv, [Next]_vars PROVE IInv'
  OBVIOUS
<1>1. CASE Uncompress
  BY <1>1, InvUncompress
<1>2. CASE FillStruct
  BY <1>2, InvFillStruct
<1>3. CASE CksumByte
  BY <1>3, InvCksumByte
<1>4. CASE FillTag
  BY <1>4, InvFillTag
<1>5. CASE WriteTag
  BY <1>5, InvWriteTag
<1>6. CASE UNCHANGED vars
  <2>1. /\ UNCHANGED entryVars /\ step' = step /\ at' = at
        /\ f_name_buf' = f_name_buf /\ str_buf' = str_buf
        /\ crc' = crc /\ tag' = tag
    BY <1>6 DEF vars
  <2>2. EntryInv /\ NameInv /\ CrcInv /\ TagInv
    BY DEF IInv
  <2>3. /\ EntryInv' /\ UdfComp' = UdfComp /\ Padded' = Padded
        /\ Described' = Described /\ StructSize' = StructSize
        /\ Covered' = Covered /\ cur_spec_lba' = cur_spec_lba
    BY <2>1, <2>2, EntryStays
  <2>4. NameInv'
    BY <2>1, <2>2, <2>3 DEF NameInv
  <2>5. CrcInv'
    BY <2>1, <2>2, <2>3 DEF CrcInv
  <2>6. TagInv'
    BY <2>1, <2>2, <2>3 DEF TagInv, TagOf
  <2> QED BY <2>3, <2>4, <2>5, <2>6 DEF IInv
<1> QED BY <1>1, <1>2, <1>3, <1>4, <1>5, <1>6 DEF Next

(* The invariant holds of every descriptor filled in.                      *)
THEOREM Inductive == Spec => []IInv
BY InvInit, InvNext, PTL DEF Spec

-----------------------------------------------------------------------------
(* The fields of the tag, once it is filled: its sum is that of the other  *)
(* fifteen bytes.                                                          *)
LEMMA FilledTag ==
  ASSUME IInv, step \in {"tag", "done"}
  PROVE  /\ tag.tag_checksum \in Byte /\ tag.desc_crc = crc /\ crc \in Nat
         /\ crc < 65536 /\ crc = Remainder(Covered)
         /\ tag.desc_crc_len = StructSize - TagSize
         /\ tag.desc_crc_len \in Nat /\ tag.desc_crc_len < 65536
         /\ tag.tag_location = cur_spec_lba /\ tag.tag_location \in Nat
         /\ CksumTag(TagBytes(tag)) = tag.tag_checksum
<1> DEFINE l == StructSize - TagSize
           before == TagOf(0, crc)
           sum == CksumTag(TagBytes(before))
<1>1. crc \in Nat /\ crc < 65536 /\ crc = Remainder(Covered)
  BY CharBounds DEF IInv, CrcInv
<1>2. l \in Nat /\ l < 65536
  <2>1. Len(Padded) \in Nat /\ Len(Padded) <= 256
    BY PaddedLen DEF IInv
  <2>2. StructSize = 40 + 2 * Len(Padded)
    BY DescribedIs DEF IInv
  <2> QED BY <2>1, <2>2 DEF TagSize
<1>3. cur_spec_lba \in Nat
  BY EntryTyped DEF IInv
<1>4. tag = TagOf(sum, crc)
  BY DEF IInv, TagInv
<1>5. /\ before.tag_checksum = 0 /\ before.desc_crc = crc
      /\ before.desc_crc_len = l /\ before.tag_location = cur_spec_lba
  BY DEF TagOf
<1> HIDE DEF l, before
<1>6. 0 \in Byte
  BY DEF Byte
<1>7. sum \in Byte
  BY <1>1, <1>2, <1>3, <1>5, <1>6, SumOfTag
<1> HIDE DEF sum
<1>8. /\ tag.tag_checksum = sum /\ tag.desc_crc = crc
      /\ tag.desc_crc_len = l /\ tag.tag_location = cur_spec_lba
  BY <1>4 DEF TagOf, l
<1>9. CksumTag(TagBytes(tag)) = sum
  <2> DEFINE b == TagBytes(before)
             c == TagBytes(tag)
             S == (1 .. TagSize) \ {5}
  <2>1. /\ before.tag_checksum \in Byte /\ before.desc_crc \in Nat
        /\ before.desc_crc_len \in Nat /\ before.tag_location \in Nat
        /\ tag.tag_checksum \in Byte /\ tag.desc_crc = before.desc_crc
        /\ tag.desc_crc_len = before.desc_crc_len
        /\ tag.tag_location = before.tag_location
    BY <1>1, <1>2, <1>3, <1>5, <1>6, <1>7, <1>8
  <2>2. /\ \A i \in 1 .. 8 :
             b[i] = <<1, 1, 2, 0, before.tag_checksum, 0, 0, 0>>[i]
        /\ \A i \in 1 .. 2 : b[8 + i] = Host16(before.desc_crc)[i]
        /\ \A i \in 1 .. 2 : b[10 + i] = Host16(before.desc_crc_len)[i]
        /\ \A i \in 1 .. 4 : b[12 + i] = Host32(before.tag_location)[i]
    BY ONLY <2>1, TagBytesAre
  <2>3. /\ \A i \in 1 .. 8 :
             c[i] = <<1, 1, 2, 0, tag.tag_checksum, 0, 0, 0>>[i]
        /\ \A i \in 1 .. 2 : c[8 + i] = Host16(tag.desc_crc)[i]
        /\ \A i \in 1 .. 2 : c[10 + i] = Host16(tag.desc_crc_len)[i]
        /\ \A i \in 1 .. 4 : c[12 + i] = Host32(tag.tag_location)[i]
    BY ONLY <2>1, TagBytesAre
  <2> HIDE DEF b, c
  <2>4. ASSUME NEW i \in S
        PROVE  b[i] = c[i]
    <3>1. CASE i \in 1 .. 8
      <4>1. i \in {1, 2, 3, 4, 6, 7, 8}
        BY <3>1
      <4> QED BY ONLY <2>2, <2>3, <4>1
    <3>2. CASE i \in 9 .. 10
      <4>1. i - 8 \in 1 .. 2 /\ 8 + (i - 8) = i
        BY <3>2
      <4> QED BY ONLY <2>1, <2>2, <2>3, <4>1
    <3>3. CASE i \in 11 .. 12
      <4>1. i - 10 \in 1 .. 2 /\ 10 + (i - 10) = i
        BY <3>3
      <4> QED BY ONLY <2>1, <2>2, <2>3, <4>1
    <3>4. CASE i \in 13 .. 16
      <4>1. i - 12 \in 1 .. 4 /\ 12 + (i - 12) = i
        BY <3>4
      <4> QED BY ONLY <2>1, <2>2, <2>3, <4>1
    <3>5. i \in 1 .. 8 \/ i \in 9 .. 10 \/ i \in 11 .. 12 \/ i \in 13 .. 16
      BY DEF TagSize
    <3> QED BY <3>1, <3>2, <3>3, <3>4, <3>5
  <2> HIDE DEF S
  <2>5. [i \in S |-> b[i]] = [i \in S |-> c[i]]
    BY <2>4
  <2>6. CksumTag(b) = CksumTag(c)
    BY <2>5 DEF CksumTag, S
  <2> QED BY <2>6 DEF b, c, sum
<1> QED BY <1>1, <1>2, <1>3, <1>7, <1>8, <1>9 DEF l

(* The finished descriptor is the tag and the bytes its CRC covers.        *)
LEMMA Finished ==
  ASSUME IInv, step = "done"
  PROVE  /\ str_buf \in Seq(Byte) /\ Len(str_buf) = StructSize
         /\ SubSeq(str_buf, 1, TagSize) = TagBytes(tag)
         /\ SubSeq(str_buf, TagSize + 1, Len(str_buf)) = Covered
         /\ \A i \in 1 .. TagSize : str_buf[i] = TagBytes(tag)[i]
         /\ \A i \in 1 .. StructSize - TagSize :
              str_buf[TagSize + i] = Covered[i]
<1> DEFINE t == TagBytes(tag)
<1>1. t \in Seq(Byte) /\ Len(t) = TagSize
  BY FilledTag, TagBytesAre
<1>2. /\ Covered \in Seq(Byte) /\ Len(Covered) = StructSize - TagSize
      /\ StructSize \in Nat
  BY DescribedIs DEF IInv
<1>3. str_buf = t \o Covered
  BY DEF IInv, TagInv
<1> HIDE DEF t
<1>4. TagSize \in Nat /\ TagSize + (StructSize - TagSize) = StructSize
  BY <1>2 DEF TagSize
<1>5. /\ str_buf \in Seq(Byte) /\ Len(str_buf) = StructSize
      /\ \A i \in 1 .. TagSize : str_buf[i] = t[i]
      /\ \A i \in 1 .. StructSize - TagSize :
           str_buf[TagSize + i] = Covered[i]
  <2>1. t \in Seq(Byte) /\ Covered \in Seq(Byte)
    BY ONLY <1>1, <1>2
  <2> DEFINE u == t \o Covered
  <2>2. /\ u \in Seq(Byte) /\ Len(u) = Len(t) + Len(Covered)
        /\ \A i \in 1 .. Len(t) : u[i] = t[i]
        /\ \A i \in 1 .. Len(Covered) : u[Len(t) + i] = Covered[i]
    BY ONLY <2>1, Behind
  <2>3. str_buf = u
    BY ONLY <1>3
  <2> HIDE DEF u
  <2> QED BY ONLY <1>1, <1>2, <1>4, <2>2, <2>3
<1>6. /\ SubSeq(str_buf, 1, TagSize) = t
      /\ SubSeq(str_buf, TagSize + 1, StructSize) = Covered
  BY <1>1, <1>2, <1>3, <1>4, HalvesOf
<1> QED BY <1>5, <1>6 DEF t

(* The bounds of the loops, and the size of the descriptor.                *)
LEMMA InvTypeOK == IInv => TypeOK
<1> SUFFICES ASSUME IInv PROVE TypeOK
  OBVIOUS
<1>1. EntryInv /\ NameInv /\ CrcInv /\ TagInv
  BY DEF IInv
<1>2. /\ Padded \in Seq(Byte) /\ Len(Padded) \in Nat
      /\ Len(UdfComp) = Len(Padded) + 1
  BY <1>1, PaddedLen
<1>3. /\ StructSize = 40 + 2 * Len(Padded) /\ StructSize \in Nat
      /\ Described \in Seq(Byte) /\ Len(Described) = StructSize
  BY <1>1, DescribedIs
<1>4. f_name_buf \in Seq(Byte)
  BY <1>1, <1>2 DEF NameInv
<1>5. f_name_buf \in Seq(Char)
  <2>1. \A b \in Byte : b \in Char
    BY ByteIsChar
  <2> QED BY <1>4, <2>1
<1>6. crc \in Char
  <2>1. 0 \in Char
    BY CharBounds
  <2> QED BY <1>1, <2>1 DEF NameInv, CrcInv
<1>7. at \in 1 .. StructSize
  <2>1. CASE step = "uncompress"
    BY <1>1, <1>2, <1>3, <2>1 DEF NameInv
  <2>2. CASE step = "cksum"
    <3>1. at \in TagSize .. StructSize
      BY <1>1, <2>2 DEF CrcInv
    <3> QED BY <1>3, <3>1 DEF TagSize
  <2>3. CASE step \in {"tag", "done"}
    <3>1. at = StructSize
      BY <1>1, <2>3 DEF CrcInv
    <3> QED BY <1>2, <1>3, <3>1
  <2> QED BY <1>1, <2>1, <2>2, <2>3 DEF NameInv
<1>8. step # "uncompress" =>
        str_buf \in Seq(Byte) /\ Len(str_buf) = StructSize
  <2>1. CASE step \in {"cksum", "tag"}
    BY <1>1, <1>3, <2>1 DEF CrcInv
  <2>2. CASE step = "done"
    BY <2>2, Finished
  <2> QED BY <1>1, <2>1, <2>2 DEF NameInv
<1> QED BY <1>1, <1>5, <1>6, <1>7, <1>8 DEF TypeOK, NameInv

(* Filling a descriptor in, every byte read and every character written is *)
(* within its buffer, and the buffer has the size fill_fid computed.       *)
THEOREM TypeCorrect == Spec => []TypeOK
BY Inductive, InvTypeOK, PTL

(* Whatever the name and the blocks, the loop over the table gives the     *)
(* remainder that ECMA-167's division gives of the descriptor's bytes.     *)
LEMMA InvCrc == IInv => CrcIsRemainder
<1> SUFFICES ASSUME IInv, step = "tag"
             PROVE  crc = Remainder(SubSeq(str_buf, TagSize + 1, StructSize))
  BY DEF CrcIsRemainder
<1>1. str_buf = Described /\ crc = Remainder(Covered)
  BY DEF IInv, CrcInv
<1> QED BY <1>1 DEF Covered

(* Whatever the name and the blocks, cksum leaves the remainder (Util.h,   *)
(* lines 183 to 189).                                                      *)
THEOREM CrcIsTheRemainder == Spec => []CrcIsRemainder
BY Inductive, InvCrc, PTL

-----------------------------------------------------------------------------
(* What a reader finds in the finished descriptor.                         *)
LEMMA InvTag == IInv => TagVerifies
<1> SUFFICES ASSUME IInv, step = "done"
             PROVE  /\ (SumFunction(SubSeq(str_buf, 1, TagSize)) - str_buf[5])
                         % 256 = str_buf[5]
                    /\ TagSize + Read16(10) = Len(str_buf)
                    /\ Read16(8) = Remainder(SubSeq(str_buf, TagSize + 1,
                                                    Len(str_buf)))
                    /\ Read32(12) = cur_spec_lba /\ Read32(24) = lba
  BY DEF TagVerifies
<1>1. /\ tag.tag_checksum \in Byte /\ tag.desc_crc \in Nat
      /\ tag.desc_crc_len \in Nat /\ tag.tag_location \in Nat
      /\ tag.desc_crc < 65536 /\ tag.desc_crc_len < 65536
      /\ tag.desc_crc = Remainder(Covered)
      /\ tag.desc_crc_len = StructSize - TagSize
      /\ tag.tag_location = cur_spec_lba
      /\ CksumTag(TagBytes(tag)) = tag.tag_checksum
  BY FilledTag
<1>2. /\ SubSeq(str_buf, 1, TagSize) = TagBytes(tag)
      /\ SubSeq(str_buf, TagSize + 1, Len(str_buf)) = Covered
      /\ Len(str_buf) = StructSize
      /\ \A i \in 1 .. TagSize : str_buf[i] = TagBytes(tag)[i]
      /\ \A i \in 1 .. StructSize - TagSize :
           str_buf[TagSize + i] = Covered[i]
  BY Finished
<1>3. TagSize = 16
  BY DEF TagSize
<1> DEFINE b == TagBytes(tag)
<1>4. /\ \A i \in 1 .. 8 :
           b[i] = <<1, 1, 2, 0, tag.tag_checksum, 0, 0, 0>>[i]
      /\ \A i \in 1 .. 2 : b[8 + i] = Host16(tag.desc_crc)[i]
      /\ \A i \in 1 .. 2 : b[10 + i] = Host16(tag.desc_crc_len)[i]
      /\ \A i \in 1 .. 4 : b[12 + i] = Host32(tag.tag_location)[i]
  <2>1. /\ tag.tag_checksum \in Byte /\ tag.desc_crc \in Nat
        /\ tag.desc_crc_len \in Nat /\ tag.tag_location \in Nat
    BY ONLY <1>1
  <2> QED BY ONLY <2>1, TagBytesAre
<1>5. \A i \in 1 .. 16 : str_buf[i] = b[i]
  BY <1>2, <1>3
<1> HIDE DEF b
<1>6. str_buf[5] = tag.tag_checksum
  <2>1. 5 \in 1 .. 8 /\ 5 \in 1 .. 16
    OBVIOUS
  <2> QED BY <1>4, <1>5, <2>1
<1>7. (SumFunction(SubSeq(str_buf, 1, TagSize)) - str_buf[5]) % 256
        = str_buf[5]
  <2>1. (SumFunction(TagBytes(tag)) - tag.tag_checksum) % 256
          = CksumTag(TagBytes(tag))
    BY ONLY <1>1, SumOfTag
  <2>2. SubSeq(str_buf, 1, TagSize) = TagBytes(tag)
    BY <1>2
  <2>3. CksumTag(TagBytes(tag)) = tag.tag_checksum
    BY <1>1
  <2> QED BY ONLY <1>6, <2>1, <2>2, <2>3, Zenon
<1>8. Read16(8) = tag.desc_crc /\ Read16(10) = tag.desc_crc_len
  <2>1. /\ str_buf[9] = ByteAt(tag.desc_crc, 1)
        /\ str_buf[10] = ByteAt(tag.desc_crc, 256)
        /\ str_buf[11] = ByteAt(tag.desc_crc_len, 1)
        /\ str_buf[12] = ByteAt(tag.desc_crc_len, 256)
    <3>1. /\ b[8 + 1] = Host16(tag.desc_crc)[1]
          /\ b[8 + 2] = Host16(tag.desc_crc)[2]
          /\ b[10 + 1] = Host16(tag.desc_crc_len)[1]
          /\ b[10 + 2] = Host16(tag.desc_crc_len)[2]
      BY ONLY <1>4
    <3>2. /\ str_buf[9] = b[9] /\ str_buf[10] = b[10]
          /\ str_buf[11] = b[11] /\ str_buf[12] = b[12]
      BY ONLY <1>5
    <3> QED BY ONLY <3>1, <3>2 DEF Host16
  <2> QED BY <1>1, <2>1, Reads16 DEF Read16
<1>9. Read32(12) = cur_spec_lba
  <2>1. /\ str_buf[13] = ByteAt(cur_spec_lba, 1)
        /\ str_buf[14] = ByteAt(cur_spec_lba, 256)
        /\ str_buf[15] = ByteAt(cur_spec_lba, 65536)
        /\ str_buf[16] = ByteAt(cur_spec_lba, 16777216)
    <3>1. /\ b[12 + 1] = Host32(cur_spec_lba)[1]
          /\ b[12 + 2] = Host32(cur_spec_lba)[2]
          /\ b[12 + 3] = Host32(cur_spec_lba)[3]
          /\ b[12 + 4] = Host32(cur_spec_lba)[4]
      BY ONLY <1>1, <1>4
    <3>2. /\ str_buf[13] = b[13] /\ str_buf[14] = b[14]
          /\ str_buf[15] = b[15] /\ str_buf[16] = b[16]
      BY ONLY <1>5
    <3> QED BY ONLY <3>1, <3>2 DEF Host32
  <2>2. cur_spec_lba \in Word32
    BY EntryTyped DEF IInv
  <2>3. Read32(12) = (str_buf[13] + 256 * str_buf[14])
                       + 65536 * (str_buf[15] + 256 * str_buf[16])
    BY DEF Read32, Read16
  <2> QED BY <2>1, <2>2, <2>3, Reads32
<1>10. Read32(24) = lba
  <2>1. /\ \A i \in 1 .. 24 : Covered[i] = FixedBytes[i]
        /\ \A i \in 1 .. 4 : FixedBytes[8 + i] = Host32(lba)[i]
        /\ StructSize = 40 + 2 * Len(Padded) /\ Len(Padded) \in Nat
    <3>1. EntryInv
      BY DEF IInv
    <3>2. \A i \in 1 .. 24 : Covered[i] = FixedBytes[i]
      BY ONLY <3>1, DescribedIs
    <3>3. \A i \in 1 .. 4 : FixedBytes[8 + i] = Host32(lba)[i]
      BY ONLY <3>1, FixedBytesAre
    <3>4. StructSize = 40 + 2 * Len(Padded)
      BY ONLY <3>1, DescribedIs
    <3>5. Len(Padded) \in Nat
      BY ONLY <3>1, PaddedLen
    <3> QED BY ONLY <3>2, <3>3, <3>4, <3>5
  <2>2. \A i \in 1 .. 24 : str_buf[16 + i] = Covered[i]
    <3> DEFINE n == StructSize - 16
    <3>1. n \in Nat /\ n >= 24
      <4>1. StructSize = 40 + 2 * Len(Padded) /\ Len(Padded) \in Nat
        BY ONLY <2>1
      <4> QED BY ONLY <4>1
    <3>2. \A i \in 1 .. n : str_buf[16 + i] = Covered[i]
      BY <1>2, <1>3
    <3> HIDE DEF n
    <3>3. \A i \in 1 .. 24 : i \in 1 .. n
      BY <3>1
    <3> QED BY ONLY <3>2, <3>3
  <2>3. /\ str_buf[25] = ByteAt(lba, 1) /\ str_buf[26] = ByteAt(lba, 256)
        /\ str_buf[27] = ByteAt(lba, 65536)
        /\ str_buf[28] = ByteAt(lba, 16777216)
    <3>1. /\ FixedBytes[8 + 1] = Host32(lba)[1]
          /\ FixedBytes[8 + 2] = Host32(lba)[2]
          /\ FixedBytes[8 + 3] = Host32(lba)[3]
          /\ FixedBytes[8 + 4] = Host32(lba)[4]
      BY ONLY <2>1
    <3>2. /\ str_buf[16 + 9] = Covered[9] /\ str_buf[16 + 10] = Covered[10]
          /\ str_buf[16 + 11] = Covered[11] /\ str_buf[16 + 12] = Covered[12]
      BY ONLY <2>2
    <3>3. /\ Covered[9] = FixedBytes[9] /\ Covered[10] = FixedBytes[10]
          /\ Covered[11] = FixedBytes[11] /\ Covered[12] = FixedBytes[12]
      BY ONLY <2>1
    <3> QED BY ONLY <3>1, <3>2, <3>3 DEF Host32
  <2>4. lba \in Word32
    BY EntryTyped DEF IInv
  <2>5. Read32(24) = (str_buf[25] + 256 * str_buf[26])
                       + 65536 * (str_buf[27] + 256 * str_buf[28])
    BY DEF Read32, Read16
  <2> QED BY <2>3, <2>4, <2>5, Reads32
<1>11. TagSize + Read16(10) = Len(str_buf)
  <2> DEFINE r == Read16(10)
  <2>1. StructSize \in Nat
    BY DescribedIs DEF IInv
  <2>2. r = StructSize - 16 /\ Len(str_buf) = StructSize
    BY <1>1, <1>2, <1>3, <1>8
  <2> HIDE DEF r
  <2>3. TagSize + r = Len(str_buf)
    BY ONLY <1>3, <2>1, <2>2
  <2> QED BY <2>3 DEF r
<1>12. Read16(8) = Remainder(SubSeq(str_buf, TagSize + 1, Len(str_buf)))
  <2>1. SubSeq(str_buf, TagSize + 1, Len(str_buf)) = Covered
    BY <1>2
  <2>2. Read16(8) = tag.desc_crc
    BY <1>8
  <2>3. tag.desc_crc = Remainder(Covered)
    BY <1>1
  <2> QED BY ONLY <2>1, <2>2, <2>3, Zenon
<1> QED BY <1>7, <1>9, <1>10, <1>11, <1>12, Zenon

(* A reader of ECMA-167 finds the tag of every identifier valid: its sum,  *)
(* its CRC and their lengths, its own block and the block it names.        *)
THEOREM TagIsValid == Spec => []TagVerifies
BY Inductive, InvTag, PTL

-----------------------------------------------------------------------------
(* The name that a reader puts together from the descriptor's characters.  *)
LEMMA InvName == IInv => NameSurvives
<1> DEFINE n == Len(name)
           id == SubSeq(str_buf, 39, 39 + 2 * n)
<1> SUFFICES ASSUME IInv, step = "done", n <= 127
             PROVE  /\ str_buf[20] = 2 * n + 1
                    /\ id[1] = 16
                    /\ NameRead(id) = name
                    /\ Len(str_buf) % 4 = 0
                    /\ Len(str_buf) - (38 + (2 * n + 1)) \in 0 .. 3
  <2> SUFFICES ASSUME IInv, step = "done", n <= 127
               PROVE  LET length == str_buf[20]
                          identifier == SubSeq(str_buf, 39, 38 + length)
                      IN  /\ identifier[1] = 16
                          /\ NameRead(identifier) = name
                          /\ Len(str_buf) % 4 = 0
                          /\ Len(str_buf) - (38 + length) \in 0 .. 3
    BY DEF NameSurvives
  <2>1. n \in Nat
    BY EntryTyped, SMTT(30) DEF IInv
  <2>2. str_buf[20] = 2 * n + 1 => 38 + str_buf[20] = 39 + 2 * n
    <3> HIDE DEF n
    <3> QED BY <2>1
  <2> HIDE DEF n
  <2> QED BY <2>2
<1>1. /\ name \in Seq(Byte) /\ n \in 1 .. 127 /\ Padded \in Seq(Byte)
      /\ Len(Padded) = n + (n % 2)
      /\ \A i \in 1 .. n : Padded[i] = name[i]
  <2>1. /\ name \in Seq(Byte) /\ n \in 1 .. 255 /\ Padded \in Seq(Byte)
        /\ Len(Padded) = n + (n % 2)
        /\ \A i \in 1 .. n : Padded[i] = name[i]
    BY PaddedName DEF IInv
  <2>2. n <= 127
    OBVIOUS
  <2> HIDE DEF n
  <2>3. n \in 1 .. 127
    BY ONLY <2>1, <2>2
  <2> QED BY <2>1, <2>3
<1>2. /\ StructSize = 40 + 2 * Len(Padded)
      /\ \A i \in 1 .. 24 : Covered[i] = FixedBytes[i]
      /\ \A i \in 1 .. 2 * Len(Padded) :
           Covered[24 + i] = HostChars(Padded)[i]
  BY DescribedIs DEF IInv
<1>3. FixedBytes[4] = FileStrLen % 256 /\ FixedBytes[23] = 16
      /\ FixedBytes[24] = 0
  BY FixedBytesAre DEF IInv
<1>4. \A i \in 1 .. Len(Padded) :
        /\ HostChars(Padded)[2 * i - 1] = Padded[i]
        /\ HostChars(Padded)[2 * i] = 0
  BY <1>1, HostCharsOf
<1>5. FileStrLen = n * 2 + 1
  BY DEF FileStrLen
<1> HIDE DEF n
<1> DEFINE m == n + (n % 2)
           size == 40 + 2 * m
<1>6. m \in Nat /\ n <= m /\ m <= n + 1 /\ m % 2 = 0
  BY <1>1
<1>7. str_buf \in Seq(Byte) /\ Len(str_buf) = size
      /\ \A i \in 1 .. size - 16 : str_buf[16 + i] = Covered[i]
  BY <1>1, <1>2, Finished DEF TagSize
<1> HIDE DEF m
<1>8. \A i \in 1 .. 24 : str_buf[16 + i] = FixedBytes[i]
  <2>1. \A i \in 1 .. 24 : i \in 1 .. size - 16
    BY <1>6
  <2> QED BY <1>2, <1>7, <2>1
<1>9. /\ str_buf[20] = FixedBytes[4] /\ str_buf[39] = 16 /\ str_buf[40] = 0
  <2>1. /\ str_buf[16 + 4] = FixedBytes[4] /\ str_buf[16 + 23] = FixedBytes[23]
        /\ str_buf[16 + 24] = FixedBytes[24]
    BY ONLY <1>8
  <2> QED BY <1>3, <2>1
<1>10. str_buf[20] = 2 * n + 1
  <2>1. (n * 2 + 1) % 256 = 2 * n + 1
    BY <1>1
  <2> QED BY <1>3, <1>5, <1>9, <2>1
<1>11. ASSUME NEW i \in 1 .. m
       PROVE  str_buf[39 + 2 * i] = Padded[i] /\ str_buf[40 + 2 * i] = 0
  <2> DEFINE o == 2 * i - 1
             e == 2 * i
  <2>1. /\ o \in 1 .. 2 * m /\ e \in 1 .. 2 * m
        /\ 24 + o \in 1 .. size - 16 /\ 24 + e \in 1 .. size - 16
        /\ 16 + (24 + o) = 39 + 2 * i /\ 16 + (24 + e) = 40 + 2 * i
    BY <1>6
  <2>2. m = Len(Padded)
    BY <1>1 DEF m
  <2>3. HostChars(Padded)[o] = Padded[i] /\ HostChars(Padded)[e] = 0
    BY <1>4, <2>2
  <2> HIDE DEF o, e
  <2>4. Covered[24 + o] = HostChars(Padded)[o]
        /\ Covered[24 + e] = HostChars(Padded)[e]
    BY <1>2, <2>1, <2>2
  <2>5. str_buf[16 + (24 + o)] = Covered[24 + o]
        /\ str_buf[16 + (24 + e)] = Covered[24 + e]
    BY ONLY <1>7, <2>1
  <2> QED BY ONLY <2>1, <2>3, <2>4, <2>5
<1>12. /\ Len(id) = 2 * n + 1
       /\ \A i \in 1 .. 2 * n + 1 : id[i] = str_buf[38 + i]
  <2> DEFINE to == 39 + 2 * n
  <2>1. to \in Nat /\ to <= Len(str_buf) /\ to - 39 + 1 = 2 * n + 1 /\ 39 <= to
    BY <1>1, <1>6, <1>7
  <2> HIDE DEF to
  <2>2. id = SubSeq(str_buf, 39, to)
    BY DEF to
  <2> HIDE DEF id
  <2>3. id = [i \in 1 .. 2 * n + 1 |-> str_buf[38 + i]]
    BY ONLY <1>1, <1>7, <2>1, <2>2
  <2> QED BY ONLY <1>1, <2>3
<1> HIDE DEF id
<1>13. id[1] = 16
  <2>1. 1 \in 1 .. 2 * n + 1
    BY <1>1
  <2> QED BY <1>9, <1>12, <2>1
<1>14. ASSUME NEW i \in 1 .. n
       PROVE  256 * id[2 * i] + id[2 * i + 1] = name[i]
  <2>1. /\ 2 * i \in 1 .. 2 * n + 1 /\ 2 * i + 1 \in 1 .. 2 * n + 1
        /\ 38 + (2 * i + 1) = 39 + 2 * i /\ i \in 1 .. m
    BY <1>1, <1>6
  <2>2. id[2 * i + 1] = name[i]
    <3>1. id[2 * i + 1] = str_buf[38 + (2 * i + 1)]
      BY ONLY <1>12, <2>1
    <3> QED BY <1>1, <1>11, <2>1, <3>1
  <2>3. id[2 * i] = 0
    <3>1. id[2 * i] = str_buf[38 + 2 * i]
      BY ONLY <1>12, <2>1
    <3>2. CASE i = 1
      BY <1>9, <3>1, <3>2
    <3>3. CASE i # 1
      <4> DEFINE j == i - 1
      <4>1. j \in 1 .. m /\ 40 + 2 * j = 38 + 2 * i
        BY <1>1, <1>6, <3>3
      <4> HIDE DEF j
      <4> QED BY <1>11, <3>1, <4>1
    <3> QED BY <3>2, <3>3
  <2>4. name[i] \in 0 .. 255
    <3>1. name[i] \in Byte
      BY <1>1 DEF n
    <3> QED BY <3>1 DEF Byte
  <2> QED BY ONLY <2>2, <2>3, <2>4
<1>15. NameRead(id) = name
  <2>1. (Len(id) - 1) \div 2 = n
    BY <1>1, <1>12
  <2>2. NameRead(id) = [i \in 1 .. n |-> 256 * id[2 * i] + id[2 * i + 1]]
    BY <2>1 DEF NameRead
  <2>3. NameRead(id) = [i \in 1 .. n |-> name[i]]
    BY ONLY <1>14, <2>2
  <2>4. name = [i \in 1 .. n |-> name[i]]
    <3>1. name \in Seq(Byte)
      BY <1>1
    <3> QED BY ONLY <3>1 DEF n
  <2> QED BY ONLY <2>3, <2>4
<1>16. Len(str_buf) % 4 = 0 /\ Len(str_buf) - (38 + (2 * n + 1)) \in 0 .. 3
  BY <1>1, <1>6, <1>7
<1> QED BY <1>10, <1>13, <1>15, <1>16

(* And it finds the name the entry has, of up to 127 bytes, filled up to a *)
(* multiple of four.                                                       *)
THEOREM NameIsRead == Spec => []NameSurvives
BY Inductive, InvName, PTL

-----------------------------------------------------------------------------
(* Four bytes in the other order, and two.                                 *)
LEMMA Swapped32 ==
  ASSUME NEW v \in Word32
  PROVE  /\ Host32(changeEndianness32(v)) = Backwards(Host32(v))
         /\ changeEndianness32(changeEndianness32(v)) = v
<1> DEFINE a == ByteAt(v, 1)
           b == ByteAt(v, 256)
           c == ByteAt(v, 65536)
           d == ByteAt(v, 16777216)
           u == changeEndianness32(v)
<1>1. a \in 0 .. 255 /\ b \in 0 .. 255 /\ c \in 0 .. 255 /\ d \in 0 .. 255
  BY WordBounds DEF ByteAt
<1>2. (a + 256 * b) + 65536 * (c + 256 * d) = v
  BY Reads32
<1>3. v % 256 = a
  BY WordBounds DEF ByteAt
<1>4. u = a * 16777216 + b * 65536 + c * 256 + d
  BY <1>3 DEF changeEndianness32, ByteAt
<1>5. Host32(v) = <<a, b, c, d>>
  BY DEF Host32
<1> HIDE DEF a, b, c, d, u
<1>6. u \in Nat /\ u = d + 256 * (c + 256 * (b + 256 * a))
  BY ONLY <1>1, <1>4
<1>7. /\ u \div 256 = c + 256 * (b + 256 * a)
      /\ u \div 65536 = b + 256 * a /\ u \div 16777216 = a
  BY ONLY <1>1, <1>6
<1>8. /\ u % 256 = d /\ (u \div 256) % 256 = c
      /\ (u \div 65536) % 256 = b /\ (u \div 16777216) % 256 = a
  BY ONLY <1>1, <1>6, <1>7
<1>9. Host32(u) = <<d, c, b, a>>
  <2>1. u \div 1 = u
    BY <1>6
  <2> QED BY ONLY <1>8, <2>1 DEF Host32, ByteAt
<1>10. Backwards(<<a, b, c, d>>) = <<d, c, b, a>>
  BY DEF Backwards
<1>11. changeEndianness32(u) = v
  <2>1. changeEndianness32(u) = d * 16777216 + c * 65536 + b * 256 + a
    BY ONLY <1>8 DEF changeEndianness32
  <2> QED BY ONLY <1>1, <1>2, <2>1
<1> QED BY <1>5, <1>9, <1>10, <1>11 DEF u

(* changeEndianness16 mirrors the two bytes.                               *)
LEMMA Swapped16 ==
  ASSUME NEW v \in Nat
  PROVE  Host16(changeEndianness16(v)) = Backwards(Host16(v))
<1> DEFINE a == ByteAt(v, 1)
           b == ByteAt(v, 256)
           u == changeEndianness16(v)
<1>1. a \in 0 .. 255 /\ b \in 0 .. 255 /\ v % 256 = a
  BY DEF ByteAt
<1>2. u = a * 256 + b
  BY <1>1 DEF changeEndianness16, ByteAt
<1>3. Host16(v) = <<a, b>>
  BY DEF Host16
<1> HIDE DEF a, b, u
<1>4. u \in Nat /\ u % 256 = b /\ (u \div 256) % 256 = a
  BY ONLY <1>1, <1>2
<1>5. Host16(u) = <<b, a>>
  BY ONLY <1>4 DEF Host16, ByteAt
<1>6. Backwards(<<a, b>>) = <<b, a>>
  BY DEF Backwards
<1> QED BY <1>3, <1>5, <1>6 DEF u

(* Both routines, for the two blocks of a descriptor.                      *)
LEMMA InvOrders == IInv => BothOrders
<1> SUFFICES ASSUME IInv, NEW value \in {lba, cur_spec_lba}
             PROVE  /\ Host32(changeEndianness32(value))
                         = Backwards(Host32(value))
                    /\ Host16(changeEndianness16(value % 65536))
                         = Backwards(Host16(value % 65536))
                    /\ changeEndianness32(changeEndianness32(value)) = value
  BY DEF BothOrders
<1>1. value \in Word32 /\ value \in Nat
  BY EntryTyped DEF IInv
<1>2. value % 65536 \in Nat
  BY <1>1
<1> QED BY <1>1, <1>2, Swapped32, Swapped16

(* The two orders of every block number of 32 bits, and of its low half,   *)
(* are each other's.                                                       *)
THEOREM OrdersAgree == Spec => []BothOrders
BY Inductive, InvOrders, PTL

=============================================================================
