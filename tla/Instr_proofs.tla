---------------------------- MODULE Instr_proofs ----------------------------
(***************************************************************************)
(* What an instruction may do to the process, for every width of words and *)
(* bytes, every table of blocks and every program.                         *)
(*                                                                         *)
(* The invariant is Inv: the machine is well formed (Typed), the blocks    *)
(* are as large as the checks of an access take them to be unless one has  *)
(* been resized (Sized), and only what a program does with REALLOC, with   *)
(* negative counts or with a full table runs wild (Inside).  One predicate *)
(* says what an outcome of an instruction must be (Good): Typed, Sized and *)
(* Inside again, and with respect to the machine before it Traceless, when *)
(* it raised, and Protected.  There is one lemma per instruction that its  *)
(* outcomes are good, one lemma per piece instructions are made of         *)
(* (Fetching, Put, Store, Blockwise, Moved), and below them the arithmetic *)
(* of words, bytes and bits that says every number stored is a word.       *)
(***************************************************************************)
EXTENDS Instr, WellFoundedInduction, TLAPS

(* Numbers *)

\* A number is a quotient and a remainder.
LEMMA Division ==
  ASSUME NEW d \in Nat \ {0}, NEW n \in Int
  PROVE  /\ n \div d \in Int /\ n % d \in 0 .. d - 1
         /\ n = d * (n \div d) + (n % d)
OBVIOUS

\* The quotient and the remainder are the only ones.
LEMMA DivisionIs ==
  ASSUME NEW d \in Nat \ {0}, NEW q \in Int, NEW r \in 0 .. d - 1
  PROVE  (d * q + r) \div d = q /\ (d * q + r) % d = r
OBVIOUS

\* The provers do not multiply on their own.
LEMMA Product == ASSUME NEW b \in Nat, NEW x \in Nat PROVE b * x \in Nat
OBVIOUS

\* A number of two digits.
LEMMA Composed ==
  ASSUME NEW b \in Nat \ {0}, NEW v \in Nat, NEW r \in 0 .. b - 1, NEW s \in Nat, v < s
  PROVE  /\ b * v + r \in Nat /\ b * v + r \in 0 .. b * s - 1
         /\ (b * v + r) \div b = v /\ (b * v + r) % b = r
<1> DEFINE d == s - v - 1
<1>1. d \in Nat /\ s = v + d + 1
  OBVIOUS
<1>2. b * s = b * v + b * d + b
  <2> HIDE DEF d
  <2> QED BY <1>1
<1>3. b * v \in Nat /\ b * d \in Nat
  BY <1>1, Product
<1>4. b * v + r \in Nat /\ b * v + r \in 0 .. b * s - 1
  <2> DEFINE bv == b * v
             bd == b * d
             bs == b * s
  <2>1. bs = bv + bd + b /\ bv \in Nat /\ bd \in Nat
    BY <1>2, <1>3
  <2> HIDE DEF bv, bd, bs
  <2>2. bv + r \in Nat /\ bv + r \in 0 .. bs - 1
    BY <2>1
  <2> QED BY <2>2 DEF bv, bs
<1>5. (b * v + r) \div b = v /\ (b * v + r) % b = r
  BY DivisionIs
<1> QED BY <1>4, <1>5

\* Dividing by a product is dividing twice.
LEMMA DivTwice ==
  ASSUME NEW n \in Nat, NEW d \in Nat \ {0}, NEW e \in Nat \ {0}
  PROVE  n \div (d * e) = (n \div d) \div e
<1> DEFINE q == n \div d
           r == n % d
           p == q \div e
           s == q % e
<1>1. q \in Int /\ r \in 0 .. d - 1 /\ n = d * q + r
  BY Division
<1>2. p \in Int /\ s \in 0 .. e - 1 /\ q = e * p + s
  BY Division, <1>1
<1> HIDE DEF q, r, p, s
<1>3. n = (d * e) * p + (d * s + r)
  BY <1>1, <1>2
<1>4. d * s + r \in 0 .. d * e - 1
  BY <1>1, <1>2
<1>5. d * e \in Nat \ {0}
  OBVIOUS
<1>6. n \div (d * e) = p
  BY DivisionIs, <1>3, <1>4, <1>5, <1>2
<1> QED BY <1>6 DEF p, q

\* The two laws of powers the assumption states, in a form to cite.
LEMMA PowerOfSum ==
  ASSUME NEW a \in 0 .. Width, NEW b \in 0 .. Width, a + b <= Width
  PROVE  2^(a + b) = 2^a * 2^b
BY PowersAssumption, Zenon

\* A power is a number.
LEMMA PowerOf == ASSUME NEW a \in 0 .. Width PROVE 2^a \in Nat \ {0}
BY PowersAssumption, Zenon

\* How the sizes of words and bytes hang together.
LEMMA Powers ==
  /\ Space \in Nat \ {0} /\ Space \div 2 \in Nat \ {0} /\ Space = 2 * (Space \div 2)
  /\ Bytes \in Nat \ {0} /\ Width = Bytes * ByteWidth
<1>1. 1 \in 0 .. Width /\ Width - 1 \in 0 .. Width /\ 1 + (Width - 1) = Width
  BY SizesAssumption
<1>2. 2^(Width - 1) \in Nat \ {0}
  BY <1>1, PowersAssumption
<1>3. 2^(1 + (Width - 1)) = 2^1 * 2^(Width - 1)
  <2>1. 1 + (Width - 1) <= Width
    BY <1>1, SizesAssumption
  <2> QED BY <1>1, <2>1, PowerOfSum, Zenon
<1>4. Space = 2 * 2^(Width - 1)
  BY <1>1, <1>3, PowersAssumption DEF Space
<1>5. Bytes \in Nat
  BY SizesAssumption DEF Bytes
<1>6. Bytes # 0
  BY <1>5, SizesAssumption
<1> QED BY <1>2, <1>4, <1>5, <1>6, SizesAssumption

\* Whatever wraps is a word, and a word stays as it is.
LEMMA Wrapped ==
  ASSUME NEW n \in Int
  PROVE  Wrap(n) \in Word /\ (n \in Word => Wrap(n) = n)
<1>1. Space \in Nat \ {0}
  BY Powers
<1>2. n % Space \in 0 .. Space - 1
  BY <1>1, Division
<1>3. ASSUME n \in Word PROVE n % Space = n
  <2>1. n \in 0 .. Space - 1
    BY <1>3 DEF Word
  <2>2. (Space * 0 + n) % Space = n
    BY <1>1, <2>1, DivisionIs
  <2> QED BY <1>1, <2>2
<1> QED BY <1>2, <1>3 DEF Wrap, Word
-----------------------------------------------------------------------------
(* Digits *)

Powered(p, b, N) ==
  /\ p \in [0 .. N -> Nat \ {0}] /\ p[0] = 1
  /\ \A k \in 0 .. N - 1 : p[k + 1] = b * p[k]

\* The n digits of w to the base b are those of g.
Written(p, b, n, g, w) ==
  w \in 0 .. p[n] - 1 /\ \A k \in 0 .. n - 1 : (w \div p[k]) % b = g[k]

Expressible(p, b, n) ==
  \A g \in [0 .. n - 1 -> 0 .. b - 1] : \E w : Written(p, b, n, g, w)

\* The powers of b, one after the other.
LEMMA PoweredAt ==
  ASSUME NEW b \in Nat \ {0}, NEW N \in Nat, NEW p, Powered(p, b, N), NEW k \in 0 .. N - 1
  PROVE  p[k + 1] = b * p[k] /\ p[k] \in Nat \ {0} /\ p[k + 1] \in Nat \ {0}
<1>1. k \in 0 .. N /\ k + 1 \in 0 .. N
  OBVIOUS
<1>2. p[k + 1] = b * p[k]
  BY Zenon DEF Powered
<1> QED BY <1>1, <1>2, Zenon DEF Powered

\* A set of numbers that is not empty has a least element.
LEMMA Smallest ==
  ASSUME NEW N \in SUBSET Nat, N # {}
  PROVE  \E n \in N : \A i \in N : n <= i
<1>1. IsWellFoundedOn(OpToRel(<, Nat), Nat)
  BY NatLessThanWellFounded
<1>2. PICK n \in N : \A i \in N : ~ (<<i, n>> \in OpToRel(<, Nat))
  BY <1>1, WFMin
<1>3. \A i \in N : ~ (i < n)
  BY <1>2 DEF OpToRel
<1> QED BY <1>3

\* One digit more, the lowest.
LEMMA DigitMore ==
  ASSUME NEW b \in Nat \ {0}, NEW N \in Nat, NEW p, Powered(p, b, N),
         NEW n \in 0 .. N - 1, Expressible(p, b, n)
  PROVE  Expressible(p, b, n + 1)
<1> SUFFICES ASSUME NEW g \in [0 .. n -> 0 .. b - 1]
             PROVE  \E w : Written(p, b, n + 1, g, w)
  <2>1. (n + 1) - 1 = n
    OBVIOUS
  <2> QED BY <2>1 DEF Expressible
<1> DEFINE h == [k \in 0 .. n - 1 |-> g[k + 1]]
<1>1. h \in [0 .. n - 1 -> 0 .. b - 1]
  OBVIOUS
<1>2. PICK v : Written(p, b, n, h, v)
  BY <1>1 DEF Expressible
<1> DEFINE w == b * v + g[0]
<1>3. p[n + 1] = b * p[n] /\ p[n] \in Nat \ {0}
  BY PoweredAt
<1>4. v \in Nat /\ v < p[n] /\ g[0] \in 0 .. b - 1
  BY <1>2, <1>3 DEF Written
<1>5. w \in Nat /\ w \in 0 .. p[n + 1] - 1 /\ w \div b = v /\ w % b = g[0]
  BY <1>3, <1>4, Composed
<1> HIDE DEF w
<1>6. ASSUME NEW k \in 0 .. n PROVE (w \div p[k]) % b = g[k]
  <2>1. CASE k = 0
    <3>1. p[0] = 1
      BY DEF Powered
    <3>2. w \div 1 = w
      BY <1>5
    <3> QED BY <2>1, <3>1, <3>2, <1>5
  <2>2. CASE k # 0
    <3> DEFINE j == k - 1
    <3>1. j \in 0 .. n - 1 /\ j + 1 = k /\ j \in 0 .. N - 1
      BY <2>2
    <3>2. p[k] = b * p[j] /\ p[j] \in Nat \ {0}
      <4> HIDE DEF j
      <4> QED BY <3>1, PoweredAt
    <3>3. w \div p[k] = v \div p[j]
      <4> HIDE DEF j
      <4>1. w \div (b * p[j]) = (w \div b) \div p[j]
        BY <3>2, <1>5, DivTwice
      <4> QED BY <4>1, <3>2, <1>5
    <3>4. (v \div p[j]) % b = h[j]
      <4> HIDE DEF j, h
      <4> QED BY <1>2, <3>1 DEF Written
    <3>5. h[j] = g[k]
      BY <3>1
    <3> QED BY <3>3, <3>4, <3>5
  <2> QED BY <2>1, <2>2
<1>7. Written(p, b, n + 1, g, w)
  <2>1. (n + 1) - 1 = n
    OBVIOUS
  <2> QED BY <1>5, <1>6, <2>1 DEF Written
<1> QED BY <1>7

\* Every sequence of digits is the one of a number.
LEMMA Digits ==
  ASSUME NEW b \in Nat \ {0}, NEW N \in Nat, NEW p, Powered(p, b, N)
  PROVE  Expressible(p, b, N)
<1> DEFINE Bad == {n \in 0 .. N : ~ Expressible(p, b, n)}
<1>1. CASE Bad = {}
  BY <1>1
<1>2. CASE Bad # {}
  <2>1. PICK n \in Bad : \A i \in Bad : n <= i
    <3>1. Bad \in SUBSET Nat
      OBVIOUS
    <3> HIDE DEF Bad
    <3> QED BY <1>2, <3>1, Smallest
  <2>2. CASE n = 0
    <3>1. Expressible(p, b, 0)
      <4>1. p[0] = 1
        BY DEF Powered
      <4>2. \A g : Written(p, b, 0, g, 0)
        BY <4>1 DEF Written
      <4> QED BY <4>2 DEF Expressible
    <3> QED BY <2>2, <3>1
  <2>3. CASE n # 0
    <3>1. n - 1 \in 0 .. N - 1 /\ n - 1 \notin Bad /\ (n - 1) + 1 = n
      BY <2>1, <2>3
    <3>2. Expressible(p, b, n - 1)
      BY <3>1
    <3>3. Expressible(p, b, (n - 1) + 1)
      <4> HIDE DEF Bad
      <4> QED BY <3>1, <3>2, DigitMore
    <3> QED BY <3>1, <3>3
  <2> QED BY <2>2, <2>3
<1> QED BY <1>1, <1>2

-----------------------------------------------------------------------------
(* Words *)

\* There is a word with the bits XOR, OR and AND ask for.
LEMMA BitwiseWord ==
  ASSUME NEW f \in [0 .. 2 -> 0 .. 1], NEW a \in Word, NEW b \in Word
  PROVE  Bitwise2(f, a, b) \in Word
<1> DEFINE p == [k \in 0 .. Width |-> 2^k]
           g == [k \in 0 .. Width - 1 |-> f[Bit(a, k) + Bit(b, k)]]
<1>1. Width \in Nat
  BY SizesAssumption
<1>2. Powered(p, 2, Width)
  <2>1. p \in [0 .. Width -> Nat \ {0}]
    BY PowersAssumption, Zenon
  <2>2. p[0] = 1
    BY <1>1, PowersAssumption
  <2>3. ASSUME NEW k \in 0 .. Width - 1 PROVE p[k + 1] = 2 * p[k]
    <3>1. /\ 1 \in 0 .. Width /\ k \in 0 .. Width /\ k + 1 \in 0 .. Width
          /\ 1 + k <= Width /\ 1 + k = k + 1
      BY <1>1
    <3>2. 2^(1 + k) = 2^1 * 2^k
      BY <3>1, PowerOfSum, Zenon
    <3>3. 2^(k + 1) = 2 * 2^k
      BY <3>1, <3>2, PowersAssumption
    <3> QED BY <3>1, <3>3
  <2> QED BY <2>1, <2>2, <2>3 DEF Powered
<1>3. g \in [0 .. Width - 1 -> 0 .. 2 - 1]
  <2>1. ASSUME NEW n \in Word, NEW k \in 0 .. Width - 1 PROVE Bit(n, k) \in 0 .. 1
    <3>1. 2^k \in Nat \ {0} /\ n \in Int
      BY <1>1, Powers, PowerOf DEF Word
    <3>2. n \div 2^k \in Int
      BY <3>1, Division
    <3> QED BY <3>2 DEF Bit
  <2>2. ASSUME NEW k \in 0 .. Width - 1 PROVE f[Bit(a, k) + Bit(b, k)] \in 0 .. 2 - 1
    BY <2>1
  <2> QED BY <2>2
<1>4. PICK w : Written(p, 2, Width, g, w)
  <2> HIDE DEF p, g
  <2>1. Expressible(p, 2, Width)
    BY <1>1, <1>2, Digits
  <2> QED BY <2>1, <1>3 DEF Expressible
<1>5. w \in Word
  <2>1. Width \in 0 .. Width
    BY SizesAssumption
  <2>2. p[Width] = 2^Width
    BY <2>1, Zenon
  <2> HIDE DEF p, g
  <2>3. w \in 0 .. p[Width] - 1
    BY <1>4 DEF Written
  <2> QED BY <2>2, <2>3 DEF Word, Space
<1>6. \A k \in 0 .. Width - 1 : Bit(w, k) = f[Bit(a, k) + Bit(b, k)]
  <2> SUFFICES ASSUME NEW k \in 0 .. Width - 1 PROVE Bit(w, k) = f[Bit(a, k) + Bit(b, k)]
    OBVIOUS
  <2>1. (w \div p[k]) % 2 = g[k]
    <3> HIDE DEF p, g
    <3> QED BY <1>4 DEF Written
  <2>2. k \in 0 .. Width
    BY SizesAssumption
  <2>3. p[k] = 2^k /\ g[k] = f[Bit(a, k) + Bit(b, k)]
    BY <2>2, Zenon
  <2> QED BY <2>1, <2>3, Zenon DEF Bit
<1> QED BY <1>5, <1>6 DEF Bitwise2

\* The place of a byte in its word.
LEMMA ByteNumbers ==
  ASSUME NEW k \in 0 .. Bytes - 1
  PROVE  /\ ByteWidth \in 0 .. Width
         /\ ByteWidth * k \in 0 .. Width /\ ByteWidth * (k + 1) \in 0 .. Width
         /\ ByteWidth + ByteWidth * k = ByteWidth * (k + 1)
         /\ 2^(ByteWidth * (k + 1)) = 2^ByteWidth * 2^(ByteWidth * k)
         /\ 2^ByteWidth \in Nat \ {0} /\ 2^(ByteWidth * k) \in Nat \ {0}
         /\ 2^(ByteWidth * (k + 1)) \in Nat \ {0}
         /\ Space = 2^(ByteWidth * (k + 1)) * 2^(Width - ByteWidth * (k + 1))
         /\ 2^(Width - ByteWidth * (k + 1)) \in Nat \ {0}
<1>1. /\ ByteWidth \in Nat \ {0} /\ Bytes \in Nat \ {0} /\ Width = ByteWidth * Bytes
      /\ Width \in Nat
  BY Powers, SizesAssumption
<1> DEFINE e == Bytes - (k + 1)
           r == Width - ByteWidth * (k + 1)
<1>2. e \in Nat /\ Bytes = (k + 1) + e
  BY <1>1
<1>3. Width = ByteWidth * (k + 1) + ByteWidth * e
  <2> HIDE DEF e
  <2> QED BY <1>1, <1>2
<1>4. ByteWidth * (k + 1) = ByteWidth * k + ByteWidth
  BY <1>1
<1>5. ByteWidth * e \in Nat /\ ByteWidth * k \in Nat
  BY <1>1, <1>2, Product
<1>6. /\ ByteWidth \in 0 .. Width /\ ByteWidth * k \in 0 .. Width
      /\ ByteWidth * (k + 1) \in 0 .. Width /\ r \in 0 .. Width
      /\ ByteWidth + ByteWidth * k <= Width
      /\ ByteWidth * (k + 1) + r <= Width /\ ByteWidth * (k + 1) + r = Width
      /\ ByteWidth + ByteWidth * k = ByteWidth * (k + 1)
  <2> DEFINE a == ByteWidth * (k + 1)
             b == ByteWidth * e
             c == ByteWidth * k
  <2>1. Width = a + b /\ a = c + ByteWidth /\ b \in Nat /\ c \in Nat /\ ByteWidth \in Nat
    BY <1>1, <1>3, <1>4, <1>5
  <2>2. r = Width - a
    OBVIOUS
  <2> HIDE DEF a, b, c, r
  <2>3. /\ ByteWidth \in 0 .. Width /\ c \in 0 .. Width /\ a \in 0 .. Width /\ r \in 0 .. Width
        /\ ByteWidth + c <= Width /\ a + r <= Width /\ a + r = Width /\ ByteWidth + c = a
    BY <2>1, <2>2
  <2> QED BY <2>3 DEF a, c
<1> HIDE DEF r
<1>7. 2^(ByteWidth + ByteWidth * k) = 2^ByteWidth * 2^(ByteWidth * k)
  BY <1>6, PowerOfSum, Zenon
<1>8. 2^(ByteWidth * (k + 1) + r) = 2^(ByteWidth * (k + 1)) * 2^r
  BY <1>6, PowerOfSum, Zenon
<1>9. /\ 2^ByteWidth \in Nat \ {0} /\ 2^(ByteWidth * k) \in Nat \ {0}
      /\ 2^(ByteWidth * (k + 1)) \in Nat \ {0} /\ 2^r \in Nat \ {0}
  BY <1>6, PowersAssumption, Zenon
<1>10. Space = 2^(ByteWidth * (k + 1)) * 2^r
  BY <1>6, <1>8, Zenon DEF Space
<1>11. 2^(ByteWidth * (k + 1)) = 2^ByteWidth * 2^(ByteWidth * k)
  BY <1>6, <1>7, Zenon
<1> QED BY <1>6, <1>9, <1>10, <1>11, Zenon DEF r

\* There is a word with the bytes of another in the other order.
LEMMA SwappedWord ==
  ASSUME NEW w \in Word
  PROVE  Swapped(w) \in Word
<1> DEFINE b == 2^ByteWidth
           p == [k \in 0 .. Bytes |-> 2^(ByteWidth * k)]
           g == [k \in 0 .. Bytes - 1 |-> Byte(w, Bytes - 1 - k)]
<1>1. Bytes \in Nat \ {0} /\ ByteWidth \in Nat \ {0} /\ Width = ByteWidth * Bytes
  BY Powers, SizesAssumption
<1>2. b \in Nat \ {0}
  BY <1>1, ByteNumbers
<1>3. ASSUME NEW k \in 0 .. Bytes PROVE 2^(ByteWidth * k) \in Nat \ {0}
  <2>1. CASE k = 0
    BY <1>1, <2>1, PowersAssumption
  <2>2. CASE k # 0
    <3>1. k - 1 \in 0 .. Bytes - 1 /\ (k - 1) + 1 = k
      BY <1>1, <2>2
    <3>2. 2^(ByteWidth * ((k - 1) + 1)) \in Nat \ {0}
      BY <3>1, ByteNumbers, Zenon
    <3> QED BY <3>1, <3>2, Zenon
  <2> QED BY <2>1, <2>2
<1>4. Powered(p, b, Bytes)
  <2>1. p \in [0 .. Bytes -> Nat \ {0}]
    BY <1>3, Zenon
  <2>2. p[0] = 1
    <3>1. 0 \in 0 .. Bytes /\ ByteWidth * 0 = 0
      BY <1>1
    <3> QED BY <3>1, PowersAssumption
  <2>3. ASSUME NEW k \in 0 .. Bytes - 1 PROVE p[k + 1] = b * p[k]
    <3>1. k \in 0 .. Bytes /\ k + 1 \in 0 .. Bytes
      BY <1>1
    <3>2. p[k + 1] = 2^(ByteWidth * (k + 1)) /\ p[k] = 2^(ByteWidth * k)
      BY <3>1, Zenon
    <3> QED BY <3>2, ByteNumbers
  <2> QED BY <2>1, <2>2, <2>3 DEF Powered
<1>5. ASSUME NEW k \in 0 .. Bytes - 1 PROVE Byte(w, k) \in 0 .. b - 1
  <2>1. 2^(ByteWidth * k) \in Nat \ {0} /\ w \in Int
    BY Powers, ByteNumbers DEF Word
  <2>2. w \div 2^(ByteWidth * k) \in Int
    BY <2>1, Division
  <2> HIDE DEF b
  <2>3. (w \div 2^(ByteWidth * k)) % b \in 0 .. b - 1
    BY <2>2, <1>2, Division
  <2> QED BY <2>3 DEF Byte, b
<1>6. g \in [0 .. Bytes - 1 -> 0 .. b - 1]
  <2> HIDE DEF b
  <2>1. ASSUME NEW k \in 0 .. Bytes - 1 PROVE Byte(w, Bytes - 1 - k) \in 0 .. b - 1
    <3>1. Bytes - 1 - k \in 0 .. Bytes - 1
      BY <1>1
    <3> QED BY <3>1, <1>5
  <2> QED BY <2>1, Zenon
<1>7. PICK v : Written(p, b, Bytes, g, v)
  <2> HIDE DEF p, g, b
  <2>1. Expressible(p, b, Bytes)
    BY <1>1, <1>2, <1>4, Digits
  <2> QED BY <2>1, <1>6 DEF Expressible
<1>8. v \in Word
  <2>1. v \in 0 .. p[Bytes] - 1
    BY <1>7 DEF Written
  <2>2. Bytes \in 0 .. Bytes
    BY <1>1
  <2>3. p[Bytes] = Space
    BY <2>2, <1>1, Zenon DEF Space
  <2> QED BY <2>1, <2>3 DEF Word
<1>9. \A k \in 0 .. Bytes - 1 : Byte(v, k) = Byte(w, Bytes - 1 - k)
  <2> SUFFICES ASSUME NEW k \in 0 .. Bytes - 1 PROVE Byte(v, k) = Byte(w, Bytes - 1 - k)
    OBVIOUS
  <2>1. (v \div p[k]) % b = g[k]
    <3> HIDE DEF p, g, b
    <3> QED BY <1>7 DEF Written
  <2>2. k \in 0 .. Bytes
    BY <1>1
  <2>3. p[k] = 2^(ByteWidth * k)
    BY <2>2, Zenon
  <2>4. g[k] = Byte(w, Bytes - 1 - k)
    BY Zenon
  <2>5. Byte(v, k) = (v \div p[k]) % b
    BY <2>3, Zenon DEF Byte
  <2> QED BY <2>1, <2>4, <2>5, Zenon
<1> QED BY <1>8, <1>9, Zenon DEF Swapped

\* The quotient of a number below d * s is below s.
LEMMA DivLess ==
  ASSUME NEW d \in Nat \ {0}, NEW n \in Nat, NEW s \in Nat, n < d * s
  PROVE  n \div d \in Nat /\ n \div d < s
<1> DEFINE q == n \div d
           r == n % d
<1>1. q \in Int /\ r \in 0 .. d - 1 /\ n = d * q + r
  BY Division
<1>2. q \in Nat
  OBVIOUS
<1> HIDE DEF q, r
<1>3. ASSUME ~ (q < s) PROVE FALSE
  <2> DEFINE e == q - s
  <2>1. e \in Nat /\ q = s + e
    BY <1>1, <1>3
  <2> HIDE DEF e
  <2>2. d * q = d * s + d * e /\ d * e \in Nat
    BY <2>1, Product
  <2> QED BY <2>2, <1>1
<1> QED BY <1>2, <1>3 DEF q

\* A byte of a word is a byte.
LEMMA ByteIs ==
  ASSUME NEW w \in Word, NEW k \in 0 .. Bytes - 1
  PROVE  Byte(w, k) \in 0 .. 2^ByteWidth - 1
<1>1. 2^(ByteWidth * k) \in Nat \ {0} /\ 2^ByteWidth \in Nat \ {0} /\ w \in Int
  BY Powers, ByteNumbers DEF Word
<1>2. w \div 2^(ByteWidth * k) \in Int
  BY <1>1, Division
<1> QED BY <1>1, <1>2, Division DEF Byte

\* A word with one byte replaced is a word.
LEMMA SetByteWord ==
  ASSUME NEW w \in Word, NEW k \in 0 .. Bytes - 1, NEW b \in 0 .. 2^ByteWidth - 1
  PROVE  SetByte(w, k, b) \in Word
<1> DEFINE B1 == 2^ByteWidth
           P == 2^(ByteWidth * k)
           R == 2^(Width - ByteWidth * (k + 1))
           h == w \div P
           l == w % P
           t == h \div B1
           d == h % B1
<1>1. /\ B1 \in Nat \ {0} /\ P \in Nat \ {0} /\ R \in Nat \ {0}
      /\ Space = 2^(ByteWidth * (k + 1)) * R /\ 2^(ByteWidth * (k + 1)) = B1 * P
  BY ByteNumbers
<1>2. w \in Nat /\ w < Space
  BY Powers DEF Word
<1>3. SetByte(w, k, b) = w + (b - d) * P
  BY DEF SetByte, Byte
<1>4. b \in 0 .. B1 - 1
  OBVIOUS
<1> HIDE DEF B1, P, R
<1>5. Space = P * (B1 * R) /\ B1 * R \in Nat
  BY <1>1
<1>6. h \in Nat /\ h < B1 * R
  BY <1>1, <1>2, <1>5, DivLess
<1>7. l \in 0 .. P - 1 /\ w = P * h + l
  <2>1. w \in Int
    BY <1>2
  <2> QED BY <1>1, <2>1, Division, Zenon DEF h, l
<1> HIDE DEF h, l
<1>8. t \in Nat /\ t < R
  BY <1>1, <1>6, DivLess
<1>9. d \in 0 .. B1 - 1 /\ h = B1 * t + d
  <2>1. h \in Int
    BY <1>6
  <2> QED BY <1>1, <2>1, Division, Zenon DEF t, d
<1> HIDE DEF t, d
<1>10. B1 * t + b \in Nat /\ B1 * t + b \in 0 .. B1 * R - 1
  BY <1>1, <1>4, <1>8, Composed
<1>11. P * (B1 * t + b) + l \in 0 .. Space - 1
  <2> DEFINE v == B1 * t + b
             s == B1 * R
  <2>1. v \in Nat /\ v < s /\ s \in Nat /\ Space = P * s
    BY <1>10, <1>5
  <2> HIDE DEF v, s
  <2>2. P * v + l \in 0 .. P * s - 1
    BY <2>1, <1>1, <1>7, Composed
  <2> QED BY <2>1, <2>2 DEF v
<1>12. w + (b - d) * P = P * (B1 * t + b) + l
  <2> DEFINE x == B1 * t
  <2>1. x \in Nat
    BY <1>1, <1>8, Product
  <2>2. w = P * (x + d) + l
    BY <1>7, <1>9
  <2> HIDE DEF x
  <2>3. w = P * x + P * d + l
    BY <2>1, <2>2, <1>1, <1>9, <1>7
  <2>4. P * (x + b) + l = P * x + P * b + l
    BY <2>1, <1>1, <1>4, <1>7
  <2>5. (b - d) * P = P * b - P * d
    BY <1>1, <1>4, <1>9
  <2>6. /\ P * x \in Int /\ P * b \in Int /\ P * d \in Int
    BY <2>1, <1>1, <1>4, <1>9
  <2>7. w + (b - d) * P = P * (x + b) + l
    <3> DEFINE Px == P * x
               Pb == P * b
               Pd == P * d
               e == (b - d) * P
               f == P * (x + b)
    <3>1. /\ w = Px + Pd + l /\ f + l = Px + Pb + l /\ e = Pb - Pd
          /\ Px \in Int /\ Pb \in Int /\ Pd \in Int /\ l \in Int
      BY <2>3, <2>4, <2>5, <2>6, <1>7
    <3> HIDE DEF Px, Pb, Pd, e, f
    <3>2. w + e = f + l
      BY <3>1
    <3> QED BY <3>2 DEF e, f
  <2> QED BY <2>7 DEF x
<1> QED BY <1>3, <1>11, <1>12 DEF Word

\* A byte is a word.
LEMMA ByteWord ==
  ASSUME NEW b \in 0 .. 2^ByteWidth - 1
  PROVE  b \in Word
<1> DEFINE p == 2^ByteWidth
           q == 2^(Width - ByteWidth)
<1>1. 0 \in 0 .. Bytes - 1 /\ ByteWidth * (0 + 1) = ByteWidth
  BY Powers, SizesAssumption
<1>2. p \in Nat \ {0} /\ q \in Nat \ {0} /\ Space = p * q
  BY <1>1, ByteNumbers
<1>3. b \in 0 .. p - 1
  OBVIOUS
<1> HIDE DEF p, q
<1>4. p * q = p + p * (q - 1) /\ p * (q - 1) \in Nat
  <2>1. q - 1 \in Nat
    BY <1>2
  <2>2. p * (q - 1) \in Nat
    BY <1>2, <2>1, Product
  <2> QED BY <1>2, <2>2
<1> QED BY <1>2, <1>3, <1>4 DEF Word

\* A byte widened with its sign is a word.
LEMMA CharWord ==
  ASSUME NEW b \in 0 .. 2^ByteWidth - 1
  PROVE  CharToInt(b) \in Word
<1>1. 0 \in 0 .. Bytes - 1
  BY Powers
<1>2. 2^ByteWidth \in Nat
  BY <1>1, ByteNumbers
<1>3. (IF b < 2^(ByteWidth - 1) THEN b ELSE b - 2^ByteWidth) \in Int
  BY <1>2
<1> QED BY <1>3, Wrapped DEF CharToInt

\* A word is a number.
LEMMA WordInt == \A w \in Word : w \in Int
BY Powers DEF Word

\* The int of a word.
LEMMA SignedInt ==
  ASSUME NEW w \in Word
  PROVE  Signed(w) \in Int /\ (Signed(w) >= 0 => Signed(w) = w)
BY Powers DEF Signed, Word

\* C divides ints into ints.
LEMMA QuotientInt ==
  ASSUME NEW a \in Int, NEW b \in Int, b # 0
  PROVE  Quotient(a, b) \in Int /\ Remainder(a, b) \in Int
<1>1. Abs(a) \in Int /\ Abs(b) \in Nat \ {0}
  BY DEF Abs
<1>2. Abs(a) \div Abs(b) \in Int
  BY <1>1, Division
<1>3. Quotient(a, b) \in Int
  BY <1>2 DEF Quotient
<1> QED BY <1>3 DEF Remainder

-----------------------------------------------------------------------------
(* The machine *)

Regs == [0 .. Registers - 1 -> Word]
Words == UNION {[0 .. n - 1 -> Word] : n \in 0 .. Space}
Blocks == [used : BOOLEAN, given : 0 .. Space, size : Nat, flags : SUBSET Flags, words : Words]
Stacks == [base : Word, size : Word, ptr : Word]
Tables == [Slots -> Blocks]
Changes == 0 .. 2
Dmsizes == {MemGrow, 2 * MemGrow}
Statuses == {"runs", "wild", "killed"}
Truths == BOOLEAN
Machines ==
  [u : Regs, s : Regs, mem : Tables, dmsiz : Dmsizes, stack : Stacks, change : Changes,
   raised : Truths, status : Statuses, resized : Truths, negative : Truths, grown : Truths]

\* A block has the words the C library gave.
Fits(b) == b.words \in [0 .. b.given - 1 -> Word]

\* The accesses the checks let through stay inside, and an int counts the
\* bytes of a block.
Covered(b) == b.used => b.size <= b.given /\ b.size * Bytes < Space \div 2

\* Only who has outgrown the table takes it for larger than it is.
Spans(r) == r.dmsiz = MemGrow \/ r.grown

Typed(r) ==
  /\ r \in Machines
  /\ \A x \in Slots : Fits(r.mem[x])
  /\ r.stack.ptr <= r.stack.size
  /\ Spans(r)

Sized(r) == r.resized \/ \A x \in Slots : Covered(r.mem[x])

Inside(r) == r.status = "wild" => r.resized \/ r.negative \/ r.grown

Traceless(r) ==
  r.raised =>
    /\ r = [m EXCEPT !.raised = TRUE, !.change = 0, !.u[0] = ErrorCode,
                     !.dmsiz = r.dmsiz, !.grown = m.grown \/ r.dmsiz # m.dmsiz,
                     !.stack.ptr = r.stack.ptr]
    /\ Abs(r.stack.ptr - m.stack.ptr) <= 1
    /\ r.dmsiz # m.dmsiz => \A x \in Slots : m.mem[x].used

Guarded(b, c) ==
  b.used /\ c.used =>
    /\ "strict" \in b.flags => c.flags = b.flags
    /\ "write" \notin b.flags =>
         \A k \in DOMAIN b.words \cap DOMAIN c.words : c.words[k] = b.words[k]

Protected(r) == \A x \in Slots : Guarded(m.mem[x], r.mem[x])

\* An outcome of an instruction of m as it should be.
Good(r) == Typed(r) /\ Sized(r) /\ Inside(r) /\ Traceless(r) /\ Protected(r)

\* A process that runs.
Running == Typed(m) /\ Sized(m) /\ m.status = "runs"

\* An outcome that leaves memory alone and did not raise.
Calm(r) ==
  /\ r \in Machines /\ r.mem = m.mem /\ r.resized = m.resized /\ r.raised = FALSE
  /\ r.stack.ptr <= r.stack.size /\ Spans(r)

\* The sets the fields of a machine come from are kept closed for the provers.
LEMMA Values ==
  /\ TRUE \in Truths /\ FALSE \in Truths /\ Truths = BOOLEAN
  /\ 0 \in Changes /\ 1 \in Changes /\ 2 \in Changes
  /\ "runs" \in Statuses /\ "wild" \in Statuses /\ "killed" \in Statuses
BY DEF Truths, Changes, Statuses

\* An outcome that neither raised nor touched memory is good.
LEMMA CalmIsGood ==
  ASSUME Running, NEW r, Calm(r), Inside(r)
  PROVE  Good(r)
<1>1. Typed(r) /\ Sized(r)
  BY DEF Running, Typed, Sized, Calm
<1>2. Traceless(r)
  BY DEF Traceless, Calm
<1>3. Protected(r)
  BY DEF Protected, Guarded, Calm
<1> QED BY <1>1, <1>2, <1>3 DEF Good

\* do_cycles has begun an instruction: nothing has happened yet.
LEMMA BegunIs ==
  ASSUME Running
  PROVE  /\ Calm(Begun) /\ Begun.status = "runs"
         /\ Begun.u = m.u /\ Begun.s = m.s /\ Begun.stack = m.stack
         /\ Begun.negative = m.negative /\ Begun.grown = m.grown /\ Begun.dmsiz = m.dmsiz
<1>1. m \in Machines /\ m.status = "runs" /\ m.stack.ptr <= m.stack.size /\ Spans(m)
  BY DEF Running, Typed
<1>2. Begun \in Machines
  BY <1>1, Values DEF Machines, Begun
<1>3. /\ Begun.mem = m.mem /\ Begun.resized = m.resized /\ Begun.raised = FALSE
      /\ Begun.stack = m.stack /\ Begun.status = m.status
      /\ Begun.u = m.u /\ Begun.s = m.s
      /\ Begun.negative = m.negative /\ Begun.grown = m.grown /\ Begun.dmsiz = m.dmsiz
  BY <1>1 DEF Machines, Begun
<1> QED BY <1>1, <1>2, <1>3 DEF Calm, Spans

\* An exception, raised before anything was changed.
LEMMA RaiseIsGood ==
  ASSUME Running
  PROVE  /\ Good(Raise) /\ Raise.stack = m.stack /\ Raise.dmsiz = m.dmsiz
         /\ Raise.grown = m.grown
<1>1. ErrorCode \in Word /\ 0 \in 0 .. Registers - 1
  BY SizesAssumption
<1>2. Raise \in Machines /\ Raise.mem = m.mem /\ Raise.resized = m.resized
      /\ Raise.status = "runs" /\ Raise.stack = m.stack
      /\ Raise.dmsiz = m.dmsiz /\ Raise.grown = m.grown
  <2>1. m \in Machines /\ m.status = "runs" /\ m.u \in Regs
    BY DEF Running, Typed, Machines
  <2>2. [m.u EXCEPT ![0] = ErrorCode] \in Regs
    BY <1>1, <2>1 DEF Regs
  <2>3. Raise \in Machines
    BY <2>1, <2>2, Values DEF Machines, Raise
  <2>4. /\ Raise.mem = m.mem /\ Raise.resized = m.resized
        /\ Raise.status = "runs" /\ Raise.stack = m.stack
        /\ Raise.dmsiz = m.dmsiz /\ Raise.grown = m.grown
    BY <2>1 DEF Machines, Raise
  <2> QED BY <2>3, <2>4
<1>3. Typed(Raise) /\ Sized(Raise) /\ Inside(Raise)
  BY <1>2 DEF Running, Typed, Sized, Inside, Spans
<1>4. Protected(Raise)
  BY <1>2 DEF Protected, Guarded
<1>5. Traceless(Raise)
  <2>1. m.stack.ptr \in Int
    BY Powers DEF Running, Typed, Machines, Stacks, Word
  <2>2. Abs(Raise.stack.ptr - m.stack.ptr) <= 1
    BY <1>2, <2>1 DEF Abs
  <2>3. Raise = [Raise EXCEPT !.dmsiz = Raise.dmsiz,
                              !.grown = Raise.grown, !.stack.ptr = Raise.stack.ptr]
    BY <1>2 DEF Machines, Stacks
  <2>4. (m.grown \/ Raise.dmsiz # m.dmsiz) = Raise.grown
    BY <1>2 DEF Running, Typed, Machines, Truths
  <2>5. Raise = [m EXCEPT !.raised = TRUE, !.change = 0, !.u[0] = ErrorCode,
                         !.dmsiz = Raise.dmsiz, !.grown = m.grown \/ Raise.dmsiz # m.dmsiz,
                         !.stack.ptr = Raise.stack.ptr]
    BY <2>3, <2>4 DEF Raise
  <2> QED BY <1>2, <2>2, <2>5 DEF Traceless
<1> QED BY <1>2, <1>3, <1>4, <1>5 DEF Good

\* Running wild is allowed for after the three exceptions only.
LEMMA WildIsGood ==
  ASSUME Running, m.resized \/ m.negative \/ m.grown
  PROVE  Good(GoesWild) /\ GoesWild.stack = m.stack
<1>1. Calm(GoesWild) /\ Inside(GoesWild) /\ GoesWild.stack = m.stack
  BY BegunIs, Values DEF Calm, Machines, GoesWild, Inside, Spans
<1> QED BY <1>1, CalmIsGood

\* A process killed by SIGFPE.
LEMMA KilledIsGood ==
  ASSUME Running
  PROVE  Good(Killed)
<1>1. Calm(Killed) /\ Inside(Killed)
  BY BegunIs, Values DEF Calm, Machines, Killed, Inside, Spans
<1> QED BY <1>1, CalmIsGood

-----------------------------------------------------------------------------
(* Accesses *)

\* The slot of an address and the place in its block.
LEMMA SlotOf ==
  ASSUME NEW a \in Word, Slot(a) < MemGrow
  PROVE  /\ Slot(a) \in Slots /\ a \in Nat /\ Base(Slot(a)) \in Nat
         /\ a - Base(Slot(a)) \in 0 .. MaxAlloc + 1
         /\ a < MemGrow * (2 + MaxAlloc)
<1> DEFINE d == 2 + MaxAlloc
<1>1. d \in Nat \ {0} /\ MemGrow \in Nat /\ a \in Nat
  BY SizesAssumption, Powers DEF Word
<1> HIDE DEF d
<1>2. a \div d \in Nat /\ a % d \in 0 .. d - 1
  BY <1>1
<1>3. a = d * (a \div d) + (a % d)
  <2>1. a \in Int
    BY <1>1
  <2> QED BY <1>1, <2>1, Division, Zenon
<1>4. Slot(a) = a \div d /\ Base(Slot(a)) = (a \div d) * d
  BY Zenon DEF d, Slot, Base
<1> DEFINE q == a \div d
           r == a % d
<1>5. q \in Nat /\ r \in 0 .. d - 1 /\ a = d * q + r /\ Slot(a) = q /\ Base(Slot(a)) = q * d
  BY <1>2, <1>3, <1>4
<1> HIDE DEF q, r
<1>6. q * d = d * q /\ d * q \in Nat
  BY <1>1, <1>5, Product
<1>7. a < MemGrow * d
  <2>1. d * q + r \in 0 .. d * MemGrow - 1
    BY <1>1, <1>5, Composed
  <2> QED BY <2>1, <1>1, <1>5
<1>8. q \in Slots /\ a - q * d \in 0 .. d - 1
  BY <1>1, <1>5, <1>6 DEF Slots
<1> QED BY <1>1, <1>5, <1>6, <1>7, <1>8, SizesAssumption DEF d

\* What a running process knows of a block.
LEMMA BlockAt ==
  ASSUME Running, NEW x \in Slots
  PROVE  /\ m.mem[x] \in Blocks /\ m.mem[x].size \in Nat /\ m.mem[x].given \in Nat
         /\ m.mem[x].words \in [0 .. m.mem[x].given - 1 -> Word]
         /\ m.resized \/ Covered(m.mem[x])
<1>1. m.mem \in Tables
  BY DEF Running, Typed, Machines
<1>2. m.mem[x] \in Blocks
  BY <1>1 DEF Tables
<1>3. m.mem[x].size \in Nat /\ m.mem[x].given \in Nat
  BY <1>2, Powers DEF Blocks
<1>4. Fits(m.mem[x]) /\ (m.resized \/ Covered(m.mem[x]))
  BY DEF Running, Typed, Sized
<1> QED BY <1>2, <1>3, <1>4 DEF Fits

\* One word that the checks let through is inside, unless a block has been
\* resized.
LEMMA AllowedIs ==
  ASSUME Running, NEW a \in Word, NEW fl, Allows(a, 1, fl)
  PROVE  /\ Slot(a) < MemGrow /\ Slot(a) \in Slots /\ fl \in m.mem[Slot(a)].flags
         /\ ~ m.resized => Within(a, 1)
<1>1. Slot(a) < MemGrow
  BY DEF Allows
<1>2. /\ Slot(a) \in Slots /\ a \in Nat /\ Base(Slot(a)) \in Nat
      /\ a - Base(Slot(a)) \in 0 .. MaxAlloc + 1
  BY <1>1, SlotOf
<1>3. Wrap(a + 1 - 1) = a
  <2>1. a + 1 - 1 = a
    BY <1>2
  <2>2. a \in Int
    BY <1>2
  <2> QED BY <2>1, <2>2, Wrapped
<1>4. /\ m.mem[Slot(a)].used /\ fl \in m.mem[Slot(a)].flags
      /\ Base(Slot(a)) + m.mem[Slot(a)].size > a
  BY <1>3 DEF Allows
<1>5. ASSUME ~ m.resized PROVE Within(a, 1)
  <2>1. /\ m.mem[Slot(a)].size \in Nat /\ m.mem[Slot(a)].given \in Nat
        /\ Covered(m.mem[Slot(a)])
    BY <1>2, <1>5, BlockAt
  <2>2. m.mem[Slot(a)].size <= m.mem[Slot(a)].given
    BY <1>4, <2>1 DEF Covered
  <2> QED BY <1>2, <1>4, <2>1, <2>2 DEF Within
<1> QED BY <1>1, <1>2, <1>4, <1>5

\* Only who has outgrown the table looks past its end.
LEMMA BeyondIs ==
  ASSUME Running, NEW x \in Int, Beyond(x)
  PROVE  m.grown
BY SizesAssumption DEF Running, Typed, Spans, Beyond

\* The slot of an address is a number.
LEMMA SlotInt ==
  ASSUME NEW a \in Word
  PROVE  Slot(a) \in Int
<1>1. a \in Int /\ 2 + MaxAlloc \in Nat \ {0}
  BY SizesAssumption, WordInt
<1> QED BY <1>1, Division DEF Slot

\* What strays from its block, or past the table, is allowed for.
LEMMA StraysIs ==
  ASSUME Running, NEW a \in Word, NEW fl, Strays(a, fl)
  PROVE  m.resized \/ m.grown
<1>1. CASE Beyond(Slot(a))
  BY <1>1, SlotInt, BeyondIs
<1>2. CASE Allows(a, 1, fl) /\ ~ Within(a, 1)
  BY <1>2, AllowedIs
<1> QED BY <1>1, <1>2 DEF Strays

\* A word that is inside its block is there.
LEMMA RawWord ==
  ASSUME Running, NEW a \in Word, Slot(a) < MemGrow, Within(a, 1)
  PROVE  /\ Raw(a) \in Word
         /\ a - Base(Slot(a)) \in 0 .. m.mem[Slot(a)].given - 1
<1>1. /\ Slot(a) \in Slots /\ a \in Nat /\ Base(Slot(a)) \in Nat
      /\ a - Base(Slot(a)) \in 0 .. MaxAlloc + 1
  BY SlotOf
<1>2. /\ m.mem[Slot(a)].given \in Nat
      /\ m.mem[Slot(a)].words \in [0 .. m.mem[Slot(a)].given - 1 -> Word]
  BY <1>1, BlockAt
<1>3. a - Base(Slot(a)) \in 0 .. m.mem[Slot(a)].given - 1
  BY <1>1, <1>2 DEF Within
<1> QED BY <1>2, <1>3 DEF Raw

\* A word in the byte order of the block is a word.
LEMMA InOrderWord ==
  ASSUME NEW x, NEW w \in Word
  PROVE  InOrder(x, w) \in Word
BY SwappedWord DEF InOrder

Readable(a) == Allows(a, 1, "read") /\ Within(a, 1)

\* What get_mem_value answers when it does not raise.
LEMMA ContentWord ==
  ASSUME Running, NEW a \in Word, Readable(a)
  PROVE  Content(a) \in Word
<1>1. Slot(a) < MemGrow /\ Within(a, 1)
  BY AllowedIs DEF Readable
<1> QED BY <1>1, RawWord, InOrderWord DEF Content

\* A fetch raises, is wild after a block was resized, or all is readable.
LEMMA FetchAtIsGood ==
  ASSUME Running, NEW addrs, addrs \subseteq Word, NEW done,
         (\A a \in addrs : Readable(a)) => Good(done)
  PROVE  Good(FetchingAt(addrs, done))
<1>1. CASE \E a \in addrs : Strays(a, "read")
  <2>1. m.resized \/ m.grown
    BY <1>1, StraysIs
  <2>2. FetchingAt(addrs, done) = GoesWild
    BY <1>1 DEF FetchingAt
  <2> QED BY <2>1, <2>2, WildIsGood
<1>2. CASE /\ ~ (\E a \in addrs : Strays(a, "read"))
           /\ \E a \in addrs : ~ Allows(a, 1, "read")
  <2>1. FetchingAt(addrs, done) = Raise
    BY <1>2 DEF FetchingAt
  <2> QED BY <2>1, RaiseIsGood
<1>3. CASE /\ ~ (\E a \in addrs : Strays(a, "read"))
           /\ ~ (\E a \in addrs : ~ Allows(a, 1, "read"))
  <2>1. FetchingAt(addrs, done) = done
    BY <1>3 DEF FetchingAt
  <2>2. \A a \in addrs : Readable(a)
    BY <1>3 DEF Readable, Strays
  <2> QED BY <2>1, <2>2
<1> QED BY <1>1, <1>2, <1>3

\* A block is replaced.
Changed(r, x, b) ==
  /\ r \in Machines /\ r.mem = [m.mem EXCEPT ![x] = b] /\ r.raised = FALSE
  /\ r.stack.ptr <= r.stack.size /\ Spans(r)
  /\ r.resized \/ (~ m.resized /\ Covered(b))

\* A block may be replaced by one that keeps what is protected.
LEMMA ChangedIsGood ==
  ASSUME Running, NEW x \in Slots, NEW b \in Blocks, Fits(b), Guarded(m.mem[x], b),
         NEW r, Changed(r, x, b), Inside(r)
  PROVE  Good(r)
<1>1. m.mem \in Tables
  BY DEF Running, Typed, Machines
<1>2. \A y \in Slots : r.mem[y] = IF y = x THEN b ELSE m.mem[y]
  BY <1>1 DEF Tables, Changed
<1>3. Typed(r)
  <2>1. \A y \in Slots : Fits(r.mem[y])
    BY <1>2 DEF Running, Typed
  <2> QED BY <2>1 DEF Typed, Changed
<1>4. Sized(r)
  BY <1>2 DEF Running, Sized, Changed
<1>5. Protected(r)
  <2>1. \A y \in Slots : Guarded(m.mem[y], m.mem[y])
    BY DEF Guarded
  <2> QED BY <1>2, <2>1 DEF Protected
<1>6. Traceless(r)
  BY DEF Traceless, Changed
<1> QED BY <1>3, <1>4, <1>5, <1>6 DEF Good

\* New words for a block that has the flag for writing.
LEMMA SameBlock ==
  ASSUME Running, NEW x \in Slots, "write" \in m.mem[x].flags,
         NEW v \in [0 .. m.mem[x].given - 1 -> Word]
  PROVE  LET b == [m.mem[x] EXCEPT !.words = v]
         IN  b \in Blocks /\ Fits(b) /\ Guarded(m.mem[x], b) /\ (m.resized \/ Covered(b))
<1> DEFINE o == m.mem[x]
           b == [o EXCEPT !.words = v]
<1>1. o \in Blocks /\ o.given \in 0 .. Space /\ (m.resized \/ Covered(o))
  BY BlockAt DEF Blocks
<1>2. v \in Words
  BY <1>1 DEF Words
<1> HIDE DEF o
<1>3. b \in Blocks
  BY <1>1, <1>2 DEF Blocks
<1>4. b.used = o.used /\ b.given = o.given /\ b.size = o.size /\ b.flags = o.flags /\ b.words = v
  BY <1>1 DEF Blocks
<1>5. Fits(b)
  BY <1>4 DEF Fits, o
<1>6. Guarded(o, b)
  BY <1>4 DEF Guarded, o
<1>7. m.resized \/ Covered(b)
  BY <1>1, <1>4 DEF Covered
<1> QED BY <1>3, <1>5, <1>6, <1>7 DEF o

\* set_mem_value.
LEMMA StoreIsGood ==
  ASSUME Running, NEW r, Calm(r), r.status = "runs", NEW a \in Word, NEW w \in Word
  PROVE  /\ Good(Store(r, a, w))
         /\ Store(r, a, w).stack \in {m.stack, r.stack}
<1> DEFINE x == Slot(a)
           k == a - Base(x)
           v == [m.mem[x].words EXCEPT ![k] = InOrder(x, w)]
           b == [m.mem[x] EXCEPT !.words = v]
           t == [r EXCEPT !.mem[x].words[k] = InOrder(x, w)]
<1>1. CASE ~ Strays(a, "write") /\ ~ Allows(a, 1, "write")
  <2>1. Store(r, a, w) = Raise
    BY <1>1 DEF Store
  <2> QED BY <2>1, RaiseIsGood
<1>2. CASE Strays(a, "write")
  <2>1. Store(r, a, w) = GoesWild
    BY <1>2 DEF Store
  <2>2. m.resized \/ m.grown
    BY <1>2, StraysIs
  <2> QED BY <2>1, <2>2, WildIsGood
<1>3. CASE ~ Strays(a, "write") /\ Allows(a, 1, "write") /\ Within(a, 1)
  <2>1. Store(r, a, w) = t
    BY <1>3 DEF Store
  <2>2. Slot(a) < MemGrow /\ x \in Slots /\ "write" \in m.mem[x].flags
    BY <1>3, AllowedIs
  <2>3. k \in 0 .. m.mem[x].given - 1
    BY <1>3, <2>2, RawWord
  <2>4. m.mem[x].words \in [0 .. m.mem[x].given - 1 -> Word]
    BY <2>2, BlockAt
  <2>5. InOrder(x, w) \in Word
    BY InOrderWord
  <2>6. v \in [0 .. m.mem[x].given - 1 -> Word]
    <3> HIDE DEF x, k
    <3> QED BY <2>3, <2>4, <2>5
  <2>7. /\ b \in Blocks /\ Fits(b) /\ Guarded(m.mem[x], b) /\ (m.resized \/ Covered(b))
    <3> HIDE DEF x, v
    <3> QED BY <2>2, <2>6, SameBlock
  <2>8. t = [r EXCEPT !.mem = [m.mem EXCEPT ![x] = b]]
    <3>1. r.mem = m.mem /\ m.mem[x] = r.mem[x]
      BY DEF Calm
    <3> QED BY <3>1, Zenon
  <2>9. r \in Machines /\ r.raised = FALSE /\ r.stack.ptr <= r.stack.size /\ r.resized = m.resized
        /\ Spans(r)
    BY DEF Calm
  <2>10. [m.mem EXCEPT ![x] = b] \in Tables
    <3>1. m.mem \in Tables
      BY DEF Running, Typed, Machines
    <3> HIDE DEF x, b
    <3> QED BY <3>1, <2>7 DEF Tables
  <2>11. /\ t \in Machines /\ t.mem = [m.mem EXCEPT ![x] = b] /\ t.raised = FALSE
         /\ t.stack = r.stack /\ t.resized = m.resized /\ t.status = "runs"
         /\ t.dmsiz = r.dmsiz /\ t.grown = r.grown
    <3> DEFINE M == [m.mem EXCEPT ![x] = b]
    <3>1. t = [r EXCEPT !.mem = M] /\ M \in Tables
      BY <2>8, <2>10
    <3> HIDE DEF t, M
    <3>2. /\ t \in Machines /\ t.mem = M /\ t.raised = r.raised
          /\ t.stack = r.stack /\ t.resized = r.resized /\ t.status = r.status
          /\ t.dmsiz = r.dmsiz /\ t.grown = r.grown
      BY <3>1, <2>9, SMTT(40) DEF Machines
    <3> QED BY <3>2, <2>9 DEF M
  <2>12. Changed(t, x, b) /\ Inside(t)
    <3> HIDE DEF t, x, b
    <3>1. Spans(t)
      BY <2>9, <2>11 DEF Spans
    <3> QED BY <2>7, <2>9, <2>11, <3>1 DEF Changed, Inside
  <2> HIDE DEF t, x, b
  <2>13. Good(t)
    BY <2>2, <2>7, <2>12, ChangedIsGood
  <2> QED BY <2>1, <2>11, <2>13
<1> QED BY <1>1, <1>2, <1>3 DEF Strays

-----------------------------------------------------------------------------
(* Operands *)

Operand(o) ==
  /\ o.type \in Anything /\ o.val \in Word
  /\ o.type \in {"ureg", "sreg", "uptr"} => o.val \in 0 .. Registers - 1

\* The operands task_check_bcode let in.
LEMMA OperandsOf ==
  ASSUME NEW i \in Code
  PROVE  Operand(i.a) /\ Operand(i.b)
<1>1. ASSUME NEW o \in {i.a, i.b} PROVE Operand(o)
  <2>1. /\ o.type \in Anything /\ o.val \in Word
        /\ o.type \in {"ureg", "sreg", "uptr"} => o.val < Registers
    BY CodeAssumption
  <2>2. Space \in Nat /\ Registers \in Nat
    BY Powers, SizesAssumption
  <2> QED BY <2>1, <2>2 DEF Operand, Word
<1> QED BY <1>1

\* A pointer is a word.
LEMMA AddressWord ==
  ASSUME Running, NEW o, Operand(o), IsPointer(o)
  PROVE  Address(o) \in Word
<1>1. m.u \in Regs
  BY DEF Running, Typed, Machines
<1> QED BY <1>1 DEF Operand, IsPointer, Address, Regs

\* The value of an operand is a word when it could be fetched.
LEMMA ValueWord ==
  ASSUME Running, NEW o, Operand(o), IsPointer(o) => Readable(Address(o))
  PROVE  Value(o) \in Word
<1>1. m.u \in Regs /\ m.s \in Regs
  BY DEF Running, Typed, Machines
<1>2. CASE IsPointer(o)
  <2>1. Value(o) = Content(Address(o))
    BY <1>2 DEF Value, IsPointer
  <2> QED BY <1>2, <2>1, AddressWord, ContentWord
<1>3. CASE ~ IsPointer(o)
  BY <1>1, <1>3 DEF Operand, IsPointer, Value, Regs, Anything
<1> QED BY <1>2, <1>3

\* An instruction that fetches its operands need care for words only.
LEMMA FetchIsGood ==
  ASSUME Running, NEW os, \A o \in os : Operand(o), NEW done,
         (\A o \in os : Value(o) \in Word) => Good(done)
  PROVE  Good(Fetching(os, done))
<1> DEFINE addrs == {Address(o) : o \in {o \in os : IsPointer(o)}}
<1>1. addrs \subseteq Word
  BY AddressWord
<1>2. (\A a \in addrs : Readable(a)) => Good(done)
  <2> SUFFICES ASSUME \A a \in addrs : Readable(a) PROVE Good(done)
    OBVIOUS
  <2>1. \A o \in os : Value(o) \in Word
    BY ValueWord
  <2> QED BY <2>1
<1> HIDE DEF addrs
<1>3. Good(FetchingAt(addrs, done))
  BY <1>1, <1>2, FetchAtIsGood
<1> QED BY <1>3 DEF Fetching, addrs

\* The result goes to a register or through set_mem_value.
LEMMA PutIsGood ==
  ASSUME Running, NEW r, Calm(r), r.status = "runs", r.u = m.u, r.s = m.s,
         NEW o, Operand(o), o.type \in Places, NEW w \in Word
  PROVE  /\ Good(Put(r, o, w))
         /\ Put(r, o, w).stack \in {m.stack, r.stack}
<1>1. r \in Machines /\ m.u \in Regs /\ m.s \in Regs
  BY DEF Running, Typed, Machines, Calm
<1>2. CASE o.type = "ureg"
  <2> DEFINE U == [r.u EXCEPT ![o.val] = w]
             t == [r EXCEPT !.u = U]
  <2>1. U \in Regs
    BY <1>1, <1>2 DEF Regs, Operand
  <2>2. Put(r, o, w) = t
    BY <1>2 DEF Put, IsPointer
  <2> HIDE DEF U
  <2>3. /\ t \in Machines /\ t.mem = r.mem /\ t.resized = r.resized /\ t.raised = r.raised
        /\ t.stack = r.stack /\ t.status = r.status
        /\ t.dmsiz = r.dmsiz /\ t.grown = r.grown
    BY <1>1, <2>1 DEF Machines
  <2>4. Calm(t) /\ Inside(t)
    BY <2>3 DEF Calm, Inside, Spans
  <2> QED BY <2>2, <2>3, <2>4, CalmIsGood
<1>3. CASE o.type = "sreg"
  <2> DEFINE U == [r.s EXCEPT ![o.val] = w]
             t == [r EXCEPT !.s = U]
  <2>1. U \in Regs
    BY <1>1, <1>3 DEF Regs, Operand
  <2>2. Put(r, o, w) = t
    BY <1>3 DEF Put, IsPointer
  <2> HIDE DEF U
  <2>3. /\ t \in Machines /\ t.mem = r.mem /\ t.resized = r.resized /\ t.raised = r.raised
        /\ t.stack = r.stack /\ t.status = r.status
        /\ t.dmsiz = r.dmsiz /\ t.grown = r.grown
    BY <1>1, <2>1 DEF Machines
  <2>4. Calm(t) /\ Inside(t)
    BY <2>3 DEF Calm, Inside, Spans
  <2> QED BY <2>2, <2>3, <2>4, CalmIsGood
<1>4. CASE IsPointer(o)
  <2>1. Put(r, o, w) = Store(r, Address(o), w)
    BY <1>4 DEF Put, IsPointer
  <2> QED BY <1>4, <2>1, AddressWord, StoreIsGood
<1> QED BY <1>2, <1>3, <1>4 DEF Places, Anything, IsPointer

-----------------------------------------------------------------------------
(* Moves and arithmetic, each for an instruction that is accepted *)

\* The same for an instruction that has just begun.
LEMMA PutsAreGood ==
  ASSUME Running, NEW i \in Code, i.a.type \in Places, NEW w \in Word
  PROVE  Good(Put(Begun, i.a, w))
BY BegunIs, OperandsOf, PutIsGood

\* u0, u1, s0 and s1 exist.
LEMMA RegisterWord ==
  ASSUME Running, NEW k \in 0 .. 1
  PROVE  m.u[k] \in Word /\ m.s[k] \in Word /\ k \in 0 .. Registers - 1
<1>1. m.u \in Regs /\ m.s \in Regs /\ k \in 0 .. Registers - 1
  BY SizesAssumption DEF Running, Typed, Machines
<1> QED BY <1>1 DEF Regs

\* MOV.
LEMMA MovIsGood ==
  ASSUME Running, NEW i \in Code, i.a.type \in Places
  PROVE  Good(Mov(i))
<1>1. Operand(i.b)
  BY OperandsOf
<1>2. ASSUME \A o \in {i.b} : Value(o) \in Word PROVE Good(Put(Begun, i.a, B(i)))
  <2>1. B(i) \in Word
    BY <1>2 DEF B
  <2> QED BY <2>1, PutsAreGood
<1> QED BY <1>1, <1>2, FetchIsGood DEF Mov

\* An instruction that reads and writes its first operand.
LEMMA OntoIsGood ==
  ASSUME Running, NEW i \in Code, i.a.type \in Places, NEW w,
         A(i) \in Word /\ B(i) \in Word => w \in Word
  PROVE  Good(Onto(i, w))
<1>1. \A o \in {i.a, i.b} : Operand(o)
  BY OperandsOf
<1>2. ASSUME \A o \in {i.a, i.b} : Value(o) \in Word PROVE Good(Put(Begun, i.a, w))
  <2>1. w \in Word
    BY <1>2 DEF A, B
  <2> QED BY <2>1, PutsAreGood
<1> QED BY <1>1, <1>2, FetchIsGood DEF Onto

\* ADD, SUB, MUL and the three that work bit by bit.
LEMMA ArithmeticIsGood ==
  ASSUME Running, NEW i \in Code, i.a.type \in Places
  PROVE  /\ Good(Add(i)) /\ Good(Sub(i)) /\ Good(Mul(i))
         /\ Good(Xor(i)) /\ Good(Or(i)) /\ Good(And(i))
<1>1. ASSUME A(i) \in Word, B(i) \in Word
      PROVE  Wrap(A(i) + B(i)) \in Word /\ Wrap(A(i) - B(i)) \in Word /\ Wrap(A(i) * B(i)) \in Word
  <2>1. A(i) \in Int /\ B(i) \in Int
    BY <1>1, WordInt
  <2>2. A(i) + B(i) \in Int /\ A(i) - B(i) \in Int /\ A(i) * B(i) \in Int
    BY <2>1
  <2> QED BY <2>2, Wrapped
<1>2. Good(Add(i)) /\ Good(Sub(i)) /\ Good(Mul(i))
  BY <1>1, OntoIsGood DEF Add, Sub, Mul
<1>3. Good(Xor(i))
  <2> DEFINE f == [n \in 0 .. 2 |-> IF n = 1 THEN 1 ELSE 0]
  <2>1. f \in [0 .. 2 -> 0 .. 1]
    OBVIOUS
  <2> HIDE DEF f
  <2>2. Good(Onto(i, Bitwise2(f, A(i), B(i))))
    BY <2>1, BitwiseWord, OntoIsGood
  <2> QED BY <2>2 DEF Xor, f
<1>4. Good(Or(i))
  <2> DEFINE f == [n \in 0 .. 2 |-> IF n > 0 THEN 1 ELSE 0]
  <2>1. f \in [0 .. 2 -> 0 .. 1]
    OBVIOUS
  <2> HIDE DEF f
  <2>2. Good(Onto(i, Bitwise2(f, A(i), B(i))))
    BY <2>1, BitwiseWord, OntoIsGood
  <2> QED BY <2>2 DEF Or, f
<1>5. Good(And(i))
  <2> DEFINE f == [n \in 0 .. 2 |-> IF n = 2 THEN 1 ELSE 0]
  <2>1. f \in [0 .. 2 -> 0 .. 1]
    OBVIOUS
  <2> HIDE DEF f
  <2>2. Good(Onto(i, Bitwise2(f, A(i), B(i))))
    BY <2>1, BitwiseWord, OntoIsGood
  <2> QED BY <2>2 DEF And, f
<1> QED BY <1>2, <1>3, <1>4, <1>5

\* A division raises, traps or stores.
LEMMA DividedIsGood ==
  ASSUME Running, NEW i \in Code, i.a.type \in Places, NEW w,
         A(i) \in Word /\ B(i) \in Word /\ B(i) # 0 => w \in Word
  PROVE  Good(Divided(i, w))
<1> DEFINE last == IF Number(i, A(i)) = -(Space \div 2) /\ Number(i, B(i)) = -1 THEN Killed
                   ELSE Put(Begun, i.a, w)
<1>1. Operand(i.a) /\ Operand(i.b)
  BY OperandsOf
<1>2. ASSUME B(i) \in Word, B(i) # 0 PROVE Good(Fetching({i.a}, last))
  <2>1. ASSUME \A o \in {i.a} : Value(o) \in Word PROVE Good(last)
    <3>1. w \in Word
      BY <1>2, <2>1 DEF A
    <3>2. Good(Put(Begun, i.a, w))
      BY <3>1, PutsAreGood
    <3> QED BY <3>2, KilledIsGood
  <2> HIDE DEF last
  <2> QED BY <1>1, <2>1, FetchIsGood
<1> HIDE DEF last
<1>3. ASSUME \A o \in {i.b} : Value(o) \in Word
      PROVE  Good(IF B(i) = 0 THEN Raise ELSE Fetching({i.a}, last))
  <2>1. B(i) \in Word
    BY <1>3 DEF B
  <2> QED BY <1>2, <2>1, RaiseIsGood
<1>4. Good(Fetching({i.b}, IF B(i) = 0 THEN Raise ELSE Fetching({i.a}, last)))
  BY <1>1, <1>3, FetchIsGood
<1> QED BY <1>4 DEF Divided, last

\* DIV and MOD.
LEMMA DivisionsAreGood ==
  ASSUME Running, NEW i \in Code, i.a.type \in Places
  PROVE  Good(Div(i)) /\ Good(Mod(i))
<1>1. ASSUME A(i) \in Word, B(i) \in Word, B(i) # 0
      PROVE  /\ Wrap(Quotient(Number(i, A(i)), Number(i, B(i)))) \in Word
             /\ Wrap(Remainder(Number(i, A(i)), Number(i, B(i)))) \in Word
  <2>1. Number(i, A(i)) \in Int /\ Number(i, B(i)) \in Int /\ Number(i, B(i)) # 0
    BY <1>1, Powers DEF Number, Signed, Word
  <2> QED BY <2>1, QuotientInt, Wrapped
<1> QED BY <1>1, DividedIsGood DEF Div, Mod

\* NOT.
LEMMA NotIsGood ==
  ASSUME Running, NEW i \in Code, i.a.type \in Places
  PROVE  Good(Not(i))
<1> DEFINE w == IF i.a.type = "uptr" THEN A(i) ELSE Space - 1 - A(i)
<1>1. \A o \in {i.a} : Operand(o)
  BY OperandsOf
<1>2. ASSUME \A o \in {i.a} : Value(o) \in Word PROVE Good(Put(Begun, i.a, w))
  <2>1. A(i) \in Word
    BY <1>2 DEF A
  <2>2. w \in Word
    BY <2>1, Powers DEF Word
  <2> HIDE DEF w
  <2> QED BY <2>2, PutsAreGood
<1> QED BY <1>1, <1>2, FetchIsGood DEF Not

\* Where LDB and STOB find their byte.
LEMMA BytePlace ==
  ASSUME Running, NEW i \in Code, NEW o \in {i.a, i.b}
  PROVE  /\ Index \in 0 .. Bytes - 1
         /\ Spanned(o) \subseteq Word
         /\ IsPointer(o) => Along(o) \in Word
         /\ (\A a \in Spanned(o) : Readable(a)) => WordAt(o) \in Word
<1>1. m.s[0] \in Word /\ Bytes \in Nat \ {0} /\ Operand(o)
  BY RegisterWord, Powers, OperandsOf
<1>2. Signed(m.s[0]) \in Int /\ m.s[0] \in Int
  BY <1>1, SignedInt, WordInt
<1>3. Index \in 0 .. Bytes - 1
  BY <1>1, <1>2, Division DEF Index
<1>4. ASSUME IsPointer(o) PROVE Along(o) \in Word
  <2>1. Address(o) \in Word
    BY <1>1, <1>4, AddressWord
  <2>2. Signed(m.s[0]) \div Bytes \in Int
    BY <1>1, <1>2, Division
  <2>3. Address(o) + Signed(m.s[0]) \div Bytes \in Int
    BY <2>1, <2>2, WordInt
  <2> QED BY <1>4, <2>3, Wrapped DEF Along
<1>5. Spanned(o) \subseteq Word
  BY <1>4 DEF Spanned
<1>6. ASSUME \A a \in Spanned(o) : Readable(a) PROVE WordAt(o) \in Word
  <2>1. CASE IsPointer(o)
    <3>1. Readable(Along(o))
      BY <1>6, <2>1 DEF Spanned
    <3> QED BY <1>4, <2>1, <3>1, ContentWord DEF WordAt
  <2>2. CASE ~ IsPointer(o)
    BY <1>1, <2>2, ValueWord DEF WordAt
  <2> QED BY <2>1, <2>2
<1> QED BY <1>3, <1>4, <1>5, <1>6

\* LDB.
LEMMA LdbIsGood ==
  ASSUME Running, NEW i \in Code, i.a.type \in Places
  PROVE  Good(Ldb(i))
<1>1. ASSUME \A a \in Spanned(i.b) : Readable(a)
      PROVE  Good(Put(Begun, i.a, Loads(i.b, Byte(WordAt(i.b), Index))))
  <2> DEFINE b == Byte(WordAt(i.b), Index)
  <2>1. WordAt(i.b) \in Word /\ Index \in 0 .. Bytes - 1
    BY <1>1, BytePlace
  <2>2. b \in 0 .. 2^ByteWidth - 1
    BY <2>1, ByteIs
  <2> HIDE DEF b
  <2>3. Loads(i.b, b) \in Word
    BY <2>2, ByteWord, CharWord DEF Loads
  <2> QED BY <2>3, PutsAreGood DEF b
<1>2. Spanned(i.b) \subseteq Word
  BY BytePlace
<1> QED BY <1>1, <1>2, FetchAtIsGood DEF Ldb

\* STOB.
LEMMA StobIsGood ==
  ASSUME Running, NEW i \in Code, i.a.type \in Places
  PROVE  Good(Stob(i))
<1> DEFINE w == SetByte(WordAt(i.a), Index, Byte(B(i), 0))
           last == IF IsPointer(i.a) THEN Store(Begun, Along(i.a), w) ELSE Put(Begun, i.a, w)
<1>1. ASSUME \A a \in Spanned(i.a) : Readable(a) PROVE Good(Fetching({i.b}, last))
  <2>1. /\ WordAt(i.a) \in Word /\ Index \in 0 .. Bytes - 1
        /\ IsPointer(i.a) => Along(i.a) \in Word
    BY <1>1, BytePlace
  <2>2. ASSUME \A o \in {i.b} : Value(o) \in Word PROVE Good(last)
    <3>1. B(i) \in Word /\ 0 \in 0 .. Bytes - 1
      BY <2>2, Powers DEF B
    <3>2. w \in Word
      BY <2>1, <3>1, ByteIs, SetByteWord
    <3> HIDE DEF w
    <3>3. Good(Put(Begun, i.a, w))
      BY <3>2, PutsAreGood
    <3>4. IsPointer(i.a) => Good(Store(Begun, Along(i.a), w))
      BY <2>1, <3>2, BegunIs, StoreIsGood
    <3> QED BY <3>3, <3>4
  <2>3. \A o \in {i.b} : Operand(o)
    BY OperandsOf
  <2> HIDE DEF last
  <2> QED BY <2>2, <2>3, FetchIsGood
<1>2. Spanned(i.a) \subseteq Word
  BY BytePlace
<1>3. Stob(i) = FetchingAt(Spanned(i.a), Fetching({i.b}, last))
  BY DEF Stob
<1> HIDE DEF last
<1> QED BY <1>1, <1>2, <1>3, FetchAtIsGood

-----------------------------------------------------------------------------
(* Jumps *)

\* An instruction that only sets what is added to IP.
LEMMA StepIsGood ==
  ASSUME Running, NEW c \in Changes
  PROVE  Good([Begun EXCEPT !.change = c])
<1> DEFINE t == [Begun EXCEPT !.change = c]
<1>1. Begun \in Machines /\ Calm(Begun) /\ Begun.status = "runs"
  BY BegunIs DEF Calm
<1>2. /\ t \in Machines /\ t.mem = Begun.mem /\ t.resized = Begun.resized
      /\ t.raised = Begun.raised /\ t.stack = Begun.stack /\ t.status = Begun.status
      /\ t.dmsiz = Begun.dmsiz /\ t.grown = Begun.grown
  BY <1>1 DEF Machines
<1> HIDE DEF t
<1>3. Calm(t) /\ Inside(t)
  BY <1>1, <1>2 DEF Calm, Inside, Spans
<1> QED BY <1>3, CalmIsGood DEF t

\* The comparisons and JMP.
LEMMA JumpsAreGood ==
  ASSUME Running, NEW i \in Code
  PROVE  /\ Good(Ifeq(i)) /\ Good(Ifneq(i)) /\ Good(Ifabo(i)) /\ Good(Ifbel(i))
         /\ Good(Jmp(i))
<1>1. ASSUME NEW test PROVE Good(If(i, test))
  <2>1. \A o \in {i.a, i.b} : Operand(o)
    BY OperandsOf
  <2>2. (IF test THEN 1 ELSE 2) \in Changes
    BY Values
  <2>3. Good([Begun EXCEPT !.change = IF test THEN 1 ELSE 2])
    BY <2>2, StepIsGood
  <2> QED BY <2>1, <2>3, FetchIsGood DEF If
<1>2. Good(Jmp(i))
  BY OperandsOf, Values, StepIsGood, FetchIsGood DEF Jmp
<1> QED BY <1>1, <1>2 DEF Ifeq, Ifneq, Ifabo, Ifbel

\* LOOP.
LEMMA LoopIsGood ==
  ASSUME Running, NEW i \in Code
  PROVE  Good(Loop(i))
<1> DEFINE S == [m.s EXCEPT ![0] = m.s[0] - 1]
           t == [Begun EXCEPT !.s[0] = m.s[0] - 1, !.change = 0]
<1>1. Begun \in Machines /\ Calm(Begun) /\ Begun.status = "runs" /\ Begun.s = m.s
  BY BegunIs DEF Calm
<1>2. CASE Signed(m.s[0]) > 0
  <2>1. m.s[0] \in Word /\ m.s[0] - 1 \in Word
    <3>1. m.s[0] \in Word
      BY RegisterWord
    <3> QED BY <1>2, <3>1, Powers DEF Signed, Word
  <2>2. m.s \in Regs /\ S \in Regs
    BY <2>1, RegisterWord DEF Running, Typed, Machines, Regs
  <2>3. t = [Begun EXCEPT !.s = S, !.change = 0]
    BY <1>1
  <2> HIDE DEF S
  <2>4. /\ t \in Machines /\ t.mem = Begun.mem /\ t.resized = Begun.resized
        /\ t.raised = Begun.raised /\ t.stack = Begun.stack /\ t.status = Begun.status
        /\ t.dmsiz = Begun.dmsiz /\ t.grown = Begun.grown
    <3> HIDE DEF t
    <3> QED BY <1>1, <2>2, <2>3, Values DEF Machines
  <2> HIDE DEF t
  <2>5. Good(t)
    BY <1>1, <2>4, CalmIsGood DEF Calm, Inside, Spans
  <2>6. Good(Fetching({i.a}, t))
    BY <2>5, OperandsOf, FetchIsGood
  <2> QED BY <1>2, <2>6 DEF Loop, t
<1>3. CASE ~ (Signed(m.s[0]) > 0)
  <2>1. Inside(Begun)
    BY <1>1 DEF Inside
  <2> QED BY <1>1, <1>3, <2>1, CalmIsGood DEF Loop
<1> QED BY <1>2, <1>3

-----------------------------------------------------------------------------
(* Blocks *)

\* mem_alloc finds the first free slot, and its address is a word.
LEMMA LeastFree ==
  ASSUME Running, FreeSlots # {}
  PROVE  LET x == CHOOSE x \in FreeSlots : \A y \in FreeSlots : x <= y
         IN  x \in Slots /\ ~ m.mem[x].used /\ x \in Word /\ Base(x) \in Word
<1> DEFINE x == CHOOSE x \in FreeSlots : \A y \in FreeSlots : x <= y
<1>1. FreeSlots \subseteq Nat
  BY SizesAssumption DEF FreeSlots, Slots
<1>2. \E y \in FreeSlots : \A z \in FreeSlots : y <= z
  BY <1>1, Smallest
<1>3. x \in FreeSlots
  BY <1>2, Zenon
<1> HIDE DEF x
<1>4. x \in Slots /\ ~ m.mem[x].used
  BY <1>3 DEF FreeSlots
<1> DEFINE d == 2 + MaxAlloc
           e == MemGrow - x - 1
<1>5. x \in Nat /\ d \in Nat \ {0} /\ e \in Nat /\ MemGrow = x + e + 1
  BY <1>4, SizesAssumption DEF Slots
<1>6. MemGrow * d <= Space \div 2
  BY AddressesAssumption
<1> HIDE DEF d, e
<1>7. MemGrow * d = x * d + e * d + d /\ x * d \in Nat /\ e * d \in Nat /\ x <= x * d
  <2>1. x * d = d * x /\ e * d = d * e /\ d * x \in Nat /\ d * e \in Nat
    BY <1>5, Product
  <2>2. (x + e + 1) * d = x * d + e * d + d
    BY <1>5
  <2>3. d * x = x + (d - 1) * x /\ (d - 1) * x \in Nat
    <3>1. d - 1 \in Nat
      BY <1>5
    <3> QED BY <1>5, <3>1, Product
  <2> QED BY <1>5, <2>1, <2>2, <2>3
<1> DEFINE xd == x * d
           ed == e * d
           md == MemGrow * d
<1>8. /\ md = xd + ed + d /\ xd \in Nat /\ ed \in Nat /\ x <= xd /\ md <= Space \div 2
      /\ Base(x) = xd
  BY <1>6, <1>7 DEF Base, d
<1> HIDE DEF xd, ed, md
<1>9. xd \in Word /\ x \in Word
  BY <1>5, <1>8, Powers DEF Word
<1> QED BY <1>4, <1>8, <1>9 DEF x

\* No memory for a larger table: the exception leaves the number of its slots.
LEMMA OutgrownIsGood ==
  ASSUME Running, FreeSlots = {}, ~ (m.dmsiz > MemGrow)
  PROVE  Good(Outgrown)
<1> DEFINE more == m.dmsiz + MemGrow
           t == [Raise EXCEPT !.dmsiz = more, !.grown = TRUE]
<1>1. /\ Good(Raise) /\ Raise \in Machines /\ Raise.stack = m.stack
      /\ Raise.dmsiz = m.dmsiz /\ Raise.grown = m.grown
  BY RaiseIsGood DEF Good, Typed
<1>2. MemGrow \in Nat \ {0} /\ m.dmsiz = MemGrow
  BY SizesAssumption DEF Running, Typed, Machines, Dmsizes
<1>3. more \in Dmsizes /\ more # m.dmsiz
  BY <1>2 DEF Dmsizes
<1> HIDE DEF more
<1>4. /\ t \in Machines /\ t.mem = Raise.mem /\ t.raised = Raise.raised
      /\ t.stack = Raise.stack /\ t.resized = Raise.resized /\ t.status = Raise.status
      /\ t.dmsiz = more /\ t.grown
  BY <1>1, <1>3, Values DEF Machines
<1>5. Typed(t) /\ Sized(t) /\ Inside(t) /\ Protected(t)
  <2> HIDE DEF t
  <2> QED BY <1>1, <1>4 DEF Good, Typed, Sized, Inside, Protected, Spans
<1>6. Traceless(t)
  <2>1. \A x \in Slots : m.mem[x].used
    BY DEF FreeSlots
  <2>2. m.stack.ptr \in Int
    BY Powers DEF Running, Typed, Machines, Stacks, Word
  <2>3. Abs(t.stack.ptr - m.stack.ptr) <= 1
    BY <1>1, <1>4, <2>2 DEF Abs
  <2>4. t = [m EXCEPT !.raised = TRUE, !.change = 0, !.u[0] = ErrorCode,
                      !.dmsiz = more, !.grown = TRUE, !.stack.ptr = m.stack.ptr]
    <3>1. Raise = [m EXCEPT !.raised = TRUE, !.change = 0, !.u[0] = ErrorCode,
                            !.stack.ptr = m.stack.ptr]
      BY <1>1 DEF Raise, Running, Typed, Machines, Stacks
    <3> QED BY <3>1
  <2>5. (m.grown \/ t.dmsiz # m.dmsiz) = TRUE
    BY <1>3, <1>4
  <2>6. t.stack.ptr = m.stack.ptr /\ t.dmsiz = more
    BY <1>1, <1>4
  <2> QED BY <2>1, <2>3, <2>4, <2>5, <2>6 DEF Traceless
<1>7. Outgrown = t
  BY DEF Outgrown, more
<1> HIDE DEF t
<1> QED BY <1>5, <1>6, <1>7 DEF Good

\* mem_alloc.
LEMMA AllocIsGood ==
  ASSUME Running, NEW size \in Word, NEW flags \in Word, NEW malloc \in BOOLEAN
  PROVE  Good(MemAlloc(size, flags, malloc))
<1> DEFINE x == CHOOSE x \in FreeSlots : \A y \in FreeSlots : x <= y
           words == [k \in 0 .. size - 1 |-> 0]
           b == [used |-> TRUE, given |-> size, size |-> size, flags |-> FlagsOf(flags),
                 words |-> words]
           t == [Begun EXCEPT !.mem[x] = b, !.u[0] = x, !.u[1] = Base(x)]
           g == [GoesWild EXCEPT !.grown = TRUE]
<1>1. Good(g)
  <2>1. Calm(GoesWild)
    BY BegunIs, Values DEF Calm, Machines, GoesWild, Spans
  <2>2. Calm(g) /\ Inside(g)
    <3>1. /\ g \in Machines /\ g.mem = GoesWild.mem /\ g.resized = GoesWild.resized
          /\ g.raised = GoesWild.raised /\ g.stack = GoesWild.stack /\ g.grown
      BY <2>1, Values DEF Calm, Machines
    <3> HIDE DEF g
    <3> QED BY <2>1, <3>1 DEF Calm, Inside, Spans
  <2> HIDE DEF g
  <2> QED BY <2>2, CalmIsGood
<1>2. ASSUME FreeSlots # {}, ~ (size > MaxAlloc), size # 0
      PROVE  Good(t)
  <2>1. x \in Slots /\ ~ m.mem[x].used /\ x \in Word /\ Base(x) \in Word
    BY <1>2, LeastFree
  <2> HIDE DEF x
  <2>2. size \in Nat /\ size \in 0 .. Space
    BY Powers DEF Word
  <2>3. words \in [0 .. size - 1 -> Word]
    BY Powers DEF Word
  <2>4. size * Bytes < Space \div 2
    <3>1. MaxAlloc - size \in Nat /\ Bytes \in Nat /\ size \in Nat /\ MaxAlloc \in Nat
      BY <1>2, <2>2, SizesAssumption, Powers
    <3>2. MaxAlloc * Bytes = size * Bytes + (MaxAlloc - size) * Bytes
          /\ (MaxAlloc - size) * Bytes \in Nat /\ size * Bytes \in Nat
      BY <3>1
    <3> QED BY <3>2, AddressesAssumption, Powers
  <2> HIDE DEF words
  <2>5. words \in Words
    BY <2>2, <2>3 DEF Words
  <2>6. b \in Blocks
    BY <2>2, <2>5 DEF Blocks, FlagsOf, Flags
  <2>7. Fits(b) /\ Covered(b) /\ Guarded(m.mem[x], b)
    BY <2>1, <2>2, <2>3, <2>4 DEF Fits, Covered, Guarded
  <2> HIDE DEF b
  <2> DEFINE M == [m.mem EXCEPT ![x] = b]
             V == [m.u EXCEPT ![0] = x, ![1] = Base(x)]
  <2>8. M \in Tables /\ V \in Regs
    <3>1. m.mem \in Tables /\ m.u \in Regs
      BY DEF Running, Typed, Machines
    <3> QED BY <2>1, <2>6, <3>1 DEF Tables, Regs
  <2>9. Begun \in Machines /\ Calm(Begun) /\ Begun.status = "runs" /\ Begun.u = m.u
    BY BegunIs DEF Calm
  <2>10. t = [Begun EXCEPT !.mem = M, !.u = V]
    <3>1. Begun.mem = m.mem
      BY <2>9 DEF Calm
    <3> QED BY <2>9, <3>1
  <2> HIDE DEF t, M, V
  <2>11. /\ t \in Machines /\ t.mem = M /\ t.raised = Begun.raised /\ t.stack = Begun.stack
         /\ t.resized = Begun.resized /\ t.status = Begun.status
         /\ t.dmsiz = Begun.dmsiz /\ t.grown = Begun.grown
    BY <2>8, <2>9, <2>10 DEF Machines
  <2>12. Changed(t, x, b) /\ Inside(t)
    BY <2>7, <2>9, <2>11 DEF Changed, Calm, Inside, M, Spans
  <2> QED BY <2>1, <2>6, <2>7, <2>12, ChangedIsGood
<1>3. Good(Raise)
  BY RaiseIsGood
<1>4. ASSUME FreeSlots = {}, ~ (m.dmsiz > MemGrow) PROVE Good(Outgrown)
  BY <1>4, OutgrownIsGood
<1> HIDE DEF t, g
<1> QED BY <1>1, <1>2, <1>3, <1>4 DEF MemAlloc, t, g

\* A handle the tests of mem_realloc and mem_dealloc let through.
LEMMA LiveSlot ==
  ASSUME Running, NEW h \in Int, Live(h)
  PROVE  h \in Slots /\ m.mem \in Tables
BY SizesAssumption DEF Live, Slots, Running, Typed, Machines

\* mem_realloc.
LEMMA ReallocIsGood ==
  ASSUME Running, NEW h \in Int, NEW newsize \in Int, NEW malloc, NEW fresh \in Word
  PROVE  Good(MemRealloc(h, newsize, malloc, fresh))
<1> DEFINE given == newsize \div Bytes
           words == [k \in 0 .. given - 1 |->
                       IF k < m.mem[h].given THEN m.mem[h].words[k] ELSE fresh]
           b == [m.mem[h] EXCEPT !.given = given, !.size = newsize, !.words = words]
           c == [m.mem[h] EXCEPT !.flags = FlagsOf(m.u[0])]
           t == [Begun EXCEPT !.mem[h] = b, !.resized = TRUE]
           s == [Begun EXCEPT !.mem[h] = c]
<1>1. Begun \in Machines /\ Calm(Begun) /\ Begun.status = "runs" /\ Begun.mem = m.mem
  BY BegunIs DEF Calm
<1>2. ASSUME Live(h)
      PROVE  /\ h \in Slots /\ m.mem \in Tables /\ m.mem[h] \in Blocks /\ m.mem[h].given \in Nat
             /\ m.mem[h].words \in [0 .. m.mem[h].given - 1 -> Word]
             /\ m.resized \/ Covered(m.mem[h])
  BY <1>2, LiveSlot, BlockAt
<1>3. ASSUME Live(h), newsize > 0, newsize <= MaxAlloc PROVE Good(Resized(h, newsize, fresh))
  <2>1. Resized(h, newsize, fresh) = t
    <3>1. h \in Slots /\ m.mem \in Tables
      BY <1>2, <1>3
    <3> QED BY <1>1, <3>1 DEF Resized, Tables
  <2>2. given \in Nat /\ given <= newsize /\ newsize \in Nat /\ newsize <= Space
    <3>1. newsize \in Nat /\ Bytes \in Nat \ {0}
      BY <1>3, Powers
    <3>2. newsize <= Space
      <4>1. MaxAlloc <= MaxAlloc * Bytes
        <5>1. MaxAlloc * Bytes = MaxAlloc + MaxAlloc * (Bytes - 1)
              /\ MaxAlloc * (Bytes - 1) \in Nat /\ MaxAlloc \in Nat
          <6> DEFINE e == Bytes - 1
          <6>1. e \in Nat /\ MaxAlloc \in Nat /\ Bytes = 1 + e
            BY Powers, SizesAssumption
          <6> HIDE DEF e
          <6>2. MaxAlloc * (1 + e) = MaxAlloc + MaxAlloc * e /\ MaxAlloc * e \in Nat
            BY <6>1
          <6> QED BY <6>1, <6>2 DEF e
        <5> QED BY <5>1
      <4>2. MaxAlloc \in Nat /\ MaxAlloc * Bytes \in Nat
        <5>1. MaxAlloc \in Nat
          BY SizesAssumption
        <5> QED BY <5>1, <3>1
      <4> QED BY <1>3, <4>1, <4>2, AddressesAssumption, Powers
    <3> QED BY <3>1, <3>2
  <2> HIDE DEF given
  <2>3. words \in [0 .. given - 1 -> Word]
    <3>1. ASSUME NEW k \in 0 .. given - 1
          PROVE  (IF k < m.mem[h].given THEN m.mem[h].words[k] ELSE fresh) \in Word
      <4>1. k < m.mem[h].given => k \in 0 .. m.mem[h].given - 1
        BY <1>2, <1>3
      <4> QED BY <1>2, <1>3, <4>1
    <3> QED BY <3>1
  <2> HIDE DEF words
  <2>4. b \in Blocks /\ Fits(b)
    <3>1. words \in Words /\ m.mem[h] \in Blocks /\ given \in 0 .. Space
      BY <1>2, <1>3, <2>2, <2>3, Powers DEF Words
    <3> QED BY <2>2, <2>3, <3>1 DEF Blocks, Fits
  <2>5. Guarded(m.mem[h], b)
    <3>1. b.flags = m.mem[h].flags /\ b.words = words
      BY <1>2, <1>3 DEF Blocks
    <3>2. \A k \in DOMAIN m.mem[h].words \cap DOMAIN words : words[k] = m.mem[h].words[k]
      BY <1>2, <1>3, <2>2 DEF words
    <3> QED BY <3>1, <3>2 DEF Guarded
  <2> HIDE DEF b
  <2> DEFINE M == [m.mem EXCEPT ![h] = b]
  <2>6. M \in Tables
    BY <1>2, <1>3, <2>4 DEF Tables
  <2>7. t = [Begun EXCEPT !.mem = M, !.resized = TRUE]
    BY <1>1
  <2> HIDE DEF t, M
  <2>8. /\ t \in Machines /\ t.mem = M /\ t.raised = Begun.raised /\ t.stack = Begun.stack
        /\ t.resized /\ t.status = Begun.status
        /\ t.dmsiz = Begun.dmsiz /\ t.grown = Begun.grown
    BY <1>1, <2>6, <2>7, Values DEF Machines
  <2>9. Changed(t, h, b) /\ Inside(t)
    BY <1>1, <2>8 DEF Changed, Calm, Inside, M, Spans
  <2> QED BY <1>2, <1>3, <2>1, <2>4, <2>5, <2>9, ChangedIsGood
<1>4. ASSUME Live(h), "strict" \notin m.mem[h].flags PROVE Good(s)
  <2>1. c \in Blocks /\ Fits(c) /\ Guarded(m.mem[h], c) /\ (m.resized \/ Covered(c))
    <3>1. FlagsOf(m.u[0]) \in SUBSET Flags
      BY DEF FlagsOf, Flags
    <3>2. c \in Blocks
      BY <1>2, <1>4, <3>1 DEF Blocks
    <3>3. /\ c.used = m.mem[h].used /\ c.given = m.mem[h].given /\ c.size = m.mem[h].size
          /\ c.words = m.mem[h].words
      BY <1>2, <1>4 DEF Blocks
    <3> HIDE DEF c
    <3> QED BY <1>2, <1>4, <3>2, <3>3 DEF Fits, Guarded, Covered
  <2> HIDE DEF c
  <2> DEFINE M == [m.mem EXCEPT ![h] = c]
  <2>2. M \in Tables
    BY <1>2, <1>4, <2>1 DEF Tables
  <2>3. s = [Begun EXCEPT !.mem = M]
    BY <1>1
  <2> HIDE DEF s, M
  <2>4. /\ s \in Machines /\ s.mem = M /\ s.raised = Begun.raised /\ s.stack = Begun.stack
        /\ s.resized = Begun.resized /\ s.status = Begun.status
        /\ s.dmsiz = Begun.dmsiz /\ s.grown = Begun.grown
    BY <1>1, <2>2, <2>3 DEF Machines
  <2>5. Changed(s, h, c) /\ Inside(s)
    BY <1>1, <2>1, <2>4 DEF Changed, Calm, Inside, M, Spans
  <2> QED BY <1>2, <1>4, <2>1, <2>5, ChangedIsGood
<1>5. s = [Begun EXCEPT !.mem[h].flags = FlagsOf(m.u[0])]
  BY <1>1
<1>6. Good(Raise)
  BY RaiseIsGood
<1>7. StraysTo(h) => Good(GoesWild)
  BY BeyondIs, WildIsGood DEF StraysTo
<1> HIDE DEF s
<1> QED BY <1>3, <1>4, <1>5, <1>6, <1>7, SizesAssumption DEF MemRealloc

\* mem_dealloc.
LEMMA DeallocIsGood ==
  ASSUME Running, NEW h \in Int
  PROVE  Good(MemDealloc(h))
<1> DEFINE t == [Begun EXCEPT !.mem[h] = FreeSlot]
           M == [m.mem EXCEPT ![h] = FreeSlot]
<1>1. Begun \in Machines /\ Calm(Begun) /\ Begun.status = "runs" /\ Begun.mem = m.mem
  BY BegunIs DEF Calm
<1>2. CASE Live(h) /\ ~ StraysTo(h)
  <2>1. h \in Slots /\ m.mem \in Tables
    BY <1>2, LiveSlot
  <2>2. <<>> \in [0 .. 0 - 1 -> Word]
    OBVIOUS
  <2>3. <<>> \in Words /\ 0 \in 0 .. Space
    <3>1. 0 \in 0 .. Space
      BY Powers
    <3> QED BY <2>2, <3>1, Zenon DEF Words
  <2>4. FreeSlot \in Blocks /\ Fits(FreeSlot) /\ Covered(FreeSlot)
        /\ Guarded(m.mem[h], FreeSlot)
    BY <2>2, <2>3 DEF FreeSlot, Blocks, Fits, Covered, Guarded
  <2>5. M \in Tables
    BY <2>1, <2>4 DEF Tables
  <2>6. t = [Begun EXCEPT !.mem = M]
    BY <1>1
  <2>7. MemDealloc(h) = t
    BY <1>2 DEF MemDealloc
  <2> HIDE DEF t, M
  <2>8. /\ t \in Machines /\ t.mem = M /\ t.raised = Begun.raised /\ t.stack = Begun.stack
        /\ t.resized = Begun.resized /\ t.status = Begun.status
        /\ t.dmsiz = Begun.dmsiz /\ t.grown = Begun.grown
    BY <1>1, <2>5, <2>6 DEF Machines
  <2>9. Changed(t, h, FreeSlot) /\ Inside(t)
    BY <1>1, <2>4, <2>8 DEF Changed, Calm, Inside, M, Spans
  <2> QED BY <2>1, <2>4, <2>7, <2>9, ChangedIsGood
<1>3. CASE ~ Live(h) /\ ~ StraysTo(h)
  BY <1>3, RaiseIsGood DEF MemDealloc
<1>4. CASE StraysTo(h)
  BY <1>4, BeyondIs, WildIsGood DEF MemDealloc, StraysTo
<1> QED BY <1>2, <1>3, <1>4

\* ALLOC, REALLOC and DEALLOC.
LEMMA BlocksAreGood ==
  ASSUME Running, NEW i \in Code
  PROVE  /\ \A r \in Alloc(i) : Good(r)
         /\ \A r \in Realloc(i) : Good(r)
         /\ Good(Dealloc(i))
<1>1. Operand(i.a) /\ Operand(i.b)
  BY OperandsOf
<1>2. ASSUME NEW malloc \in BOOLEAN
      PROVE  Good(Fetching({i.a, i.b}, MemAlloc(A(i), B(i), malloc)))
  BY <1>1, AllocIsGood, FetchIsGood DEF A, B
<1>3. ASSUME NEW malloc, NEW fresh \in Word
      PROVE  Good(Fetching({i.a, i.b}, MemRealloc(Signed(A(i)), Signed(B(i)), malloc, fresh)))
  <2>1. ASSUME \A o \in {i.a, i.b} : Value(o) \in Word
        PROVE  Good(MemRealloc(Signed(A(i)), Signed(B(i)), malloc, fresh))
    <3>1. Signed(A(i)) \in Int /\ Signed(B(i)) \in Int
      BY <2>1, SignedInt DEF A, B
    <3> QED BY <3>1, ReallocIsGood
  <2> QED BY <1>1, <2>1, FetchIsGood
<1>4. Good(Dealloc(i))
  <2>1. ASSUME \A o \in {i.a} : Value(o) \in Word PROVE Good(MemDealloc(Signed(A(i))))
    BY <2>1, SignedInt, DeallocIsGood DEF A
  <2> QED BY <1>1, <2>1, FetchIsGood DEF Dealloc
<1>5. {0, Space - 1} \subseteq Word
  BY Powers DEF Word
<1> QED BY <1>2, <1>3, <1>4, <1>5 DEF Alloc, Realloc

-----------------------------------------------------------------------------
(* Copying and comparing *)

\* Words that the checks let through are inside, unless a block has been
\* resized or the number of words is negative.
LEMMA AllWithin ==
  ASSUME Running, ~ m.resized, Signed(m.s[0]) >= 0,
         NEW a \in Word, NEW fl, Allows(a, m.s[0], fl)
  PROVE  Length >= 0 /\ Within(a, Length \div Bytes)
<1> DEFINE n == m.s[0]
           o == Base(Slot(a))
           z == m.mem[Slot(a)].size
           g == m.mem[Slot(a)].given
<1>1. n \in Word /\ n \in Nat /\ n < Space \div 2
  <2>1. n \in Word
    BY RegisterWord
  <2> QED BY <2>1, Powers DEF Signed, Word
<1>2. /\ Slot(a) < MemGrow /\ Slot(a) \in Slots /\ m.mem[Slot(a)].used
      /\ o + z > Wrap(a + n - 1)
  BY SlotOf DEF Allows
<1>3. /\ a \in Nat /\ o \in Nat /\ a - o \in Nat /\ a < Space \div 2
  <2>1. a \in Nat /\ o \in Nat /\ a - o \in 0 .. MaxAlloc + 1 /\ a < MemGrow * (2 + MaxAlloc)
    BY <1>2, SlotOf
  <2>2. MemGrow * (2 + MaxAlloc) <= Space \div 2 /\ MemGrow * (2 + MaxAlloc) \in Nat
    <3>1. MemGrow \in Nat /\ 2 + MaxAlloc \in Nat
      BY SizesAssumption
    <3> QED BY <3>1, Product, AddressesAssumption, Zenon
  <2> QED BY <2>1, <2>2, Powers
<1>4. z \in Nat /\ g \in Nat /\ z <= g /\ z * Bytes < Space \div 2
  BY <1>2, BlockAt DEF Covered
<1> HIDE DEF n, o, z, g
<1>5. z <= z * Bytes /\ Bytes \in Nat \ {0}
  <2> DEFINE c == Bytes - 1
  <2>1. c \in Nat /\ Bytes = 1 + c
    BY Powers
  <2> HIDE DEF c
  <2>2. z * (1 + c) = z + z * c /\ z * c \in Nat
    BY <1>4, <2>1
  <2> QED BY <1>4, <2>1, <2>2
<1>6. a - o + n <= z
  <2>1. CASE a = 0 /\ n = 0
    <3>1. a + n - 1 = -1
      BY <2>1
    <3>2. Wrap(-1) = Space - 1
      <4>1. (Space * (-1) + (Space - 1)) % Space = Space - 1
        <5>1. Space \in Nat \ {0} /\ -1 \in Int /\ Space - 1 \in 0 .. Space - 1
          BY Powers
        <5> QED BY <5>1, DivisionIs, Zenon
      <4>2. Space * (-1) + (Space - 1) = -1
        BY Powers
      <4> QED BY <4>1, <4>2 DEF Wrap
    <3>3. o = 0
      BY <1>3, <2>1
    <3>4. z > Space - 1
      BY <1>2, <1>4, <3>1, <3>2, <3>3
    <3>5. z * Bytes \in Nat
      BY <1>4, <1>5
    <3> QED BY <1>4, <1>5, <3>4, <3>5, Powers
  <2>2. CASE ~ (a = 0 /\ n = 0)
    <3>1. a + n - 1 \in Int /\ a + n - 1 \in Word
      BY <1>1, <1>3, <2>2, Powers DEF Word
    <3>2. Wrap(a + n - 1) = a + n - 1
      BY <3>1, Wrapped
    <3> QED BY <1>1, <1>2, <1>3, <1>4, <3>2
  <2> QED BY <2>1, <2>2
<1>7. n * Bytes \in Nat /\ n * Bytes < Space \div 2
  <2> DEFINE e == z - n
  <2>1. e \in Nat /\ z = n + e
    BY <1>1, <1>3, <1>4, <1>6
  <2> HIDE DEF e
  <2>2. (n + e) * Bytes = n * Bytes + e * Bytes /\ n * Bytes \in Nat /\ e * Bytes \in Nat
    BY <1>1, <1>5, <2>1
  <2> QED BY <1>4, <2>1, <2>2, Powers
<1> DEFINE p == n * Bytes
<1>8. p \in Int /\ p \in Word /\ p < Space \div 2
  BY <1>7, Powers DEF Word
<1>9. Length = Signed(Wrap(p))
  BY DEF Length, n
<1>10. Length = p
  <2> HIDE DEF p
  <2>1. Wrap(p) = p
    BY <1>8, Wrapped
  <2> QED BY <1>8, <1>9, <2>1 DEF Signed
<1>11. p \div Bytes = n
  <2>1. 0 \in 0 .. Bytes - 1
    BY <1>5
  <2>2. (Bytes * n + 0) \div Bytes = n
    <3>1. n \in Int
      BY <1>1
    <3> QED BY <3>1, <1>5, <2>1, DivisionIs, Zenon
  <2>3. Bytes * n + 0 = p
    BY <1>1, <1>5
  <2> QED BY <2>2, <2>3
<1>12. a - o + n <= g
  BY <1>1, <1>3, <1>4, <1>6
<1> QED BY <1>7, <1>10, <1>11, <1>12 DEF Within, o, g

\* An instruction on whole blocks needs care only for words that are there.
LEMMA BlockwiseIsGood ==
  ASSUME Running, NEW i \in Code, NEW fl, NEW done,
         ASSUME A(i) \in Word, B(i) \in Word, Allows(A(i), m.s[0], fl),
                Allows(B(i), m.s[0], "read"), Length >= 0,
                Within(A(i), Length \div Bytes), Within(B(i), Length \div Bytes)
         PROVE  Good(done)
  PROVE  Good(Blockwise(i, fl, done))
<1> DEFINE r == [Begun EXCEPT !.negative = @ \/ Signed(m.s[0]) < 0]
           t == [r EXCEPT !.status = "wild"]
           refused == ~ Allows(A(i), m.s[0], fl) \/ ~ Allows(B(i), m.s[0], "read")
           outside == \/ Length < 0
                      \/ ~ Within(A(i), Length \div Bytes)
                      \/ ~ Within(B(i), Length \div Bytes)
           beyond == Beyond(Slot(A(i))) \/ Beyond(Slot(B(i)))
           last == IF beyond THEN GoesWild
                   ELSE IF refused THEN Raise ELSE IF outside THEN t ELSE done
<1>1. /\ t \in Machines /\ t.mem = Begun.mem /\ t.resized = Begun.resized
      /\ t.raised = Begun.raised /\ t.stack = Begun.stack
      /\ t.negative = (Begun.negative \/ Signed(m.s[0]) < 0)
      /\ t.dmsiz = Begun.dmsiz /\ t.grown = Begun.grown
  <2>1. Begun \in Machines
    BY BegunIs DEF Calm
  <2> DEFINE ng == Begun.negative \/ Signed(m.s[0]) < 0
  <2>2. ng \in Truths
    BY Values
  <2> HIDE DEF ng
  <2>3. t = [Begun EXCEPT !.negative = ng, !.status = "wild"]
    BY <2>1 DEF ng
  <2> HIDE DEF t
  <2>4. /\ t \in Machines /\ t.mem = Begun.mem /\ t.resized = Begun.resized
        /\ t.raised = Begun.raised /\ t.stack = Begun.stack /\ t.negative = ng
        /\ t.dmsiz = Begun.dmsiz /\ t.grown = Begun.grown
    BY <2>1, <2>2, <2>3, Values DEF Machines
  <2> QED BY <2>4, Zenon DEF ng
<1> HIDE DEF t
<1>2. ASSUME A(i) \in Word, B(i) \in Word, ~ refused, outside PROVE Good(t)
  <2>1. Calm(t)
    BY <1>1, BegunIs DEF Calm, Spans
  <2>2. m.resized \/ Signed(m.s[0]) < 0
    <3>1. Signed(m.s[0]) \in Int /\ Length \in Int
      <4>1. m.s[0] \in Word /\ Bytes \in Nat
        BY RegisterWord, Powers
      <4>2. m.s[0] * Bytes \in Int
        BY <4>1, WordInt
      <4> QED BY <4>1, <4>2, Wrapped, SignedInt DEF Length
    <3>2. SUFFICES ASSUME ~ m.resized, Signed(m.s[0]) >= 0 PROVE FALSE
      BY <3>1
    <3> QED BY <1>2, <3>1, <3>2, AllWithin
  <2>3. Inside(t)
    BY <1>1, <2>2, BegunIs DEF Inside, Calm, Spans
  <2> QED BY <2>1, <2>3, CalmIsGood
<1>3. ASSUME \A o \in {i.a, i.b} : Value(o) \in Word PROVE Good(last)
  <2>1. A(i) \in Word /\ B(i) \in Word
    BY <1>3 DEF A, B
  <2>2. ASSUME ~ refused, ~ outside PROVE Good(done)
    <3>1. Length >= 0
      <4>1. Length \in Int
        <5>1. m.s[0] \in Word /\ Bytes \in Nat
          BY RegisterWord, Powers
        <5>2. m.s[0] * Bytes \in Int
          BY <5>1, WordInt
        <5> QED BY <5>1, <5>2, Wrapped, SignedInt DEF Length
      <4> QED BY <2>2, <4>1
    <3> QED BY <2>1, <2>2, <3>1
  <2>3. beyond => Good(GoesWild)
    BY <2>1, SlotInt, BeyondIs, WildIsGood
  <2> HIDE DEF refused, outside, beyond
  <2> QED BY <1>2, <2>1, <2>2, <2>3, RaiseIsGood
<1>4. Operand(i.a) /\ Operand(i.b)
  BY OperandsOf
<1>5. Blockwise(i, fl, done) = Fetching({i.a, i.b}, last)
  BY DEF Blockwise, t
<1> HIDE DEF last
<1> QED BY <1>3, <1>4, <1>5, FetchIsGood

\* A word of a block that memcpy or memcmp reaches.
LEMMA FurtherWord ==
  ASSUME Running, NEW a \in Word, Slot(a) < MemGrow, NEW n \in Int, Within(a, n),
         NEW k \in Nat, k < n
  PROVE  Further(a, k) \in Word
<1>1. Slot(a) \in Slots /\ Base(Slot(a)) \in Nat /\ a - Base(Slot(a)) \in Nat
  BY SlotOf, SizesAssumption
<1>2. /\ m.mem[Slot(a)].given \in Nat
      /\ m.mem[Slot(a)].words \in [0 .. m.mem[Slot(a)].given - 1 -> Word]
  BY <1>1, BlockAt
<1>3. a - Base(Slot(a)) + k \in 0 .. m.mem[Slot(a)].given - 1
  BY <1>1, <1>2 DEF Within
<1> QED BY <1>2, <1>3 DEF Further

\* A word is never copied from behind the last one asked for.
LEMMA OriginIs ==
  ASSUME NEW dst \in Word, NEW src \in Word, NEW forward, NEW k \in Nat
  PROVE  Origin(dst, src, forward, k) \in Nat /\ Origin(dst, src, forward, k) <= k
<1>1. CASE src < dst
  <2> DEFINE d == dst - src
             q == k \div d
             r == k % d
  <2>1. d \in Nat \ {0}
    BY <1>1, WordInt
  <2> HIDE DEF d
  <2>2. q \in Nat /\ r \in Nat /\ k = d * q + r
    BY <2>1, Division
  <2> HIDE DEF q, r
  <2>3. d * q \in Nat
    BY <2>1, <2>2, Product
  <2>4. r <= k
    BY <2>2, <2>3
  <2> QED BY <2>2, <2>4 DEF Origin, r, d
<1>2. CASE ~ (src < dst)
  BY <1>2 DEF Origin
<1> QED BY <1>1, <1>2

\* memcpy into a block that can be written.
LEMMA CopiedIsGood ==
  ASSUME Running, NEW dst \in Word, NEW src \in Word, NEW forward,
         Allows(dst, m.s[0], "write"), Allows(src, m.s[0], "read"),
         Within(src, Length \div Bytes)
  PROVE  Good(Copied(dst, src, forward))
<1> DEFINE x == Slot(dst)
           Nth(j) == j - (dst - Base(x))
           words == [j \in DOMAIN m.mem[x].words |->
                       IF Nth(j) \in Whole THEN Further(src, Origin(dst, src, forward, Nth(j)))
                       ELSE m.mem[x].words[j]]
           b == [m.mem[x] EXCEPT !.words = words]
           M == [m.mem EXCEPT ![x] = b]
           ng == m.negative \/ Signed(m.s[0]) < 0
           t == [Begun EXCEPT !.mem = M, !.negative = ng]
<1>1. /\ Slot(dst) < MemGrow /\ x \in Slots /\ "write" \in m.mem[x].flags
      /\ Slot(src) < MemGrow
  BY SlotOf DEF Allows
<1>2. m.mem[x].words \in [0 .. m.mem[x].given - 1 -> Word]
  BY <1>1, BlockAt
<1>3. Begun \in Machines /\ Calm(Begun) /\ Begun.status = "runs" /\ Begun.mem = m.mem
      /\ Begun.negative = m.negative /\ m.mem \in Tables
  BY BegunIs DEF Calm, Running, Typed, Machines
<1>4. Copied(dst, src, forward) = t
  <2> DEFINE D == [Begun EXCEPT !.mem[x].words =
                     [j \in DOMAIN @ |->
                        IF Nth(j) \in Whole
                        THEN Further(src, Origin(dst, src, forward, Nth(j))) ELSE @[j]],
                            !.negative = @ \/ Signed(m.s[0]) < 0]
  <2>1. D = t
    <3>1. Begun.mem[x].words = m.mem[x].words
      BY <1>3
    <3> QED BY <1>3, <3>1
  <2> QED BY <2>1 DEF Copied
<1>5. Length \div Bytes \in Int
  <2>1. m.s[0] \in Word /\ Bytes \in Nat \ {0}
    BY RegisterWord, Powers
  <2>2. m.s[0] * Bytes \in Int
    BY <2>1, WordInt
  <2>3. Length \in Int
    BY <2>1, <2>2, Wrapped, SignedInt DEF Length
  <2> QED BY <2>1, <2>3, Division
<1>6. words \in [0 .. m.mem[x].given - 1 -> Word]
  <2>1. ASSUME NEW k \in Whole PROVE Further(src, Origin(dst, src, forward, k)) \in Word
    <3>1. k \in Nat /\ k < Length \div Bytes
      BY Powers DEF Whole
    <3>2. Origin(dst, src, forward, k) \in Nat /\ Origin(dst, src, forward, k) <= k
      BY <3>1, OriginIs
    <3>3. Origin(dst, src, forward, k) < Length \div Bytes
      BY <1>5, <3>1, <3>2
    <3> QED BY <1>1, <1>5, <3>2, <3>3, FurtherWord
  <2> HIDE DEF x, Nth
  <2> QED BY <1>2, <2>1
<1> HIDE DEF words, x
<1>7. b \in Blocks /\ Fits(b) /\ Guarded(m.mem[x], b) /\ (m.resized \/ Covered(b))
  BY <1>1, <1>6, SameBlock
<1> HIDE DEF b
<1>8. M \in Tables
  BY <1>3, <1>7 DEF Tables
<1>9. ng \in Truths
  BY Values
<1> HIDE DEF M, ng
<1>10. /\ t \in Machines /\ t.mem = M /\ t.raised = Begun.raised /\ t.stack = Begun.stack
       /\ t.resized = Begun.resized /\ t.status = Begun.status
       /\ t.dmsiz = Begun.dmsiz /\ t.grown = Begun.grown
  BY <1>3, <1>8, <1>9 DEF Machines
<1> HIDE DEF t
<1>11. Changed(t, x, b) /\ Inside(t)
  BY <1>3, <1>7, <1>10 DEF Changed, Calm, Inside, M, Spans
<1> QED BY <1>1, <1>4, <1>7, <1>11, ChangedIsGood

\* CPCNT and CMPCNT.
LEMMA CopiesAreGood ==
  ASSUME Running, NEW i \in Code
  PROVE  /\ \A r \in Cpcnt(i) : Good(r)
         /\ \A r \in Cmpcnt(i) : Good(r)
<1>1. ASSUME NEW forward PROVE Good(Blockwise(i, "write", Copied(A(i), B(i), forward)))
  BY CopiedIsGood, BlockwiseIsGood
<1>2. ASSUME NEW v \in Word
      PROVE  Good([Begun EXCEPT !.s[0] = v, !.negative = @ \/ Signed(m.s[0]) < 0])
  <2> DEFINE V == [m.s EXCEPT ![0] = v]
             ng == m.negative \/ Signed(m.s[0]) < 0
             t == [Begun EXCEPT !.s = V, !.negative = ng]
  <2>1. /\ Begun \in Machines /\ Calm(Begun) /\ Begun.status = "runs" /\ Begun.s = m.s
        /\ Begun.negative = m.negative
    BY BegunIs DEF Calm
  <2>2. t = [Begun EXCEPT !.s[0] = v, !.negative = @ \/ Signed(m.s[0]) < 0]
    BY <2>1
  <2>3. V \in Regs
    BY SizesAssumption DEF Running, Typed, Machines, Regs
  <2>4. ng \in Truths
    BY Values
  <2> HIDE DEF V, ng
  <2>5. /\ t \in Machines /\ t.mem = Begun.mem /\ t.raised = Begun.raised
        /\ t.stack = Begun.stack /\ t.resized = Begun.resized /\ t.status = Begun.status
        /\ t.dmsiz = Begun.dmsiz /\ t.grown = Begun.grown
    BY <2>1, <2>3, <2>4 DEF Machines
  <2> HIDE DEF t
  <2>6. Calm(t) /\ Inside(t)
    BY <2>1, <2>5 DEF Calm, Inside, Spans
  <2> QED BY <2>2, <2>6, CalmIsGood
<1>3. ASSUME NEW sign \in {1, Space - 1}
      PROVE  Good(Blockwise(i, "read",
                   [Begun EXCEPT !.s[0] = IF Same(A(i), B(i)) THEN 0 ELSE sign,
                                 !.negative = @ \/ Signed(m.s[0]) < 0]))
  <2>1. (IF Same(A(i), B(i)) THEN 0 ELSE sign) \in Word
    <3>1. 1 \in Word /\ Space - 1 \in Word /\ 0 \in Word
      BY Powers DEF Word
    <3> QED BY <3>1
  <2> DEFINE t == [Begun EXCEPT !.s[0] = IF Same(A(i), B(i)) THEN 0 ELSE sign,
                                !.negative = @ \/ Signed(m.s[0]) < 0]
  <2>2. Good(t)
    BY <2>1, <1>2
  <2> HIDE DEF t
  <2>3. Good(Blockwise(i, "read", t))
    BY <2>2, BlockwiseIsGood
  <2> QED BY <2>3 DEF t
<1> QED BY <1>1, <1>3 DEF Cpcnt, Cmpcnt

-----------------------------------------------------------------------------
(* The user stack *)

\* SETSTACK.
LEMMA SetStackIsGood ==
  ASSUME Running, NEW i \in Code
  PROVE  Good(SetStack(i))
<1> DEFINE k == [base |-> A(i), size |-> B(i), ptr |-> m.u[0]]
           t == [Begun EXCEPT !.stack = k]
<1>1. ASSUME A(i) \in Word, B(i) \in Word, ~ (m.u[0] > B(i)) PROVE Good(t)
  <2>1. m.u[0] \in Word
    BY RegisterWord
  <2>2. k \in Stacks /\ k.ptr <= k.size
    BY <1>1, <2>1, WordInt DEF Stacks
  <2>3. Begun \in Machines /\ Calm(Begun) /\ Begun.status = "runs"
    BY BegunIs DEF Calm
  <2> HIDE DEF k
  <2>4. /\ t \in Machines /\ t.mem = Begun.mem /\ t.raised = Begun.raised
        /\ t.resized = Begun.resized /\ t.status = Begun.status
        /\ t.dmsiz = Begun.dmsiz /\ t.grown = Begun.grown /\ t.stack = k
    BY <2>2, <2>3 DEF Machines
  <2> HIDE DEF t
  <2>5. Calm(t) /\ Inside(t)
    BY <2>2, <2>3, <2>4 DEF Calm, Inside, Spans
  <2> QED BY <2>5, CalmIsGood
<1> HIDE DEF t
<1>2. ASSUME \A o \in {i.a, i.b} : Value(o) \in Word
      PROVE  Good(IF m.u[0] > B(i) THEN Raise ELSE t)
  BY <1>1, <1>2, RaiseIsGood DEF A, B
<1>3. Operand(i.a) /\ Operand(i.b)
  BY OperandsOf
<1>4. SetStack(i) = Fetching({i.a, i.b}, IF m.u[0] > B(i) THEN Raise ELSE t)
  BY DEF SetStack, t
<1> QED BY <1>2, <1>3, <1>4, FetchIsGood

\* PUSH and POP move the pointer by one, also when the access raised.
LEMMA MovedIsGood ==
  ASSUME Running, NEW r, Good(r), r.stack = m.stack,
         NEW ptr \in Word, ptr <= m.stack.size, Abs(ptr - m.stack.ptr) <= 1
  PROVE  Good(Moved(ptr, r))
<1> DEFINE t == [r EXCEPT !.stack.ptr = ptr]
           k == [m.stack EXCEPT !.ptr = ptr]
<1>1. r \in Machines /\ m.stack \in Stacks
  BY DEF Good, Running, Typed, Machines
<1>2. k \in Stacks /\ k.ptr = ptr /\ k.size = m.stack.size
  BY <1>1 DEF Stacks
<1>3. t = [r EXCEPT !.stack = k]
  BY <1>1
<1>4. Moved(ptr, r) = t
  BY DEF Moved
<1> HIDE DEF k
<1>5. /\ t \in Machines /\ t.mem = r.mem /\ t.raised = r.raised /\ t.resized = r.resized
      /\ t.status = r.status
      /\ t.dmsiz = r.dmsiz /\ t.grown = r.grown /\ t.negative = r.negative
      /\ t.stack = k
  <2> HIDE DEF t
  <2> QED BY <1>1, <1>2, <1>3 DEF Machines
<1>6. Typed(t) /\ Sized(t) /\ Inside(t) /\ Protected(t)
  <2> HIDE DEF t
  <2> QED BY <1>2, <1>5 DEF Good, Typed, Sized, Inside, Protected, Spans
<1>7. Traceless(t)
  <2> SUFFICES ASSUME t.raised PROVE Traceless(t)
    BY DEF Traceless
  <2> DEFINE raised == [m EXCEPT !.raised = TRUE, !.change = 0, !.u[0] = ErrorCode,
                                 !.dmsiz = r.dmsiz, !.grown = m.grown \/ r.dmsiz # m.dmsiz,
                                 !.stack.ptr = r.stack.ptr]
             moved == [m EXCEPT !.raised = TRUE, !.change = 0, !.u[0] = ErrorCode,
                                !.dmsiz = r.dmsiz, !.grown = m.grown \/ r.dmsiz # m.dmsiz,
                                !.stack.ptr = ptr]
  <2>1. r = raised
    BY <1>5 DEF Good, Traceless
  <2>2. t = moved
    <3>1. m \in Machines
      BY DEF Running, Typed
    <3>2. t = [raised EXCEPT !.stack.ptr = ptr]
      BY <2>1
    <3>3. [raised EXCEPT !.stack.ptr = ptr] = moved
      <4> DEFINE ds == r.dmsiz
                 gr == m.grown \/ r.dmsiz # m.dmsiz
      <4> HIDE DEF ds, gr
      <4> DEFINE b == [m EXCEPT !.raised = TRUE, !.change = 0, !.u[0] = ErrorCode,
                                !.dmsiz = ds, !.grown = gr]
      <4>1. /\ raised = [b EXCEPT !.stack.ptr = r.stack.ptr]
            /\ moved = [b EXCEPT !.stack.ptr = ptr]
        BY DEF ds, gr
      <4>2. b.stack \in Stacks /\ DOMAIN b = DOMAIN m
            /\ b = [x \in DOMAIN b |-> b[x]] /\ "stack" \in DOMAIN b
        BY <3>1, <1>1 DEF Machines
      <4> HIDE DEF b
      <4>3. [[b EXCEPT !.stack.ptr = r.stack.ptr] EXCEPT !.stack.ptr = ptr]
            = [b EXCEPT !.stack.ptr = ptr]
        BY <4>2 DEF Stacks
      <4> QED BY <4>1, <4>3
    <3> QED BY <3>2, <3>3
  <2>3. t.stack.ptr = ptr /\ t.dmsiz = r.dmsiz
    BY <1>2, <1>5
  <2>4. r.dmsiz # m.dmsiz => \A x \in Slots : m.mem[x].used
    BY <1>5 DEF Good, Traceless
  <2> QED BY <2>2, <2>3, <2>4 DEF Traceless
<1> QED BY <1>4, <1>6, <1>7 DEF Good

\* The user stack of a running process.
LEMMA StackIs ==
  ASSUME Running
  PROVE  /\ m.stack.base \in Int /\ m.stack.ptr \in Word /\ m.stack.ptr \in Nat
         /\ m.stack.size \in Word /\ m.stack.ptr <= m.stack.size /\ Space \in Nat
         /\ \A n \in Int : Top(n) \in Word
<1>1. /\ m.stack.base \in Word /\ m.stack.ptr \in Word /\ m.stack.size \in Word
      /\ m.stack.ptr <= m.stack.size
  BY DEF Running, Typed, Machines, Stacks
<1>2. m.stack.base \in Int /\ m.stack.ptr \in Nat /\ Space \in Nat
  BY <1>1, Powers DEF Word
<1>3. ASSUME NEW n \in Int PROVE Top(n) \in Word
  <2>1. m.stack.base + n \in Int
    BY <1>2
  <2> QED BY <2>1, Wrapped DEF Top
<1> QED BY <1>1, <1>2, <1>3

\* PUSH.
LEMMA PushIsGood ==
  ASSUME Running, NEW i \in Code
  PROVE  Good(Push(i))
<1> DEFINE full == m.stack.size = 0 \/ m.stack.ptr >= m.stack.size
           r == Store(Begun, Top(m.stack.ptr), A(i))
<1>1. ASSUME ~ full, A(i) \in Word PROVE Good(Moved(m.stack.ptr + 1, r))
  <2>1. Top(m.stack.ptr) \in Word
    BY StackIs
  <2>2. Good(r) /\ r.stack = m.stack
    <3>1. Calm(Begun) /\ Begun.status = "runs" /\ Begun.stack = m.stack
      BY BegunIs
    <3>2. /\ Good(Store(Begun, Top(m.stack.ptr), A(i)))
          /\ Store(Begun, Top(m.stack.ptr), A(i)).stack \in {m.stack, Begun.stack}
      BY <1>1, <2>1, <3>1, StoreIsGood
    <3> QED BY <3>1, <3>2
  <2>3. m.stack.ptr + 1 \in Word /\ m.stack.ptr + 1 <= m.stack.size
    BY <1>1, StackIs DEF Word
  <2>4. Abs((m.stack.ptr + 1) - m.stack.ptr) <= 1
    BY StackIs DEF Abs
  <2> HIDE DEF r
  <2> QED BY <2>2, <2>3, <2>4, MovedIsGood
<1>2. ASSUME ~ full PROVE Good(Fetching({i.a}, Moved(m.stack.ptr + 1, r)))
  <2>1. \A o \in {i.a} : Operand(o)
    BY OperandsOf
  <2>2. ASSUME \A o \in {i.a} : Value(o) \in Word PROVE Good(Moved(m.stack.ptr + 1, r))
    BY <1>1, <1>2, <2>2 DEF A
  <2> HIDE DEF r
  <2> QED BY <2>1, <2>2, FetchIsGood
<1>3. Push(i) = IF full THEN Raise ELSE Fetching({i.a}, Moved(m.stack.ptr + 1, r))
  BY DEF Push
<1> HIDE DEF full, r
<1> QED BY <1>2, <1>3, RaiseIsGood

\* POP.
LEMMA PopIsGood ==
  ASSUME Running, NEW i \in Code, i.a.type \in Places
  PROVE  Good(Pop(i))
<1> DEFINE empty == m.stack.size = 0 \/ m.stack.ptr = 0
           addr == Top(m.stack.ptr - 1)
           r == FetchingAt({addr}, Put(Begun, i.a, Content(addr)))
<1>1. addr \in Word
  BY StackIs
<1> HIDE DEF addr
<1>2. ASSUME Readable(addr)
      PROVE  Good(Put(Begun, i.a, Content(addr))) /\ Put(Begun, i.a, Content(addr)).stack = m.stack
  <2>1. Content(addr) \in Word
    BY <1>1, <1>2, ContentWord
  <2>2. Calm(Begun) /\ Begun.status = "runs" /\ Begun.stack = m.stack
        /\ Begun.u = m.u /\ Begun.s = m.s
    BY BegunIs
  <2> QED BY <2>1, <2>2, OperandsOf, PutIsGood
<1>3. Good(r)
  BY <1>1, <1>2, FetchAtIsGood
<1>4. r.stack = m.stack
  <2>1. CASE Readable(addr) /\ ~ Strays(addr, "read")
    <3>1. r = Put(Begun, i.a, Content(addr))
      BY <2>1 DEF Readable, FetchingAt
    <3> QED BY <1>2, <2>1, <3>1
  <2>2. CASE ~ Readable(addr)
    <3>1. r \in {GoesWild, Raise}
      BY <2>2 DEF Readable, FetchingAt, Strays
    <3>2. GoesWild.stack = m.stack
      <4>1. Begun \in Machines /\ Begun.stack = m.stack
        BY BegunIs DEF Calm
      <4> QED BY <4>1 DEF GoesWild, Machines
    <3> QED BY <3>1, <3>2, RaiseIsGood
  <2>3. CASE Strays(addr, "read")
    <3>1. r = GoesWild
      BY <2>3 DEF FetchingAt
    <3>2. Begun \in Machines /\ Begun.stack = m.stack
      BY BegunIs DEF Calm
    <3> QED BY <3>1, <3>2 DEF GoesWild, Machines
  <2> QED BY <2>1, <2>2, <2>3
<1> HIDE DEF r
<1>5. ASSUME ~ empty PROVE Good(Moved(m.stack.ptr - 1, r))
  <2>1. m.stack.ptr - 1 \in Word /\ m.stack.ptr - 1 <= m.stack.size
    BY <1>5, StackIs DEF Word
  <2>2. Abs((m.stack.ptr - 1) - m.stack.ptr) <= 1
    BY StackIs DEF Abs
  <2> QED BY <1>3, <1>4, <2>1, <2>2, MovedIsGood
<1>6. Pop(i) = IF empty THEN Raise ELSE Moved(m.stack.ptr - 1, r)
  BY DEF Pop, r, addr
<1> HIDE DEF empty
<1> QED BY <1>5, <1>6, RaiseIsGood

-----------------------------------------------------------------------------
(* Every instruction *)

\* JIT refuses these opcodes with an IMMEDIATE first operand.
LEMMA StoredIsAPlace ==
  ASSUME NEW i \in Code, Accepted(i),
         i.op \in {"MOV", "ADD", "SUB", "MUL", "DIV", "MOD", "XOR", "OR", "AND", "NOT",
                   "LDB", "STOB", "POP"}
  PROVE  i.a.type \in Places
<1>1. First(i.op) = Places
  BY DEF First
<1> QED BY <1>1 DEF Accepted

\* Every instruction there is.
LEMMA StepIsGoodAsAWhole ==
  ASSUME Running, Next
  PROVE  Good(m') /\ m.status = "runs" /\ steps < MaxSteps /\ steps' = steps + 1
<1>1. ASSUME NEW i \in Code, NEW outcomes, Execute(i, outcomes),
             Accepted(i) => \A r \in outcomes : Good(r)
      PROVE  Good(m') /\ m.status = "runs" /\ steps < MaxSteps /\ steps' = steps + 1
  BY <1>1, RaiseIsGood DEF Execute
<1>2. \A op : \A i \in Of(op) : i \in Code /\ i.op = op
  BY DEF Of
<1>3. CASE \E i \in Of("MOV") : Execute(i, {Mov(i)})
  BY <1>1, <1>2, <1>3, StoredIsAPlace, MovIsGood
<1>4. CASE \E i \in Of("ADD") : Execute(i, {Add(i)})
  BY <1>1, <1>2, <1>4, StoredIsAPlace, ArithmeticIsGood
<1>5. CASE \E i \in Of("SUB") : Execute(i, {Sub(i)})
  BY <1>1, <1>2, <1>5, StoredIsAPlace, ArithmeticIsGood
<1>6. CASE \E i \in Of("MUL") : Execute(i, {Mul(i)})
  BY <1>1, <1>2, <1>6, StoredIsAPlace, ArithmeticIsGood
<1>7. CASE \E i \in Of("DIV") : Execute(i, {Div(i)})
  BY <1>1, <1>2, <1>7, StoredIsAPlace, DivisionsAreGood
<1>8. CASE \E i \in Of("MOD") : Execute(i, {Mod(i)})
  BY <1>1, <1>2, <1>8, StoredIsAPlace, DivisionsAreGood
<1>9. CASE \E i \in Of("XOR") : Execute(i, {Xor(i)})
  BY <1>1, <1>2, <1>9, StoredIsAPlace, ArithmeticIsGood
<1>10. CASE \E i \in Of("OR") : Execute(i, {Or(i)})
  BY <1>1, <1>2, <1>10, StoredIsAPlace, ArithmeticIsGood
<1>11. CASE \E i \in Of("AND") : Execute(i, {And(i)})
  BY <1>1, <1>2, <1>11, StoredIsAPlace, ArithmeticIsGood
<1>12. CASE \E i \in Of("NOT") : Execute(i, {Not(i)})
  BY <1>1, <1>2, <1>12, StoredIsAPlace, NotIsGood
<1>13. CASE \E i \in Of("LDB") : Execute(i, {Ldb(i)})
  BY <1>1, <1>2, <1>13, StoredIsAPlace, LdbIsGood
<1>14. CASE \E i \in Of("STOB") : Execute(i, {Stob(i)})
  BY <1>1, <1>2, <1>14, StoredIsAPlace, StobIsGood
<1>15. CASE \/ \E i \in Of("IFEQ") : Execute(i, {Ifeq(i)})
            \/ \E i \in Of("IFNEQ") : Execute(i, {Ifneq(i)})
            \/ \E i \in Of("IFABO") : Execute(i, {Ifabo(i)})
            \/ \E i \in Of("IFBEL") : Execute(i, {Ifbel(i)})
            \/ \E i \in Of("JMP") : Execute(i, {Jmp(i)})
  BY <1>1, <1>2, <1>15, JumpsAreGood
<1>16. CASE \E i \in Of("LOOP") : Execute(i, {Loop(i)})
  BY <1>1, <1>2, <1>16, LoopIsGood
<1>17. CASE \/ \E i \in Of("ALLOC") : Execute(i, Alloc(i))
            \/ \E i \in Of("REALLOC") : Execute(i, Realloc(i))
            \/ \E i \in Of("DEALLOC") : Execute(i, {Dealloc(i)})
  BY <1>1, <1>2, <1>17, BlocksAreGood
<1>18. CASE \/ \E i \in Of("CPCNT") : Execute(i, Cpcnt(i))
            \/ \E i \in Of("CMPCNT") : Execute(i, Cmpcnt(i))
  BY <1>1, <1>2, <1>18, CopiesAreGood
<1>19. CASE \E i \in Of("SETSTACK") : Execute(i, {SetStack(i)})
  BY <1>1, <1>2, <1>19, SetStackIsGood
<1>20. CASE \E i \in Of("PUSH") : Execute(i, {Push(i)})
  BY <1>1, <1>2, <1>20, PushIsGood
<1>21. CASE \E i \in Of("POP") : Execute(i, {Pop(i)})
  BY <1>1, <1>2, <1>21, StoredIsAPlace, PopIsGood
<1> QED
  BY <1>3, <1>4, <1>5, <1>6, <1>7, <1>8, <1>9, <1>10, <1>11, <1>12, <1>13, <1>14, <1>15,
     <1>16, <1>17, <1>18, <1>19, <1>20, <1>21 DEF Next

-----------------------------------------------------------------------------
(* The theorems *)

\* The machine is well formed, the checks that an access passes keep it in
\* its block, and what ran wild was one of the three the comment names.
Inv == Typed(m) /\ Sized(m) /\ Inside(m) /\ steps \in 0 .. MaxSteps

\* A process that has just been loaded.
LEMMA LoadedIsTyped == Init => Inv
<1> SUFFICES ASSUME NEW image \in Images, m = Loaded(image), steps = 0 PROVE Inv
  BY DEF Init
<1>1. /\ 0 \in Word /\ 0 \in 0 .. Space /\ Space \in Nat /\ 0 \in Slots
      /\ MaxSteps \in Nat /\ Space \div 2 \in Nat \ {0}
  BY Powers, SizesAssumption DEF Word, Slots
<1> DEFINE regs == [r \in 0 .. Registers - 1 |-> 0]
           table == [x \in Slots |-> IF x = 0 THEN image ELSE FreeSlot]
           stack == [base |-> 0, size |-> 0, ptr |-> 0]
<1>2. image \in Blocks /\ Fits(image) /\ Covered(image)
  <2>1. /\ image \in [used : BOOLEAN, given : 0 .. Space, size : 0 .. image.given,
                      flags : SUBSET Flags, words : [0 .. image.given - 1 -> Word]]
        /\ image.size * Bytes < Space \div 2
    BY ImagesAssumption
  <2> DEFINE own == [0 .. image.given - 1 -> Word]
  <2>2. image.given \in 0 .. Space /\ own \subseteq Words
    BY <2>1 DEF Words
  <2> HIDE DEF own
  <2>3. image \in [used : BOOLEAN, given : 0 .. Space, size : 0 .. image.given,
                   flags : SUBSET Flags, words : own]
    BY <2>1 DEF own
  <2>4. image \in Blocks
    BY <1>1, <2>2, <2>3 DEF Blocks
  <2>5. image.words \in own /\ image.size <= image.given
    BY <1>1, <2>3
  <2> QED BY <2>1, <2>4, <2>5 DEF Fits, Covered, own
<1>3. FreeSlot \in Blocks /\ Fits(FreeSlot) /\ Covered(FreeSlot)
  <2>1. <<>> \in [0 .. 0 - 1 -> Word]
    OBVIOUS
  <2>2. <<>> \in Words
    BY <1>1, <2>1, Zenon DEF Words
  <2> QED BY <1>1, <2>1, <2>2 DEF FreeSlot, Blocks, Fits, Covered
<1>4. regs \in Regs /\ table \in Tables /\ stack \in Stacks
  BY <1>1, <1>2, <1>3 DEF Regs, Tables, Stacks
<1>5. \A x \in Slots : Fits(table[x]) /\ Covered(table[x])
  BY <1>2, <1>3
<1>6. m = [u |-> regs, s |-> regs, mem |-> table, dmsiz |-> MemGrow, stack |-> stack,
           change |-> 1, raised |-> FALSE, status |-> "runs", resized |-> FALSE, negative |-> FALSE,
           grown |-> FALSE]
  BY DEF Loaded
<1>7. stack.ptr <= stack.size
  OBVIOUS
<1> HIDE DEF regs, table, stack
<1>8. /\ m \in Machines /\ m.mem = table /\ m.stack = stack /\ m.status = "runs"
      /\ m.dmsiz = MemGrow
  BY <1>4, <1>6, Values DEF Machines, Dmsizes
<1> QED BY <1>1, <1>5, <1>7, <1>8 DEF Inv, Typed, Sized, Inside, Spans

\* Inv is inductive.
LEMMA InvAlways == Spec => []Inv
<1>1. Inv /\ [Next]_vars => Inv'
  <2> SUFFICES ASSUME Inv, [Next]_vars PROVE Inv'
    OBVIOUS
  <2>1. CASE Next
    <3>1. m.status = "runs"
      BY <2>1 DEF Next, Execute
    <3>2. Good(m') /\ steps < MaxSteps /\ steps' = steps + 1
      BY <2>1, <3>1, StepIsGoodAsAWhole DEF Inv, Running
    <3>3. steps' \in 0 .. MaxSteps
      BY <3>2, SizesAssumption DEF Inv
    <3>4. Typed(m') /\ Sized(m') /\ Inside(m')
      BY <3>2 DEF Good
    <3>5. Typed(m)' /\ Sized(m)' /\ Inside(m)'
      BY <3>4 DEF Typed, Sized, Inside, Fits, Covered, Spans
    <3> QED BY <3>3, <3>5 DEF Inv
  <2>2. CASE UNCHANGED vars
    BY <2>2 DEF vars, Inv, Typed, Sized, Inside, Spans
  <2> QED BY <2>1, <2>2
<1> QED BY <1>1, LoadedIsTyped, PTL DEF Spec

\* Every register and every word of a block is a word, a block has the words
\* the C library gave for it, and user_ptr never passes user_size
\* (cmd.c:4002-4438), whatever the program.
THEOREM TypeCorrect == Spec => []TypeOK
<1>1. Inv => TypeOK
  <2> SUFFICES ASSUME Inv PROVE TypeOK
    OBVIOUS
  <2>1. m \in Machines /\ m.stack.ptr <= m.stack.size /\ steps \in 0 .. MaxSteps
    BY DEF Inv, Typed
  <2>2. \A x \in Slots : m.mem[x].words \in [0 .. m.mem[x].given - 1 -> Word]
    BY DEF Inv, Typed, Fits
  <2>3. m.mem \in [Slots -> [used : BOOLEAN, given : 0 .. Space, size : Nat,
                             flags : SUBSET Flags, words : {m.mem[x].words : x \in Slots}]]
    BY <2>1 DEF Machines, Tables, Blocks
  <2>4. m \in [u : Regs, s : Regs, mem : {m.mem}, dmsiz : Dmsizes, stack : Stacks,
               change : Changes, raised : Truths, status : Statuses, resized : Truths, negative : Truths,
               grown : Truths]
    BY <2>1 DEF Machines
  <2> QED BY <2>1, <2>2, <2>3, <2>4 DEF TypeOK, Regs, Dmsizes, Stacks, Changes, Truths, Statuses
<1> QED BY <1>1, InvAlways, PTL

\* The checks of get_mem_value, set_mem_value and verify_access let no
\* instruction read or write beyond the process's blocks, whatever the
\* program and the sizes, until it has resized a block, worked on a negative
\* number of words or outgrown its table, or tried to
\* (bcode.c:181-219, 309-331, 353-366, 466-502).
THEOREM ChecksAreEnough == Spec => []AccessesStayInside
<1>1. Inv => AccessesStayInside
  BY DEF Inv, Inside, AccessesStayInside
<1> QED BY <1>1, InvAlways, PTL

\* An instruction that raises changes nothing before its last check: a handler
\* finds the process as the instruction found it, but that PUSH and POP have
\* moved the pointer of the user stack by one and that an ALLOC without a free
\* slot may have raised the number of slots without getting them
\* (bcode.c:350-358, 513-518, cmd.c:4236-4437).
THEOREM HandlerFindsWhatWas == Spec => RaisingLeavesNoTrace
<1>1. Inv /\ [Next]_vars =>
        [ m'.raised =>
            /\ m' = [m EXCEPT !.raised = TRUE, !.change = 0, !.u[0] = ErrorCode,
                              !.dmsiz = m'.dmsiz, !.grown = m.grown \/ m'.dmsiz # m.dmsiz,
                              !.stack.ptr = m'.stack.ptr]
            /\ Abs(m'.stack.ptr - m.stack.ptr) <= 1
            /\ m'.dmsiz # m.dmsiz => \A x \in Slots : m.mem[x].used ]_vars
  <2> SUFFICES ASSUME Inv, Next, m'.raised PROVE Traceless(m')
    BY DEF vars, Traceless
  <2>1. m.status = "runs"
    BY DEF Next, Execute
  <2> QED BY <2>1, StepIsGoodAsAWhole DEF Inv, Running, Good
<1> QED BY <1>1, InvAlways, PTL DEF Spec, RaisingLeavesNoTrace

\* An instruction that stays inside the blocks of its process changes no word
\* of a block without MEM_FLAG_WRITE, and no flags of a block with
\* MEM_FLAG_STRICT, while the block is there (bcode.c:309-331, 446-456,
\* 466-502).  Those that do not stay inside are the ones ChecksAreEnough names.
THEOREM ProtectedStaysProtected == Spec => ProtectionHolds
<1>1. Inv /\ [Next]_vars =>
        [ m'.status # "wild" =>
            \A x \in Slots :
              LET b == m.mem[x] c == m'.mem[x] IN
              b.used /\ c.used =>
                /\ "strict" \in b.flags => c.flags = b.flags
                /\ "write" \notin b.flags =>
                     \A k \in DOMAIN b.words \cap DOMAIN c.words : c.words[k] = b.words[k] ]_vars
  <2> SUFFICES ASSUME Inv, Next, NEW x \in Slots PROVE Guarded(m.mem[x], m'.mem[x])
    BY DEF vars, Guarded
  <2>1. m.status = "runs"
    BY DEF Next, Execute
  <2>2. Protected(m')
    BY <2>1, StepIsGoodAsAWhole DEF Inv, Running, Good
  <2> QED BY <2>2 DEF Protected
<1> QED BY <1>1, InvAlways, PTL DEF Spec, ProtectionHolds

=============================================================================
