--------------------------- MODULE AddressingProofs ---------------------------
(***************************************************************************)
(* The theorems about RouteWalk and NodeAddress, for every tree, every     *)
(* number of pipes and every set of radios, and the lemmas about           *)
(* Addressing they rest on.                                                *)
(*                                                                         *)
(* An address is the number its digits make: a node of the tree is given   *)
(* by how many digits it has and what they are (SameDigits).  The next hop *)
(* has one digit more, that of the destination, or one less; that is all   *)
(* the argument about paths needs to know of the masks.                    *)
(***************************************************************************)
EXTENDS RouteWalk, NodeAddress, SequenceTheorems, TLAPS

\* Powers of 8, which the provers do not compute.
LEMMA Powers ==
  8^0 = 1 /\ 8^1 = 8 /\ 8^2 = 64 /\ 8^3 = 512 /\ 8^4 = 4096 /\ 8^5 = 32768 /\ 8^6 = 262144
PROOF
  OBVIOUS

\* c is the number of octal digits of a, up to six.
HasDigits(a, c) == a < 8^c /\ (c = 0 \/ a >= 8^(c - 1))

\* The same by cases.
LEMMA DigitRanges ==
  ASSUME NEW a \in Nat
  PROVE  /\ HasDigits(a, 0) <=> a < 1
         /\ HasDigits(a, 1) <=> a < 8 /\ a >= 1
         /\ HasDigits(a, 2) <=> a < 64 /\ a >= 8
         /\ HasDigits(a, 3) <=> a < 512 /\ a >= 64
         /\ HasDigits(a, 4) <=> a < 4096 /\ a >= 512
         /\ HasDigits(a, 5) <=> a < 32768 /\ a >= 4096
         /\ HasDigits(a, 6) <=> a < 262144 /\ a >= 32768
PROOF
  <1>1. 1 - 1 = 0 /\ 2 - 1 = 1 /\ 3 - 1 = 2 /\ 4 - 1 = 3 /\ 5 - 1 = 4 /\ 6 - 1 = 5
    OBVIOUS
  <1> QED  BY <1>1, Powers DEF HasDigits

\* How many digits a number below 010000 has.
LEMMA Counted ==
  ASSUME NEW a \in Nat, a < 4096
  PROVE  \/ DigitCount(a) = 0 /\ a = 0
         \/ DigitCount(a) = 1 /\ a >= 1 /\ a < 8
         \/ DigitCount(a) = 2 /\ a >= 8 /\ a < 64
         \/ DigitCount(a) = 3 /\ a >= 64 /\ a < 512
         \/ DigitCount(a) = 4 /\ a >= 512
PROOF
  <1>1. PICK c \in 0..4 : HasDigits(a, c)
    <2>1. a \in Nat /\ a < 4096
      OBVIOUS
    <2>2. HasDigits(a, 0) \/ HasDigits(a, 1) \/ HasDigits(a, 2) \/ HasDigits(a, 3) \/ HasDigits(a, 4)
      BY <2>1, DigitRanges
    <2> QED  BY <2>2
  <1>2. ASSUME NEW d \in 0..6, HasDigits(a, d) PROVE d = c
    <2>1. d = 0 \/ d = 1 \/ d = 2 \/ d = 3 \/ d = 4 \/ d = 5 \/ d = 6
      OBVIOUS
    <2>2. c = 0 \/ c = 1 \/ c = 2 \/ c = 3 \/ c = 4
      BY <1>1
    <2> QED  BY <1>1, <1>2, <2>1, <2>2, DigitRanges
  <1>3. DigitCount(a) = CHOOSE d \in 0..6 : HasDigits(a, d)
    BY DEF DigitCount, HasDigits
  <1>4. DigitCount(a) = c
    BY <1>1, <1>2, <1>3
  <1>5. c = 0 \/ c = 1 \/ c = 2 \/ c = 3 \/ c = 4
    BY <1>1
  <1> QED  BY <1>1, <1>4, <1>5, DigitRanges

\* The octal digits, and how many of them an address may have.
Octal  == 0..7
Counts == 0..4

\* The lower four digits of an address.
AreDigits(a, d0, d1, d2, d3) ==
  Digit(a, 0) = d0 /\ Digit(a, 1) = d1 /\ Digit(a, 2) = d2 /\ Digit(a, 3) = d3

\* What they make.
Made(d0, d1, d2, d3) == d0 + 8 * d1 + 64 * d2 + 512 * d3

\* A number below 010000 and its four digits.
LEMMA FourDigits ==
  ASSUME NEW a \in Nat, a < 4096
  PROVE  \E d0, d1, d2, d3 \in Octal : AreDigits(a, d0, d1, d2, d3) /\ a = Made(d0, d1, d2, d3)
PROOF
  <1>1. /\ Digit(a, 0) = (a \div 1) % 8 /\ Digit(a, 1) = (a \div 8) % 8
        /\ Digit(a, 2) = (a \div 64) % 8 /\ Digit(a, 3) = (a \div 512) % 8
    BY Powers DEF Digit
  <1>2. PICK q1, q2, q3 : q1 = a \div 8 /\ q2 = a \div 64 /\ q3 = a \div 512
    OBVIOUS
  <1>3. a \div 1 = a
    OBVIOUS
  <1>4. q1 \in Nat /\ 8 * q1 <= a /\ a < 8 * q1 + 8
    BY <1>2
  <1>5. q2 \in Nat /\ 64 * q2 <= a /\ a < 64 * q2 + 64
    BY <1>2
  <1>6. q3 \in Nat /\ 512 * q3 <= a /\ a < 512 * q3 + 512
    BY <1>2
  <1>7. ASSUME NEW x \in Nat, NEW y \in Nat, 8 * y <= x, x < 8 * y + 8
        PROVE  x % 8 = x - 8 * y
    BY <1>7
  <1>8. Digit(a, 0) = a - 8 * q1
    BY <1>1, <1>3, <1>4, <1>7
  <1>9. Digit(a, 1) = q1 - 8 * q2
    BY <1>1, <1>2, <1>4, <1>5, <1>7
  <1>10. Digit(a, 2) = q2 - 8 * q3
    BY <1>1, <1>2, <1>5, <1>6, <1>7
  <1>11. Digit(a, 3) = q3
    <2>1. q3 \in Nat /\ q3 < 8
      <3>1. a \in Nat /\ a < 4096
        OBVIOUS
      <3> QED  BY <1>6, <3>1
    <2>2. q3 % 8 = q3
      BY <2>1
    <2>3. Digit(a, 3) = q3 % 8
      BY <1>1, <1>2
    <2> QED  BY <2>2, <2>3
  <1>12. PICK e0, e1, e2, e3 : AreDigits(a, e0, e1, e2, e3)
    BY DEF AreDigits
  <1>13. a \in Nat /\ a < 4096
    OBVIOUS
  <1>14. e0 = a - 8 * q1 /\ e1 = q1 - 8 * q2 /\ e2 = q2 - 8 * q3 /\ e3 = q3
    BY <1>8, <1>9, <1>10, <1>11, <1>12 DEF AreDigits
  <1>15. e0 \in Octal /\ e1 \in Octal /\ e2 \in Octal /\ e3 \in Octal
    BY <1>4, <1>5, <1>6, <1>13, <1>14 DEF Octal
  <1>16. a = Made(e0, e1, e2, e3)
    BY <1>4, <1>5, <1>6, <1>13, <1>14 DEF Made
  <1> QED  BY <1>12, <1>15, <1>16
\* The digits make the number, and no others do.
LEMMA UniqueDigits ==
  ASSUME NEW e0 \in Octal, NEW e1 \in Octal, NEW e2 \in Octal, NEW e3 \in Octal,
         NEW a, a = Made(e0, e1, e2, e3)
  PROVE  a \in Nat /\ a < 4096 /\ AreDigits(a, e0, e1, e2, e3)
PROOF
  <1>1. a \in Nat /\ a < 4096
    <2>1. e0 \in Nat /\ e1 \in Nat /\ e2 \in Nat /\ e3 \in Nat
      BY DEF Octal
    <2>2. e0 < 8 /\ e1 < 8 /\ e2 < 8 /\ e3 < 8
      BY DEF Octal
    <2> QED  BY <2>1, <2>2 DEF Made
  <1>2. PICK d0, d1, d2, d3 \in Octal : AreDigits(a, d0, d1, d2, d3) /\ a = Made(d0, d1, d2, d3)
    BY <1>1, FourDigits
  <1>3. d0 = e0 /\ d1 = e1 /\ d2 = e2 /\ d3 = e3
    BY <1>2 DEF Made, Octal
  <1> QED  BY <1>1, <1>2, <1>3

\* x has the first k digits of a, and no others.
Begins(x, a, k) == /\ x \in Nat /\ x < 4096
                   /\ \A j \in 0..3 : Digit(x, j) = IF j < k THEN Digit(a, j) ELSE 0

\* That is what an address is under the mask 8^k - 1.
LEMMA FirstDigits ==
  ASSUME NEW a \in Nat, a < 4096, NEW k \in Counts
  PROVE  Begins(a % 8^k, a, k)
PROOF
  <1>1. PICK d0, d1, d2, d3 \in Octal : AreDigits(a, d0, d1, d2, d3) /\ a = Made(d0, d1, d2, d3)
    BY FourDigits
  <1>2. /\ a = d0 + 8 * d1 + 64 * d2 + 512 * d3
        /\ d0 \in 0..7 /\ d1 \in 0..7 /\ d2 \in 0..7 /\ d3 \in 0..7
        /\ Digit(a, 0) = d0 /\ Digit(a, 1) = d1 /\ Digit(a, 2) = d2 /\ Digit(a, 3) = d3
    BY <1>1 DEF AreDigits, Made, Octal
  <1> DEFINE e(j) == IF j < k THEN Digit(a, j) ELSE 0
  <1>3. k = 0 \/ k = 1 \/ k = 2 \/ k = 3 \/ k = 4
    BY DEF Counts
  <1>4. PICK b : b = a % 8^k
    OBVIOUS
  <1>5. b = Made(e(0), e(1), e(2), e(3))
    <2>1. CASE k = 0
      <3>1. b = a % 1
        BY <1>4, <2>1, Powers
      <3> QED  BY <3>1, <2>1 DEF Made
    <2>2. CASE k = 1
      <3>1. b = a % 8
        BY <1>4, <2>2, Powers
      <3>2. b = d0
        BY <3>1, <1>2
      <3> QED  BY <3>2, <2>2, <1>2 DEF Made
    <2>3. CASE k = 2
      <3>1. b = a % 64
        BY <1>4, <2>3, Powers
      <3>2. b = d0 + 8 * d1
        BY <3>1, <1>2
      <3> QED  BY <3>2, <2>3, <1>2 DEF Made
    <2>4. CASE k = 3
      <3>1. b = a % 512
        BY <1>4, <2>4, Powers
      <3>2. b = d0 + 8 * d1 + 64 * d2
        BY <3>1, <1>2
      <3> QED  BY <3>2, <2>4, <1>2 DEF Made
    <2>5. CASE k = 4
      <3>1. b = a % 4096
        BY <1>4, <2>5, Powers
      <3>2. b = a
        BY <3>1
      <3> QED  BY <3>2, <2>5, <1>2 DEF Made
    <2> QED  BY <1>3, <2>1, <2>2, <2>3, <2>4, <2>5
  <1>6. \A j \in 0..3 : e(j) \in Octal
    <2>1. \A j \in 0..3 : Digit(a, j) \in Octal
      <3>1. \A j \in 0..3 : j = 0 \/ j = 1 \/ j = 2 \/ j = 3
        OBVIOUS
      <3> QED  BY <3>1, <1>2 DEF Octal
    <2> QED  BY <2>1 DEF Octal, Counts
  <1> HIDE DEF e
  <1>7. b \in Nat /\ b < 4096 /\ AreDigits(b, e(0), e(1), e(2), e(3))
    <2>1. e(0) \in Octal /\ e(1) \in Octal /\ e(2) \in Octal /\ e(3) \in Octal
      BY <1>6
    <2> QED  BY <1>5, <2>1, UniqueDigits
  <1>8. \A j \in 0..3 : Digit(b, j) = e(j)
    <2>1. \A j \in 0..3 : j = 0 \/ j = 1 \/ j = 2 \/ j = 3
      OBVIOUS
    <2> QED  BY <1>7, <2>1 DEF AreDigits
  <1>9. Begins(b, a, k)
    BY <1>7, <1>8 DEF e, Begins
  <1> QED  BY <1>4, <1>9

\* The digits of a node of the tree: so many, all of them numbers of pipes.
TreeDigits(a, c) ==
  /\ a \in Nat /\ a < 4096 /\ c \in 0..4
  /\ \A k \in 0..3 : IF k < c THEN Digit(a, k) \in 1..(NUM_PIPES - 1) ELSE Digit(a, k) = 0

\* A node of the tree has such digits.
LEMMA DigitsOfTree ==
  ASSUME NEW a \in TreeAddress
  PROVE  TreeDigits(a, DigitCount(a))
PROOF
  <1>0. a \in 0..4095
    BY DEF TreeAddress
  <1>1. /\ a \in Nat /\ a < 4096
        /\ \A k \in 0..3 : k < DigitCount(a) => Digit(a, k) \in 1..(NUM_PIPES - 1)
    BY <1>0 DEF TreeAddress, is_valid_address
  <1>2. PICK d0, d1, d2, d3 \in Octal : AreDigits(a, d0, d1, d2, d3) /\ a = Made(d0, d1, d2, d3)
    BY <1>1, FourDigits
  <1>3. /\ a = d0 + 8 * d1 + 64 * d2 + 512 * d3
        /\ d0 \in 0..7 /\ d1 \in 0..7 /\ d2 \in 0..7 /\ d3 \in 0..7
        /\ Digit(a, 0) = d0 /\ Digit(a, 1) = d1 /\ Digit(a, 2) = d2 /\ Digit(a, 3) = d3
    BY <1>2 DEF AreDigits, Made, Octal
  <1>4. PICK c : c = DigitCount(a)
    OBVIOUS
  <1>5. \/ c = 0 /\ a = 0
        \/ c = 1 /\ a >= 1 /\ a < 8
        \/ c = 2 /\ a >= 8 /\ a < 64
        \/ c = 3 /\ a >= 64 /\ a < 512
        \/ c = 4 /\ a >= 512
    BY <1>1, <1>4, Counted
  <1>6. /\ c <= 0 => d0 = 0
        /\ c <= 1 => d1 = 0
        /\ c <= 2 => d2 = 0
        /\ c <= 3 => d3 = 0
    BY <1>3, <1>5
  <1>7. c \in 0..4
    BY <1>5
  <1>8. \A k \in 0..3 : ~(k < c) => Digit(a, k) = 0
    <2>1. \A k \in 0..3 : k = 0 \/ k = 1 \/ k = 2 \/ k = 3
      OBVIOUS
    <2> QED  BY <1>3, <1>6, <1>7, <2>1
  <1> QED  BY <1>1, <1>4, <1>7, <1>8 DEF TreeDigits

\* And what has such digits is in the tree.
LEMMA TreeOfDigits ==
  ASSUME NEW a, NEW c, TreeDigits(a, c)
  PROVE  a \in TreeAddress /\ DigitCount(a) = c
PROOF
  <1>1. /\ a \in Nat /\ a < 4096 /\ c \in 0..4
        /\ \A k \in 0..3 : k < c => Digit(a, k) \in 1..(NUM_PIPES - 1)
        /\ \A k \in 0..3 : ~(k < c) => Digit(a, k) = 0
    BY DEF TreeDigits
  <1>2. PICK d0, d1, d2, d3 \in Octal : AreDigits(a, d0, d1, d2, d3) /\ a = Made(d0, d1, d2, d3)
    BY <1>1, FourDigits
  <1>3. /\ a = d0 + 8 * d1 + 64 * d2 + 512 * d3
        /\ d0 \in 0..7 /\ d1 \in 0..7 /\ d2 \in 0..7 /\ d3 \in 0..7
        /\ Digit(a, 0) = d0 /\ Digit(a, 1) = d1 /\ Digit(a, 2) = d2 /\ Digit(a, 3) = d3
    BY <1>2 DEF AreDigits, Made, Octal
  <1>4. /\ IF 0 < c THEN d0 >= 1 ELSE d0 = 0
        /\ IF 1 < c THEN d1 >= 1 ELSE d1 = 0
        /\ IF 2 < c THEN d2 >= 1 ELSE d2 = 0
        /\ IF 3 < c THEN d3 >= 1 ELSE d3 = 0
    BY <1>1, <1>3, NumPipesAssumption
  <1>5. DigitCount(a) = c
    <2>1. PICK n : n = DigitCount(a)
      OBVIOUS
    <2>2. \/ n = 0 /\ a = 0
          \/ n = 1 /\ a >= 1 /\ a < 8
          \/ n = 2 /\ a >= 8 /\ a < 64
          \/ n = 3 /\ a >= 64 /\ a < 512
          \/ n = 4 /\ a >= 512
      BY <1>1, <2>1, Counted
    <2>3. n = c
      BY <1>1, <1>3, <1>4, <2>2
    <2> QED  BY <2>1, <2>3
  <1>6. a # 64 /\ a # 8 /\ a # 512
    BY <1>1, <1>3, <1>4
  <1> QED  BY <1>1, <1>5, <1>6 DEF TreeAddress, is_valid_address, NETWORK_MULTICAST_ADDRESS,
              NETWORK_MULTICAST_ADDRESS_LEVEL_2, NETWORK_MULTICAST_ADDRESS_LEVEL_4
\* A number below 010000 is given by its digits.
Alike(a, b) == \A k \in 0..3 : Digit(a, k) = Digit(b, k)

\* Two numbers with the same digits are the same.
LEMMA SameDigits ==
  ASSUME NEW a \in Nat, a < 4096, NEW b \in Nat, b < 4096,
         Alike(a, b)
  PROVE  a = b
PROOF
  <1>1. PICK d0, d1, d2, d3 \in Octal : AreDigits(a, d0, d1, d2, d3) /\ a = Made(d0, d1, d2, d3)
    BY FourDigits
  <1>2. PICK e0, e1, e2, e3 \in Octal : AreDigits(b, e0, e1, e2, e3) /\ b = Made(e0, e1, e2, e3)
    BY FourDigits
  <1>3. e0 = d0 /\ e1 = d1 /\ e2 = d2 /\ e3 = d3
    <2>1. 0 \in 0..3 /\ 1 \in 0..3 /\ 2 \in 0..3 /\ 3 \in 0..3
      OBVIOUS
    <2> QED  BY <1>1, <1>2, <2>1 DEF AreDigits, Alike
  <1> QED  BY <1>1, <1>2, <1>3

-----------------------------------------------------------------------------
\* The masks of a node, and its parent.
LEMMA EightTo ==
  ASSUME NEW c \in Counts
  PROVE  8^c \in Nat /\ 8^c >= 1 /\ 8^c <= 4096 /\ 8^(c + 1) = 8 * 8^c
PROOF
  <1>1. CASE c = 0
    <2>1. c + 1 = 1
      BY <1>1
    <2> QED  BY <1>1, <2>1, Powers
  <1>2. CASE c = 1
    <2>1. c + 1 = 2
      BY <1>2
    <2> QED  BY <1>2, <2>1, Powers
  <1>3. CASE c = 2
    <2>1. c + 1 = 3
      BY <1>3
    <2> QED  BY <1>3, <2>1, Powers
  <1>4. CASE c = 3
    <2>1. c + 1 = 4
      BY <1>4
    <2> QED  BY <1>4, <2>1, Powers
  <1>5. CASE c = 4
    <2>1. c + 1 = 5
      BY <1>5
    <2> QED  BY <1>5, <2>1, Powers
  <1>6. c = 0 \/ c = 1 \/ c = 2 \/ c = 3 \/ c = 4
    BY DEF Counts
  <1> QED  BY <1>1, <1>2, <1>3, <1>4, <1>5, <1>6

\* n is t or one of the nodes between t and the master.
Above(n, t) == \A k \in 0..3 : k < DigitCount(n) => Digit(n, k) = Digit(t, k)

\* The mask finds the nodes below.
LEMMA Descendants ==
  ASSUME NEW n \in TreeAddress, NEW t \in TreeAddress
  PROVE  is_descendant(setup_address(n), t) <=> Above(n, t)
PROOF
  <1>1. PICK c : c = DigitCount(n)
    OBVIOUS
  <1>2. TreeDigits(n, c) /\ TreeDigits(t, DigitCount(t))
    BY <1>1, DigitsOfTree
  <1>3. /\ c \in 0..4 /\ n \in Nat /\ n < 4096 /\ t \in Nat /\ t < 4096
        /\ \A k \in 0..3 : ~(k < c) => Digit(n, k) = 0
    BY <1>2 DEF TreeDigits
  <1>4. is_descendant(setup_address(n), t) <=> t % 8^c = n
    <2>1. c \in Counts
      BY <1>3 DEF Counts
    <2>3. (8^c - 1) + 1 = 8^c
      BY <2>1, EightTo
    <2> QED  BY <1>1, <2>3 DEF is_descendant, setup_address, And
  <1>5. PICK x : x = t % 8^c
    OBVIOUS
  <1>9. Begins(x, t, c)
    <2>1. c \in Counts /\ t \in Nat /\ t < 4096
      BY <1>3 DEF Counts
    <2>2. Begins(t % 8^c, t, c)
      BY <2>1, FirstDigits
    <2> QED  BY <1>5, <2>2
  <1>6. /\ x \in Nat /\ x < 4096
        /\ \A k \in 0..3 : Digit(x, k) = IF k < c THEN Digit(t, k) ELSE 0
    BY <1>9 DEF Begins
  <1>7. x = n => Above(n, t)
    BY <1>1, <1>6 DEF Above
  <1>8. Above(n, t) => x = n
    <2>1. ASSUME Above(n, t), NEW k \in 0..3 PROVE Digit(x, k) = Digit(n, k)
      BY <1>1, <1>3, <1>6, <2>1 DEF Above
    <2>2. Above(n, t) => Alike(x, n)
      BY <2>1 DEF Alike
    <2>3. x \in Nat /\ x < 4096 /\ n \in Nat /\ n < 4096
      BY <1>3, <1>6
    <2> QED  BY <2>2, <2>3, SameDigits
  <1> QED  BY <1>4, <1>5, <1>7, <1>8

\* Who is above has fewer digits.
LEMMA AboveShorter ==
  ASSUME NEW n \in TreeAddress, NEW t \in TreeAddress, Above(n, t), n # t
  PROVE  DigitCount(n) < DigitCount(t)
PROOF
  <1>1. PICK c, d : c = DigitCount(n) /\ d = DigitCount(t)
    OBVIOUS
  <1>2. TreeDigits(n, c) /\ TreeDigits(t, d)
    BY <1>1, DigitsOfTree
  <1>3. /\ n \in Nat /\ n < 4096 /\ t \in Nat /\ t < 4096 /\ c \in 0..4 /\ d \in 0..4
        /\ \A k \in 0..3 : IF k < c THEN Digit(n, k) \in 1..(NUM_PIPES - 1) ELSE Digit(n, k) = 0
        /\ \A k \in 0..3 : IF k < d THEN Digit(t, k) \in 1..(NUM_PIPES - 1) ELSE Digit(t, k) = 0
    BY <1>2 DEF TreeDigits
  <1>4. \A k \in 0..3 : k < c => Digit(n, k) = Digit(t, k)
    BY <1>1 DEF Above
  <1>5. ~(c < d) => Alike(n, t)
    BY <1>3, <1>4 DEF Alike
  <1>6. n \in Nat /\ n < 4096 /\ t \in Nat /\ t < 4096
    BY <1>3
  <1>7. c < d
    BY <1>5, <1>6, SameDigits
  <1> QED  BY <1>1, <1>7

\* The next hop: one digit more, that of the destination, or one digit less.
Beside(m, c, t) == /\ m \in TreeAddress /\ DigitCount(m) = c
                   /\ \A k \in 0..3 : k < c => Digit(m, k) = Digit(t, k)

\* What the first c digits of a node make is a node.
LEMMA FirstDigitsNode ==
  ASSUME NEW t \in TreeAddress, NEW c \in Counts, c <= DigitCount(t)
  PROVE  Beside(t % 8^c, c, t)
PROOF
  <1>1. TreeDigits(t, DigitCount(t))
    BY DigitsOfTree
  <1>2. /\ t \in Nat /\ t < 4096 /\ DigitCount(t) \in 0..4
        /\ \A k \in 0..3 : k < DigitCount(t) => Digit(t, k) \in 1..(NUM_PIPES - 1)
    BY <1>1 DEF TreeDigits
  <1>3. PICK x : x = t % 8^c
    OBVIOUS
  <1>6. Begins(x, t, c)
    <2>1. t \in Nat /\ t < 4096
      BY <1>2
    <2>2. Begins(t % 8^c, t, c)
      BY <2>1, FirstDigits
    <2> QED  BY <1>3, <2>2
  <1>4. /\ x \in Nat /\ x < 4096
        /\ \A k \in 0..3 : Digit(x, k) = IF k < c THEN Digit(t, k) ELSE 0
    BY <1>6 DEF Begins
  <1>5. TreeDigits(x, c)
    <2>1. x \in 0..4095
      BY <1>4
    <2> QED  BY <1>2, <1>4, <2>1 DEF TreeDigits, Counts
  <1> QED  BY <1>3, <1>4, <1>5, TreeOfDigits DEF Beside
\* The members that begin() derives from the address, whatever the multicast level is.
Masks(self, n) ==
  /\ self.node_address = n /\ self.node_mask = setup_address(n).node_mask
  /\ self.parent_node = setup_address(n).parent_node
  /\ self.parent_pipe = setup_address(n).parent_pipe

\* What they are, for a node with c digits.
LEMMA MasksAre ==
  ASSUME NEW n \in TreeAddress, NEW self, Masks(self, n), NEW c, c = DigitCount(n)
  PROVE  /\ c \in Counts
         /\ self.node_address = n /\ self.node_mask = 8^c - 1
         /\ 8 * (self.node_mask + 1) = 8^(c + 1)
         /\ (8 * self.node_mask + 7) + 1 = 8^(c + 1)
         /\ c # 0 => self.parent_node = n % 8^(c - 1) /\ self.parent_pipe = n \div 8^(c - 1)
PROOF
  <1>1. c \in Counts
    BY DigitsOfTree DEF TreeDigits, Counts
  <1>2. self.node_address = n /\ self.node_mask = 8^c - 1
    BY DEF Masks, setup_address
  <1>3. PICK u : u = 8^c
    OBVIOUS
  <1>4. u \in Nat /\ u >= 1 /\ 8^(c + 1) = 8 * u
    BY <1>1, <1>3, EightTo
  <1>5. 8 * (self.node_mask + 1) = 8^(c + 1) /\ (8 * self.node_mask + 7) + 1 = 8^(c + 1)
    BY <1>2, <1>3, <1>4
  <1>6. c # 0 => self.parent_node = n % 8^(c - 1) /\ self.parent_pipe = n \div 8^(c - 1)
    <2>1. c # 0 => (8^(c - 1) - 1) + 1 = 8^(c - 1)
      <3>1. c # 0 => c - 1 \in Counts
        BY <1>1 DEF Counts
      <3> QED  BY <3>1, EightTo
    <2> QED  BY <2>1 DEF Masks, setup_address, And
  <1> QED  BY <1>1, <1>2, <1>5, <1>6

\* The digit of a node among its siblings is the number of a pipe.
LEMMA ParentPipe ==
  ASSUME NEW n \in TreeAddress, NEW c \in Counts, c = DigitCount(n), c # 0
  PROVE  n \div 8^(c - 1) \in 1..(NUM_PIPES - 1)
PROOF
  <1>1. TreeDigits(n, c)
    BY DigitsOfTree
  <1>2. n \in Nat /\ n < 4096 /\ Digit(n, c - 1) \in 1..(NUM_PIPES - 1)
    BY <1>1 DEF TreeDigits, Counts
  <1>3. PICK q : q = n \div 8^(c - 1)
    OBVIOUS
  <1>4. q \in Nat /\ q < 8
    <2>1. \/ c = 1 /\ n < 8
          \/ c = 2 /\ n < 64
          \/ c = 3 /\ n < 512
          \/ c = 4 /\ n < 4096
      BY <1>2, Counted
    <2>2. CASE c = 1
      <3>1. q = n \div 1
        <4>1. c - 1 = 0
          BY <2>2
        <4> QED  BY <1>3, <4>1, Powers
      <3> QED  BY <1>2, <2>1, <2>2, <3>1
    <2>3. CASE c = 2
      <3>1. q = n \div 8
        <4>1. c - 1 = 1
          BY <2>3
        <4> QED  BY <1>3, <4>1, Powers
      <3> QED  BY <1>2, <2>1, <2>3, <3>1
    <2>4. CASE c = 3
      <3>1. q = n \div 64
        <4>1. c - 1 = 2
          BY <2>4
        <4> QED  BY <1>3, <4>1, Powers
      <3> QED  BY <1>2, <2>1, <2>4, <3>1
    <2>5. CASE c = 4
      <3>1. q = n \div 512
        <4>1. c - 1 = 3
          BY <2>5
        <4> QED  BY <1>3, <4>1, Powers
      <3> QED  BY <1>2, <2>1, <2>5, <3>1
    <2> QED  BY <2>1, <2>2, <2>3, <2>4, <2>5
  <1>5. Digit(n, c - 1) = q
    <2>1. q % 8 = q
      BY <1>4
    <2>2. Digit(n, c - 1) = q % 8
      BY <1>3 DEF Digit
    <2> QED  BY <2>1, <2>2
  <1> QED  BY <1>2, <1>3, <1>5

\* The next hop from n to t: down if n is above t, else up to the parent.
IsHop(h, n, t) ==
  /\ h.send_pipe \in 1..(NUM_PIPES - 1)
  /\ IF Above(n, t)
     THEN /\ DigitCount(n) < DigitCount(t)
          /\ Beside(h.send_node, DigitCount(n) + 1, t)
     ELSE /\ DigitCount(n) # 0
          /\ Beside(h.send_node, DigitCount(n) - 1, n)

\* That is what logicalToPhysicalAddress() computes, also with the level changed.
LEMMA HopOf ==
  ASSUME NEW n \in TreeAddress, NEW t \in TreeAddress, n # t,
         NEW self, Masks(self, n), NEW type \in { TX_NORMAL, TX_ROUTED }
  PROVE  IsHop(logicalToPhysicalAddress(self, t, type), n, t)
PROOF
  <1>1. PICK c : c = DigitCount(n)
    OBVIOUS
  <1>2. /\ c \in Counts
        /\ self.node_address = n /\ self.node_mask = 8^c - 1
        /\ 8 * (self.node_mask + 1) = 8^(c + 1)
        /\ (8 * self.node_mask + 7) + 1 = 8^(c + 1)
        /\ c # 0 => self.parent_node = n % 8^(c - 1) /\ self.parent_pipe = n \div 8^(c - 1)
    BY <1>1, MasksAre
  <1>3. PICK h : h = logicalToPhysicalAddress(self, t, type)
    OBVIOUS
  <1>4. is_descendant(self, t) <=> Above(n, t)
    <2>1. is_descendant(self, t) <=> is_descendant(setup_address(n), t)
      BY DEF is_descendant, Masks, setup_address
    <2> QED  BY <2>1, Descendants
  <1>5. /\ is_descendant(self, t) =>
             /\ h.send_node = IF is_direct_child(self, t) THEN t ELSE direct_child_route_to(self, t)
             /\ h.send_pipe = NUM_PIPES - 1
        /\ ~is_descendant(self, t) =>
             h.send_node = self.parent_node /\ h.send_pipe = self.parent_pipe
    <2>1. ~(type > TX_ROUTED)
      BY DEF TX_NORMAL, TX_ROUTED
    <2> QED  BY <1>3, <2>1 DEF logicalToPhysicalAddress
  <1>6. CASE Above(n, t)
    <2>1. c < DigitCount(t)
      BY <1>1, <1>6, AboveShorter
    <2>2. t \in Nat /\ DigitCount(t) \in Counts
      BY DigitsOfTree DEF TreeDigits, Counts
    <2>3. c + 1 \in Counts /\ c + 1 <= DigitCount(t)
      BY <1>2, <2>1, <2>2 DEF Counts
    <2>4. PICK u : u = 8^(c + 1)
      OBVIOUS
    <2>5. u \in Nat \ {0}
      BY <2>3, <2>4, EightTo
    <2>6. h.send_node = t % u
      <3>1. is_direct_child(self, t) <=> t < u
        BY <1>2, <2>4 DEF is_direct_child
      <3>2. t < u => t % u = t
        BY <2>2, <2>5
      <3>3. direct_child_route_to(self, t) = t % u
        BY <1>2, <2>4 DEF direct_child_route_to, And
      <3> QED  BY <1>4, <1>5, <1>6, <3>1, <3>2, <3>3
    <2>7. Beside(h.send_node, c + 1, t)
      BY <2>3, <2>4, <2>6, FirstDigitsNode
    <2>8. h.send_pipe \in 1..(NUM_PIPES - 1)
      BY <1>4, <1>5, <1>6, NumPipesAssumption
    <2> QED  BY <1>1, <1>3, <1>6, <2>1, <2>7, <2>8 DEF IsHop
  <1>7. CASE ~Above(n, t)
    <2>1. c # 0
      BY <1>1, <1>7 DEF Above
    <2>2. c - 1 \in Counts /\ c - 1 <= DigitCount(n)
      BY <1>1, <1>2, <2>1 DEF Counts
    <2>3. Beside(h.send_node, c - 1, n)
      <3>1. Beside(n % 8^(c - 1), c - 1, n)
        BY <2>2, FirstDigitsNode
      <3> QED  BY <1>2, <1>4, <1>5, <1>7, <2>1, <3>1
    <2>4. h.send_pipe \in 1..(NUM_PIPES - 1)
      <3>1. n \div 8^(c - 1) \in 1..(NUM_PIPES - 1)
        BY <1>1, <1>2, <2>1, ParentPipe
      <3> QED  BY <1>2, <1>4, <1>5, <1>7, <2>1, <3>1
    <2> QED  BY <1>1, <1>3, <1>7, <2>1, <2>3, <2>4 DEF IsHop
  <1> QED  BY <1>6, <1>7
-----------------------------------------------------------------------------
\* The paths of x and y from the master are the same for c digits, and part there.
Agree(x, y, c) == /\ c \in Counts /\ c <= DigitCount(x) /\ c <= DigitCount(y)
                  /\ \A k \in 0..3 : k < c => Digit(x, k) = Digit(y, k)
Part(x, y, c)  == /\ Agree(x, y, c)
                  /\ \/ c = DigitCount(x) \/ c = DigitCount(y)
                     \/ Digit(x, c) # Digit(y, c)

\* The number of digits of a node, as a number.
LEMMA CountType ==
  ASSUME NEW a \in TreeAddress
  PROVE  DigitCount(a) \in Nat /\ DigitCount(a) <= 4
PROOF
  BY DigitsOfTree DEF TreeDigits

\* They part somewhere.
LEMMA PartSomewhere ==
  ASSUME NEW x \in TreeAddress, NEW y \in TreeAddress
  PROVE  \E c \in Counts : Part(x, y, c)
PROOF
  <1>1. PICK a, b : a = DigitCount(x) /\ b = DigitCount(y)
    OBVIOUS
  <1>2. a \in Nat /\ a <= 4 /\ b \in Nat /\ b <= 4
    BY <1>1, CountType
  <1>3. Agree(x, y, 0)
    BY <1>1, <1>2 DEF Agree, Counts
  <1>4. ASSUME NEW c \in 0..3, Agree(x, y, c), ~Part(x, y, c)
        PROVE  Agree(x, y, c + 1)
    <2>1. c <= a /\ c <= b /\ c # a /\ c # b /\ Digit(x, c) = Digit(y, c)
      BY <1>1, <1>4 DEF Part, Agree
    <2>2. \A k \in 0..3 : k < c + 1 => Digit(x, k) = Digit(y, k)
      BY <1>4, <2>1 DEF Agree
    <2> QED  BY <1>1, <1>2, <2>1, <2>2 DEF Agree, Counts
  <1>5. Agree(x, y, 4) => Part(x, y, 4)
    BY <1>1, <1>2 DEF Agree, Part
  <1>6. 0 + 1 = 1 /\ 1 + 1 = 2 /\ 2 + 1 = 3 /\ 3 + 1 = 4
    OBVIOUS
  <1>7. Part(x, y, 0) \/ Agree(x, y, 1)
    BY <1>3, <1>4, <1>6
  <1>8. Part(x, y, 0) \/ Part(x, y, 1) \/ Agree(x, y, 2)
    BY <1>4, <1>6, <1>7
  <1>9. Part(x, y, 0) \/ Part(x, y, 1) \/ Part(x, y, 2) \/ Agree(x, y, 3)
    BY <1>4, <1>6, <1>8
  <1>10. Part(x, y, 0) \/ Part(x, y, 1) \/ Part(x, y, 2) \/ Part(x, y, 3) \/ Part(x, y, 4)
    BY <1>4, <1>5, <1>6, <1>9
  <1> QED  BY <1>10 DEF Counts

\* Where they part is what they have in common.
LEMMA CommonIs ==
  ASSUME NEW x \in TreeAddress, NEW y \in TreeAddress, NEW c, Part(x, y, c)
  PROVE  CommonLen(Path(x), Path(y)) = c
PROOF
  <1>1. PICK a, b : a = DigitCount(x) /\ b = DigitCount(y)
    OBVIOUS
  <1>2. a \in Nat /\ a <= 4 /\ b \in Nat /\ b <= 4
    BY <1>1, CountType
  <1>3. /\ Path(x) = [ i \in 1..a |-> Digit(x, i - 1) ]
        /\ Path(y) = [ i \in 1..b |-> Digit(y, i - 1) ]
    BY <1>1 DEF Path
  <1>4. /\ Len(Path(x)) = a /\ \A j \in 1..a : Path(x)[j] = Digit(x, j - 1)
        /\ Len(Path(y)) = b /\ \A j \in 1..b : Path(y)[j] = Digit(y, j - 1)
    BY <1>2, <1>3
  <1>5. PICK p, q : p = Path(x) /\ q = Path(y)
    OBVIOUS
  <1>6. /\ Len(p) = a /\ \A j \in 1..a : p[j] = Digit(x, j - 1)
        /\ Len(q) = b /\ \A j \in 1..b : q[j] = Digit(y, j - 1)
    BY <1>4, <1>5
  <1> DEFINE common == { i \in 0..4 : /\ i <= Len(p) /\ i <= Len(q)
                                      /\ \A j \in 1..i : p[j] = q[j] }
  <1>7. \A i : i \in common <=> Agree(x, y, i)
    <2>1. ASSUME NEW i \in common PROVE Agree(x, y, i)
      <3>1. i \in 0..4 /\ i <= a /\ i <= b
        BY <1>6
      <3>2. ASSUME NEW k \in 0..3, k < i PROVE Digit(x, k) = Digit(y, k)
        <4>1. k + 1 \in 1..i /\ k + 1 \in 1..a /\ k + 1 \in 1..b /\ (k + 1) - 1 = k
          BY <1>2, <3>1, <3>2
        <4>2. p[k + 1] = q[k + 1]
          BY <4>1
        <4> QED  BY <1>6, <4>1, <4>2
      <3> QED  BY <1>1, <3>1, <3>2 DEF Agree, Counts
    <2>2. ASSUME NEW i, Agree(x, y, i) PROVE i \in common
      <3>1. i \in 0..4 /\ i <= a /\ i <= b
        BY <1>1, <2>2 DEF Agree, Counts
      <3>2. ASSUME NEW j \in 1..i PROVE p[j] = q[j]
        <4>1. j \in 1..a /\ j \in 1..b /\ j - 1 \in 0..3 /\ j - 1 < i
          BY <1>2, <3>1
        <4>2. Digit(x, j - 1) = Digit(y, j - 1)
          BY <2>2, <4>1 DEF Agree
        <4> QED  BY <1>6, <4>1, <4>2
      <3> QED  BY <1>6, <3>1, <3>2
    <2> QED  BY <2>1, <2>2
  <1>8. CommonLen(p, q) = CHOOSE i \in common : \A j \in common : j <= i
    BY DEF CommonLen
  <1> HIDE DEF common
  <1>9. c \in common /\ c \in Counts
    BY <1>7 DEF Part, Agree
  <1>10. ASSUME NEW j \in common PROVE j \in Counts /\ j <= c
    <2>1. Agree(x, y, j) /\ j \in 0..4 /\ c \in 0..4 /\ j <= a /\ j <= b
      BY <1>1, <1>7, <1>9, <1>10 DEF Agree, Counts
    <2>2. SUFFICES ASSUME c < j PROVE FALSE
      BY <2>1 DEF Counts
    <2>3. c \in 0..3 /\ c # a /\ c # b
      BY <1>2, <2>1, <2>2
    <2>4. Digit(x, c) = Digit(y, c)
      BY <2>1, <2>2, <2>3 DEF Agree
    <2> QED  BY <1>1, <2>3, <2>4 DEF Part
  <1>11. ASSUME NEW i \in common, \A j \in common : j <= i PROVE i = c
    BY <1>9, <1>10, <1>11 DEF Counts
  <1>12. (CHOOSE i \in common : \A j \in common : j <= i) = c
    BY <1>9, <1>10, <1>11
  <1> QED  BY <1>5, <1>8, <1>12

\* The distance of two nodes.
LEMMA DistIs ==
  ASSUME NEW x \in TreeAddress, NEW y \in TreeAddress, NEW c, Part(x, y, c)
  PROVE  Dist(x, y) = DigitCount(x) + DigitCount(y) - 2 * c
PROOF
  <1>1. \A z \in TreeAddress : Len(Path(z)) = DigitCount(z)
    <2>1. ASSUME NEW z \in TreeAddress, NEW a, a = DigitCount(z) PROVE Len(Path(z)) = a
      <3>1. a \in Nat
        BY <2>1, CountType
      <3>2. Path(z) = [ i \in 1..a |-> Digit(z, i - 1) ]
        BY <2>1 DEF Path
      <3> QED  BY <3>1, <3>2
    <2> QED  BY <2>1
  <1>2. CommonLen(Path(x), Path(y)) = c
    BY CommonIs
  <1> QED  BY <1>1, <1>2 DEF Dist

\* It is the same both ways.
LEMMA PartBack ==
  ASSUME NEW x, NEW y, NEW c, Part(x, y, c)
  PROVE  Part(y, x, c)
PROOF
  BY DEF Part, Agree

\* The distance is the same in both directions.
LEMMA DistBack ==
  ASSUME NEW x \in TreeAddress, NEW y \in TreeAddress
  PROVE  Dist(x, y) = Dist(y, x) /\ Dist(x, y) \in Nat /\ Dist(x, x) = 0
PROOF
  <1>1. PICK c \in Counts : Part(x, y, c)
    BY PartSomewhere
  <1>2. /\ DigitCount(x) \in Nat /\ DigitCount(x) <= 4 /\ DigitCount(y) \in Nat
        /\ c \in Nat /\ c <= DigitCount(x) /\ c <= DigitCount(y)
    BY <1>1, CountType DEF Part, Agree, Counts
  <1>3. Dist(x, y) = DigitCount(x) + DigitCount(y) - 2 * c
    BY <1>1, DistIs
  <1>4. Dist(y, x) = DigitCount(y) + DigitCount(x) - 2 * c
    BY <1>1, PartBack, DistIs
  <1>5. Part(x, x, DigitCount(x))
    BY <1>2 DEF Part, Agree, Counts
  <1>6. Dist(x, x) = DigitCount(x) + DigitCount(x) - 2 * DigitCount(x)
    BY <1>5, DistIs
  <1> QED  BY <1>2, <1>3, <1>4, <1>6

\* Of three paths two have in common what the third has with one of them.
LEMMA ThreePaths ==
  ASSUME NEW f \in TreeAddress, NEW n \in TreeAddress, NEW t \in TreeAddress,
         NEW c, NEW d, NEW e, Part(f, n, c), Part(n, t, d), Part(f, t, e)
  PROVE  e >= c \/ e >= d
PROOF
  <1>1. c \in 0..4 /\ d \in 0..4 /\ e \in 0..4
    BY DEF Part, Agree, Counts
  <1>2. SUFFICES ASSUME e < c, e < d PROVE FALSE
    BY <1>1
  <1>3. PICK a, b : a = DigitCount(f) /\ b = DigitCount(t)
    OBVIOUS
  <1>4. a \in Nat /\ b \in Nat /\ c <= a /\ d <= b /\ a <= 4
    BY <1>3, CountType DEF Part, Agree
  <1>5. e \in 0..3 /\ e # a /\ e # b
    BY <1>1, <1>2, <1>4
  <1>6. Digit(f, e) = Digit(n, e) /\ Digit(n, e) = Digit(t, e)
    BY <1>2, <1>5 DEF Part, Agree
  <1> QED  BY <1>3, <1>5, <1>6 DEF Part

\* The next hop of a node on the path from f to t is the next node of that path.
LEMMA HopOnPath ==
  ASSUME NEW f \in TreeAddress, NEW n \in TreeAddress, NEW t \in TreeAddress, n # t,
         Dist(f, n) + Dist(n, t) = Dist(f, t), NEW h, IsHop(h, n, t),
         NEW m, m = h.send_node
  PROVE  /\ m \in TreeAddress
         /\ Dist(f, m) = Dist(f, n) + 1
         /\ Dist(m, t) + 1 = Dist(n, t)
PROOF
  <1>1. PICK c, d, e : Part(f, n, c) /\ Part(n, t, d) /\ Part(f, t, e)
    BY PartSomewhere
  <1>2. PICK F, N, T : F = DigitCount(f) /\ N = DigitCount(n) /\ T = DigitCount(t)
    OBVIOUS
  <1>3. /\ F \in Nat /\ F <= 4 /\ N \in Nat /\ N <= 4 /\ T \in Nat /\ T <= 4
        /\ c \in Nat /\ c <= F /\ c <= N
        /\ d \in Nat /\ d <= N /\ d <= T
        /\ e \in Nat /\ e <= F /\ e <= T
    BY <1>1, <1>2, CountType DEF Part, Agree, Counts
  <1>4. Dist(f, n) = F + N - 2 * c /\ Dist(n, t) = N + T - 2 * d /\ Dist(f, t) = F + T - 2 * e
    BY <1>1, <1>2, DistIs
  <1>5. N + e = c + d
    BY <1>3, <1>4
  <1>6. e >= c \/ e >= d
    BY <1>1, ThreePaths
  <1>7. \/ d = N /\ e = c
        \/ c = N /\ e = d
    BY <1>3, <1>5, <1>6
  <1>8. Above(n, t) <=> d = N
    <2>1. d = N => Above(n, t)
      BY <1>1, <1>2 DEF Part, Agree, Above
    <2>2. Above(n, t) => d = N
      <3>1. ASSUME Above(n, t) PROVE N < T
        BY <1>2, <3>1, AboveShorter
      <3>2. ASSUME Above(n, t), d < N PROVE FALSE
        <4>1. d \in 0..3 /\ d # N /\ d # T
          BY <1>3, <3>1, <3>2
        <4>2. Digit(n, d) = Digit(t, d)
          BY <1>2, <3>2, <4>1 DEF Above
        <4> QED  BY <1>1, <1>2, <4>1, <4>2 DEF Part
      <3> QED  BY <1>3, <3>2
    <2> QED  BY <2>1, <2>2
  <1>9. CASE Above(n, t)
    <2>1. N < T /\ Beside(m, N + 1, t)
      BY <1>2, <1>9 DEF IsHop
    <2>2. m \in TreeAddress /\ DigitCount(m) = N + 1
      BY <2>1 DEF Beside
    <2>3. d = N /\ e = c
      BY <1>3, <1>5, <1>8, <1>9
    <2>4. \A k \in 0..3 : k < N + 1 => Digit(m, k) = Digit(t, k)
      BY <2>1 DEF Beside
    <2>5. Part(m, t, N + 1)
      BY <1>2, <1>3, <2>1, <2>2, <2>4 DEF Part, Agree, Counts
    <2>6. Part(f, m, c)
      <3>1. c < N + 1 /\ c \in Counts
        BY <1>3 DEF Counts
      <3>2. \A k \in 0..3 : k < c => Digit(f, k) = Digit(m, k)
        BY <1>1, <1>3, <2>3, <2>4, <3>1 DEF Part, Agree
      <3>3. Agree(f, m, c)
        BY <1>2, <1>3, <2>2, <3>1, <3>2 DEF Agree
      <3>4. c = F \/ Digit(f, c) # Digit(m, c)
        <4>1. c # T /\ c \in 0..3
          BY <1>3, <2>1, <3>1
        <4>2. c = F \/ Digit(f, c) # Digit(t, c)
          BY <1>1, <1>2, <2>3, <4>1 DEF Part
        <4> QED  BY <2>4, <3>1, <4>1, <4>2
      <3> QED  BY <1>2, <3>3, <3>4 DEF Part
    <2>7. Dist(m, t) = (N + 1) + T - 2 * (N + 1)
      BY <1>2, <2>2, <2>5, DistIs
    <2>8. Dist(f, m) = F + (N + 1) - 2 * c
      BY <1>2, <2>2, <2>6, DistIs
    <2> QED  BY <1>3, <1>4, <2>2, <2>3, <2>7, <2>8
  <1>10. CASE ~Above(n, t)
    <2>1. N # 0 /\ Beside(m, N - 1, n)
      BY <1>2, <1>10 DEF IsHop
    <2>2. m \in TreeAddress /\ DigitCount(m) = N - 1
      BY <2>1 DEF Beside
    <2>3. c = N /\ e = d /\ d <= N - 1
      BY <1>3, <1>7, <1>8, <1>10
    <2>4. \A k \in 0..3 : k < N - 1 => Digit(m, k) = Digit(n, k)
      BY <2>1 DEF Beside
    <2>5. Part(f, m, N - 1)
      <3>1. N - 1 \in Counts /\ N - 1 <= F
        BY <1>3, <2>1, <2>3 DEF Counts
      <3>2. \A k \in 0..3 : k < N - 1 => Digit(f, k) = Digit(m, k)
        BY <1>1, <1>3, <2>3, <2>4 DEF Part, Agree
      <3> QED  BY <1>2, <1>3, <2>2, <3>1, <3>2 DEF Part, Agree
    <2>6. Part(m, t, d)
      <3>1. \A k \in 0..3 : k < d => Digit(m, k) = Digit(t, k)
        BY <1>1, <1>3, <2>3, <2>4 DEF Part, Agree
      <3>2. Agree(m, t, d)
        BY <1>1, <1>2, <2>2, <2>3, <3>1 DEF Part, Agree
      <3>3. d = N - 1 \/ d = T \/ Digit(m, d) # Digit(t, d)
        <4>1. SUFFICES ASSUME d # N - 1, d # T PROVE Digit(m, d) # Digit(t, d)
          OBVIOUS
        <4>2. d \in 0..3 /\ d < N - 1 /\ d # N
          BY <1>3, <2>3, <4>1
        <4>3. Digit(n, d) # Digit(t, d)
          BY <1>1, <1>2, <4>1, <4>2 DEF Part
        <4> QED  BY <2>4, <4>2, <4>3
      <3> QED  BY <1>2, <2>2, <3>2, <3>3 DEF Part
    <2>7. Dist(m, t) = (N - 1) + T - 2 * d
      BY <1>2, <2>2, <2>6, DistIs
    <2>8. Dist(f, m) = F + (N - 1) - 2 * (N - 1)
      BY <1>2, <2>2, <2>5, DistIs
    <2> QED  BY <1>3, <1>4, <2>1, <2>2, <2>3, <2>7, <2>8
  <1> QED  BY <1>9, <1>10

\* NextHop, as the walk uses it.
LEMMA NextHopOnPath ==
  ASSUME NEW f \in TreeAddress, NEW n \in TreeAddress, NEW t \in TreeAddress, n # t,
         Dist(f, n) + Dist(n, t) = Dist(f, t)
  PROVE  /\ NextHop(n, t) \in TreeAddress
         /\ Dist(f, NextHop(n, t)) = Dist(f, n) + 1
         /\ Dist(NextHop(n, t), t) + 1 = Dist(n, t)
PROOF
  <1>1. PICK h : h = logicalToPhysicalAddress(setup_address(n), t, TX_ROUTED)
    OBVIOUS
  <1>2. Masks(setup_address(n), n)
    BY DEF Masks, setup_address
  <1>3. IsHop(h, n, t)
    BY <1>1, <1>2, HopOf
  <1>4. NextHop(n, t) = h.send_node
    BY <1>1 DEF NextHop
  <1> QED  BY <1>3, <1>4, HopOnPath
-----------------------------------------------------------------------------
\* Where the frames of the walk are.  A NETWORK_ACK is made for a message that is not
\* at its destination after the first hop, hence for nodes two edges apart or more.
WalkTypes   == /\ from \in TreeAddress /\ to \in TreeAddress /\ data \in TreeAddress /\ from # to
               /\ ack \in TreeAddress \cup {NoNode} /\ hops \in Nat
FarEnough   == ack # NoNode => Dist(from, to) >= 2
WalkInv     == WalkTypes /\ DataOnTreePath /\ AckOnTreePath /\ FarEnough

\* No frame is under way at first.
LEMMA WalkInitStep == WalkInit => WalkInv
PROOF
  <1> SUFFICES ASSUME WalkInit PROVE WalkInv
    OBVIOUS
  <1>1. /\ from \in TreeAddress /\ to \in TreeAddress /\ from # to
        /\ data = from /\ ack = NoNode /\ hops = 0
    BY NodesAssumption DEF WalkInit
  <1>2. Dist(from, from) = 0 /\ Dist(from, to) \in Nat
    BY <1>1, DistBack
  <1>3. DataOnTreePath
    BY <1>1, <1>2 DEF DataOnTreePath
  <1> QED  BY <1>1, <1>3 DEF WalkInv, WalkTypes, AckOnTreePath, FarEnough

\* One transmission of the data frame.
LEMMA TransmitStep ==
  ASSUME WalkInv, data # to, NEW routed \in BOOLEAN, routed => hops > 0,
         Transmit(data, to, routed)
  PROVE  WalkInv'
PROOF
  <1>1. PICK m : m = NextHop(data, to)
    OBVIOUS
  <1>2. /\ from \in TreeAddress /\ to \in TreeAddress /\ data \in TreeAddress /\ from # to /\ hops \in Nat
        /\ hops = Dist(from, data) /\ Dist(from, data) + Dist(data, to) = Dist(from, to)
    BY DEF WalkInv, WalkTypes, DataOnTreePath
  <1>3. /\ m \in TreeAddress /\ Dist(from, m) = Dist(from, data) + 1
        /\ Dist(m, to) + 1 = Dist(data, to)
    BY <1>1, <1>2, NextHopOnPath
  <1>4. /\ Dist(from, data) \in Nat /\ Dist(data, to) \in Nat /\ Dist(m, to) \in Nat
        /\ Dist(data, from) = Dist(from, data) /\ Dist(to, data) = Dist(data, to)
        /\ Dist(to, from) = Dist(from, to) /\ Dist(from, from) = 0
    BY <1>2, <1>3, DistBack
  <1>5. /\ data' = m /\ hops' = hops + 1 /\ from' = from /\ to' = to
        /\ ack' = IF routed /\ m = to THEN NextHop(data, from) ELSE ack
    BY <1>1 DEF Transmit, Acknowledges
  <1>6. DataOnTreePath'
    <2>1. hops + 1 = Dist(from, m) /\ Dist(from, m) + Dist(m, to) = Dist(from, to)
      BY <1>2, <1>3, <1>4
    <2> QED  BY <1>5, <2>1 DEF DataOnTreePath
  <1>7. CASE routed /\ m = to
    <2>1. data # from /\ Dist(from, data) >= 1
      BY <1>2, <1>4, <1>7
    <2>2. PICK b : b = NextHop(data, from)
      OBVIOUS
    <2>3. Dist(to, data) + Dist(data, from) = Dist(to, from)
      BY <1>2, <1>4
    <2>4. /\ b \in TreeAddress /\ Dist(to, b) = Dist(to, data) + 1
          /\ Dist(b, from) + 1 = Dist(data, from)
      BY <1>2, <2>1, <2>2, <2>3, NextHopOnPath
    <2>5. Dist(from, b) = Dist(b, from) /\ Dist(b, to) = Dist(to, b) /\ Dist(b, from) \in Nat
      BY <1>2, <2>4, DistBack
    <2>6. Dist(from, b) + Dist(b, to) = Dist(from, to)
      BY <1>2, <1>4, <2>4, <2>5
    <2>7. ack' = b
      BY <1>5, <1>7, <2>2
    <2>8. AckOnTreePath'
      BY <1>5, <2>6, <2>7 DEF AckOnTreePath
    <2>9. FarEnough'
      <3>1. Dist(from, to) >= 2
        BY <1>2, <1>3, <1>4, <2>1
      <3> QED  BY <1>5, <3>1 DEF FarEnough
    <2>10. WalkTypes'
      BY <1>2, <1>3, <1>5, <2>4, <2>7 DEF WalkTypes
    <2> QED  BY <1>6, <2>8, <2>9, <2>10 DEF WalkInv
  <1>8. CASE ~(routed /\ m = to)
    <2>1. ack' = ack
      BY <1>5, <1>8
    <2>2. AckOnTreePath' /\ FarEnough'
      BY <1>5, <2>1 DEF WalkInv, AckOnTreePath, FarEnough
    <2>3. WalkTypes'
      BY <1>2, <1>3, <1>5, <2>1 DEF WalkInv, WalkTypes
    <2> QED  BY <1>6, <2>2, <2>3 DEF WalkInv
  <1> QED  BY <1>7, <1>8

\* A router sends the NETWORK_ACK on.
LEMMA RouteAckStep == WalkInv /\ RouteAck => WalkInv'
PROOF
  <1> SUFFICES ASSUME WalkInv, RouteAck PROVE WalkInv'
    OBVIOUS
  <1>1. /\ ack \in TreeAddress /\ ack # from /\ ack # NoNode
        /\ from \in TreeAddress /\ to \in TreeAddress /\ from # to
        /\ Dist(from, ack) + Dist(ack, to) = Dist(from, to)
    BY DEF WalkInv, WalkTypes, AckOnTreePath, RouteAck
  <1>2. PICK b : b = NextHop(ack, from)
    OBVIOUS
  <1>3. /\ Dist(ack, from) = Dist(from, ack) /\ Dist(to, ack) = Dist(ack, to)
        /\ Dist(to, from) = Dist(from, to)
        /\ Dist(from, ack) \in Nat /\ Dist(ack, to) \in Nat
    BY <1>1, DistBack
  <1>4. Dist(to, ack) + Dist(ack, from) = Dist(to, from)
    BY <1>1, <1>3
  <1>5. /\ b \in TreeAddress /\ Dist(to, b) = Dist(to, ack) + 1
        /\ Dist(b, from) + 1 = Dist(ack, from)
    BY <1>1, <1>2, <1>4, NextHopOnPath
  <1>6. Dist(from, b) = Dist(b, from) /\ Dist(b, to) = Dist(to, b) /\ Dist(b, from) \in Nat
    BY <1>1, <1>5, DistBack
  <1>7. Dist(from, b) + Dist(b, to) = Dist(from, to)
    BY <1>1, <1>3, <1>5, <1>6
  <1>8. /\ ack' = b /\ from' = from /\ to' = to /\ data' = data /\ hops' = hops
    BY <1>2 DEF RouteAck, AckHop
  <1>9. AckOnTreePath'
    BY <1>7, <1>8 DEF AckOnTreePath
  <1>10. WalkTypes' /\ DataOnTreePath' /\ FarEnough'
    BY <1>1, <1>5, <1>8 DEF WalkInv, WalkTypes, DataOnTreePath, FarEnough
  <1> QED  BY <1>9, <1>10 DEF WalkInv

\* The invariant is inductive.
LEMMA WalkNextStep == WalkInv /\ [WalkNext]_walkVars => WalkInv'
PROOF
  <1> SUFFICES ASSUME WalkInv, [WalkNext]_walkVars PROVE WalkInv'
    OBVIOUS
  <1>1. CASE Send
    <2>1. data # to
      <3>1. from # to
        BY DEF WalkInv, WalkTypes
      <3> QED  BY <1>1, <3>1 DEF Send
    <2>2. Transmit(data, to, FALSE)
      BY <1>1 DEF Send
    <2> QED  BY <2>1, <2>2, TransmitStep
  <1>2. CASE Route
    BY <1>2, TransmitStep DEF Route
  <1>3. CASE RouteAck
    BY <1>3, RouteAckStep
  <1>4. CASE UNCHANGED walkVars
    BY <1>4 DEF walkVars, WalkInv, WalkTypes, DataOnTreePath, AckOnTreePath, FarEnough
  <1> QED  BY <1>1, <1>2, <1>3, <1>4 DEF WalkNext

\* The inductive invariant always holds.
LEMMA WalkInvariance == WalkSpec => []WalkInv
PROOF
  BY WalkInitStep, WalkNextStep, PTL DEF WalkSpec

\* Between any two nodes of any tree the data frame takes the one path there is, hop by
\* hop, and walks no edge twice: up by the masks to the common ancestor, then down.
THEOREM StaysOnPath == WalkSpec => []DataOnTreePath
PROOF
  <1>1. WalkInv => DataOnTreePath
    BY DEF WalkInv
  <1> QED  BY <1>1, WalkInvariance, PTL

\* The NETWORK_ACK, which the last router sends with the origin as its destination, is
\* never beside the path its message took.
THEOREM AckOnSamePath == WalkSpec => []AckOnTreePath
PROOF
  <1>1. WalkInv => AckOnTreePath
    BY DEF WalkInv
  <1> QED  BY <1>1, WalkInvariance, PTL

\* The two tests of write(), that of the origin on its first hop and that of a router on
\* its next one, agree: nobody is sent a NETWORK_ACK he does not wait for.
THEOREM AcksAwaited == WalkSpec => []AckOnlyForWaiter
PROOF
  <1>1. ASSUME WalkInv PROVE AckOnlyForWaiter
    <2>1. SUFFICES ASSUME ack # NoNode, NextHop(from, to) = to PROVE FALSE
      BY DEF AckOnlyForWaiter, OriginWaits
    <2>2. from \in TreeAddress /\ to \in TreeAddress /\ Dist(from, to) >= 2
      BY <1>1, <2>1 DEF WalkInv, WalkTypes, FarEnough
    <2>3. Dist(from, from) = 0 /\ Dist(to, to) = 0 /\ Dist(from, to) \in Nat
      BY <2>2, DistBack
    <2>4. from # to
      BY <2>2, <2>3
    <2>5. Dist(from, to) = Dist(from, from) + 1
      <3>1. Dist(from, from) + Dist(from, to) = Dist(from, to)
        BY <2>3
      <3>2. Dist(from, NextHop(from, to)) = Dist(from, from) + 1
        BY <2>2, <2>4, <3>1, NextHopOnPath
      <3> QED  BY <2>1, <3>2
    <2> QED  BY <2>2, <2>3, <2>5
  <1> QED  BY <1>1, WalkInvariance, PTL
-----------------------------------------------------------------------------
\* The five bytes of the pipes of a node.
Byte(v) == address_translation[v + 1]

\* No byte stands for two digits, and none is the filler 204.
LEMMA BytesDiffer ==
  ASSUME NEW v \in Octal, NEW w \in Octal
  PROVE  Byte(v) # 204 /\ (Byte(v) = Byte(w) => v = w) /\ (v # 0 => Byte(v) # 195) /\ Byte(0) = 195
PROOF
  <1>1. /\ Byte(0) = 195 /\ Byte(1) = 60 /\ Byte(2) = 51 /\ Byte(3) = 206
        /\ Byte(4) = 62 /\ Byte(5) = 227 /\ Byte(6) = 236 /\ Byte(7) = 238
    <2>1. /\ 0 + 1 = 1 /\ 1 + 1 = 2 /\ 2 + 1 = 3 /\ 3 + 1 = 4
          /\ 4 + 1 = 5 /\ 5 + 1 = 6 /\ 6 + 1 = 7 /\ 7 + 1 = 8
      OBVIOUS
    <2> QED  BY <2>1 DEF Byte, address_translation
  <1>2. \/ v = 0 \/ v = 1 \/ v = 2 \/ v = 3 \/ v = 4 \/ v = 5 \/ v = 6 \/ v = 7
    BY DEF Octal
  <1>3. \/ w = 0 \/ w = 1 \/ w = 2 \/ w = 3 \/ w = 4 \/ w = 5 \/ w = 6 \/ w = 7
    BY DEF Octal
  <1> QED  BY <1>1, <1>2, <1>3

\* The pipes are numbered with octal digits.
LEMMA PipeDigits == Pipes \subseteq Octal /\ 0 \in Pipes /\ 1 \in Pipes
PROOF
  BY NumPipesAssumption DEF Pipes, Octal

\* A pipe of a node's own.
LEMMA OwnPipe ==
  ASSUME NEW a \in TreeAddress, NEW p \in Pipes, p # 0, NEW x, x = pipe_address(a, p)
  PROVE  /\ x = [ i \in 1..5 |-> x[i] ] /\ Len(x) = 5 /\ x[1] = Byte(p)
         /\ \A k \in 0..3 : x[k + 2] = IF k < DigitCount(a) THEN Byte(Digit(a, k)) ELSE 204
PROOF
  <1>1. PICK c : c = DigitCount(a)
    OBVIOUS
  <1>2. c \in Nat
    BY <1>1, CountType
  <1>3. x = [ i \in 1..5 |-> IF i = 1 THEN Byte(p)
                             ELSE IF i - 1 <= c THEN Byte(Digit(a, i - 2)) ELSE 204 ]
    BY <1>1 DEF pipe_address, Byte
  <1>4. x = [ i \in 1..5 |-> x[i] ] /\ Len(x) = 5 /\ x[1] = Byte(p)
    BY <1>3
  <1>5. ASSUME NEW k \in 0..3 PROVE x[k + 2] = IF k < c THEN Byte(Digit(a, k)) ELSE 204
    <2>1. k + 2 \in 1..5 /\ k + 2 # 1 /\ (k + 2) - 2 = k /\ ((k + 2) - 1 <= c <=> k < c)
      BY <1>2
    <2> QED  BY <1>3, <2>1
  <1> QED  BY <1>1, <1>4, <1>5

\* Different nodes, and different pipes of a node, have different addresses.
LEMMA OwnPipesDiffer ==
  ASSUME NEW a \in TreeAddress, NEW b \in TreeAddress, NEW p \in Pipes, NEW q \in Pipes,
         p # 0, q # 0, pipe_address(a, p) = pipe_address(b, q)
  PROVE  a = b /\ p = q
PROOF
  <1>1. PICK x : x = pipe_address(a, p) /\ x = pipe_address(b, q)
    OBVIOUS
  <1>2. PICK c, d : c = DigitCount(a) /\ d = DigitCount(b)
    OBVIOUS
  <1>3. /\ x[1] = Byte(p)
        /\ \A k \in 0..3 : x[k + 2] = IF k < c THEN Byte(Digit(a, k)) ELSE 204
    BY <1>1, <1>2, OwnPipe
  <1>4. /\ x[1] = Byte(q)
        /\ \A k \in 0..3 : x[k + 2] = IF k < d THEN Byte(Digit(b, k)) ELSE 204
    BY <1>1, <1>2, OwnPipe
  <1>5. p = q
    <2>1. Byte(p) = Byte(q)
      BY <1>3, <1>4
    <2>2. p \in Octal /\ q \in Octal
      BY PipeDigits
    <2> QED  BY <2>1, <2>2, BytesDiffer
  <1>6. TreeDigits(a, c) /\ TreeDigits(b, d)
    BY <1>2, DigitsOfTree
  <1>7. ASSUME NEW k \in 0..3 PROVE Digit(a, k) = Digit(b, k)
    <2>1. /\ k < c => Digit(a, k) \in Octal
          /\ k < d => Digit(b, k) \in Octal
      BY <1>6, <1>7, NumPipesAssumption DEF TreeDigits, Octal
    <2>2. /\ ~(k < c) => Digit(a, k) = 0
          /\ ~(k < d) => Digit(b, k) = 0
      BY <1>6, <1>7 DEF TreeDigits
    <2>3. (IF k < c THEN Byte(Digit(a, k)) ELSE 204) = (IF k < d THEN Byte(Digit(b, k)) ELSE 204)
      BY <1>3, <1>4, <1>7
    <2> QED  BY <2>1, <2>2, <2>3, BytesDiffer
  <1>8. a \in Nat /\ a < 4096 /\ b \in Nat /\ b < 4096
    BY <1>6 DEF TreeDigits
  <1>9. Alike(a, b)
    BY <1>7 DEF Alike
  <1>10. a = b
    BY <1>8, <1>9, SameDigits
  <1> QED  BY <1>5, <1>10

\* The addresses of the levels, computed, and how many digits they have.
LEMMA LevelAddresses ==
  /\ levelToAddress(0) = 0 /\ levelToAddress(1) = 1 /\ levelToAddress(2) = 8
  /\ levelToAddress(3) = 64 /\ levelToAddress(4) = 512
PROOF
  <1>1. 1 - 1 = 0 /\ 2 - 1 = 1 /\ 3 - 1 = 2 /\ 4 - 1 = 3
    OBVIOUS
  <1> QED  BY <1>1, Powers DEF levelToAddress

\* The address of level l has l digits.
LEMMA LevelDigits ==
  ASSUME NEW l \in Levels
  PROVE  DigitCount(levelToAddress(l)) = l /\ (levelToAddress(l) = 0 <=> l = 0)
PROOF
  <1>1. PICK a : a = levelToAddress(l)
    OBVIOUS
  <1>2. \/ l = 0 /\ a = 0
        \/ l = 1 /\ a = 1
        \/ l = 2 /\ a = 8
        \/ l = 3 /\ a = 64
        \/ l = 4 /\ a = 512
    BY <1>1, LevelAddresses DEF Levels
  <1>3. a \in Nat /\ a < 4096
    BY <1>2
  <1>4. PICK c : c = DigitCount(a)
    OBVIOUS
  <1>5. \/ c = 0 /\ a = 0
        \/ c = 1 /\ a >= 1 /\ a < 8
        \/ c = 2 /\ a >= 8 /\ a < 64
        \/ c = 3 /\ a >= 64 /\ a < 512
        \/ c = 4 /\ a >= 512
    BY <1>3, <1>4, Counted
  <1>6. c = l /\ (a = 0 <=> l = 0)
    BY <1>2, <1>5
  <1> QED  BY <1>1, <1>4, <1>6

\* The multicast pipe of a level.
Group(l) == pipe_address(levelToAddress(l), 0)

\* Its bytes: the number of the level, but for level 0.
LEMMA GroupIs ==
  ASSUME NEW l \in Levels
  PROVE  Group(l) = IF l = 0
                    THEN [ i \in 1..5 |-> IF i = 1 THEN 195 ELSE 204 ]
                    ELSE [ i \in 1..5 |-> IF i = 2 THEN Byte(l) ELSE 204 ]
PROOF
  <1>1. DigitCount(levelToAddress(l)) = l /\ (levelToAddress(l) = 0 <=> l = 0)
    BY LevelDigits
  <1>2. CASE l = 0
    <2>1. pipe_address(levelToAddress(0), 0)
            = [ i \in 1..5 |-> IF i = 1 THEN Byte(0)
                               ELSE IF i - 1 <= 0 THEN Byte(Digit(0, i - 2)) ELSE 204 ]
      <3>1. DigitCount(0) = 0 /\ levelToAddress(0) = 0
        BY <1>1, <1>2
      <3> QED  BY <3>1 DEF pipe_address, Byte
    <2>2. Byte(0) = 195
      BY BytesDiffer DEF Octal
    <2> QED  BY <1>2, <2>1, <2>2 DEF Group
  <1>3. CASE l # 0
    BY <1>1, <1>3 DEF Group, pipe_address, Byte
  <1> QED  BY <1>2, <1>3

\* The address of a level has five bytes.
LEMMA GroupLength ==
  ASSUME NEW l \in Levels
  PROVE  Len(Group(l)) = 5
PROOF
  <1>1. CASE l = 0
    <2>1. PICK x : x = Group(l)
      OBVIOUS
    <2>2. x = [ i \in 1..5 |-> IF i = 1 THEN 195 ELSE 204 ]
      BY <1>1, <2>1, GroupIs
    <2>3. Len(x) = 5
      BY <2>2
    <2> QED  BY <2>1, <2>3
  <1>2. CASE l # 0
    <2>1. PICK x : x = Group(l)
      OBVIOUS
    <2>2. x = [ i \in 1..5 |-> IF i = 2 THEN Byte(l) ELSE 204 ]
      BY <1>2, <2>1, GroupIs
    <2>3. Len(x) = 5
      BY <2>2
    <2> QED  BY <2>1, <2>3
  <1> QED  BY <1>1, <1>2

\* Each level has a group of its own.
LEMMA GroupsDiffer ==
  ASSUME NEW k \in Levels, NEW l \in Levels, Group(k) = Group(l)
  PROVE  k = l
PROOF
  <1>1. PICK x : x = Group(k) /\ x = Group(l)
    OBVIOUS
  <1>2. /\ k = 0 => x[1] = 195
        /\ k # 0 => x[1] = 204 /\ x[2] = Byte(k)
    BY <1>1, GroupIs
  <1>3. /\ l = 0 => x[1] = 195
        /\ l # 0 => x[1] = 204 /\ x[2] = Byte(l)
    BY <1>1, GroupIs
  <1>4. k \in Octal /\ l \in Octal
    BY DEF Levels, Octal
  <1> QED  BY <1>2, <1>3, <1>4, BytesDiffer

\* No node's own pipe is that of a level.
LEMMA GroupNotOwn ==
  ASSUME NEW l \in Levels, NEW a \in TreeAddress, NEW p \in Pipes, p # 0
  PROVE  Group(l) # pipe_address(a, p)
PROOF
  <1>1. PICK x, y : x = Group(l) /\ y = pipe_address(a, p)
    OBVIOUS
  <1>2. x[1] = 195 \/ x[1] = 204
    BY <1>1, GroupIs
  <1>3. y[1] = Byte(p)
    BY <1>1, OwnPipe
  <1>4. Byte(p) # 195 /\ Byte(p) # 204
    BY PipeDigits, BytesDiffer
  <1> QED  BY <1>1, <1>2, <1>3, <1>4

\* Pipe 0 of a node is that of its level.
LEMMA OwnGroup ==
  ASSUME NEW a \in TreeAddress
  PROVE  DigitCount(a) \in Levels /\ pipe_address(a, 0) = Group(DigitCount(a))
PROOF
  <1>1. PICK c : c = DigitCount(a)
    OBVIOUS
  <1>2. c \in Levels
    BY <1>1, CountType DEF Levels
  <1>3. a = 0 <=> c = 0
    <2>1. a \in Nat /\ a < 4096
      BY DigitsOfTree DEF TreeDigits
    <2> QED  BY <1>1, <2>1, Counted
  <1>4. CASE a = 0
    <2>1. levelToAddress(c) = 0
      BY <1>2, <1>3, <1>4, LevelDigits
    <2> QED  BY <1>1, <1>2, <1>4, <2>1 DEF Group
  <1>5. CASE a # 0
    <2>1. pipe_address(a, 0) = [ i \in 1..5 |-> IF i = 2 THEN Byte(c) ELSE 204 ]
      BY <1>1, <1>5 DEF pipe_address, Byte
    <2> QED  BY <1>1, <1>2, <1>3, <1>5, <2>1, GroupIs
  <1> QED  BY <1>4, <1>5
-----------------------------------------------------------------------------
\* What begin() caches for a node at address n that has chosen the level l since, and
\* what its radio listens to then.
SelfAt(n, l)  == [ setup_address(n) EXCEPT !._multicast_level = l ]
Listens(n, l) == [ p \in Pipes |-> IF p = 0 THEN Group(l)
                                   ELSE openReadingPipe(p, pipe_address(n, p)) ]

\* A radio listens to nothing; or to the group of a level, before its node is begun; or to
\* the pipes of one address and to the group of the level that is cached beside it.
Shut(r)       == /\ \E l \in Levels : cache[r] = SelfAt(0, l)
                 /\ pipe[r] = [ p \in Pipes |-> Closed ]
Waits(l)      == [ p \in Pipes |-> IF p = 0 THEN Group(l) ELSE Closed ]
Waiting(r, l) == /\ radioValid[r]
                 /\ cache[r] = SelfAt(0, l)
                 /\ pipe[r] = Waits(l)
Running(r, l) == /\ radioValid[r]
                 /\ cache[r] = SelfAt(node_address[r], l)
                 /\ pipe[r] = Listens(node_address[r], l)
RadioShapes == /\ radioValid = [ r \in Radios |-> radioValid[r] ]
               /\ node_address = [ r \in Radios |-> node_address[r] ]
               /\ cache = [ r \in Radios |-> cache[r] ]
               /\ pipe = [ r \in Radios |-> pipe[r] ]
RadioInv    == /\ RadioShapes
               /\ \A r \in Radios : /\ node_address[r] \in TreeAddress
                                    /\ Shut(r) \/ \E l \in Levels : Waiting(r, l) \/ Running(r, l)

\* The members that begin() caches, and what multicastLevel() changes of them.
LEMMA Selves ==
  ASSUME NEW n, NEW l, NEW k
  PROVE  /\ SelfAt(n, DigitCount(n)) = setup_address(n)
         /\ [ SelfAt(n, l) EXCEPT !._multicast_level = k ] = SelfAt(n, k)
         /\ SelfAt(n, l)._multicast_level = l
         /\ Masks([ SelfAt(n, l) EXCEPT !.node_address = n ], n)
PROOF
  <1>1. PICK m, u, v, c : /\ c = DigitCount(n)
                          /\ setup_address(n) = [ node_address |-> n, node_mask |-> m, parent_node |-> u,
                                                  parent_pipe |-> v, _multicast_level |-> c ]
    BY DEF setup_address
  <1>2. \A j : SelfAt(n, j) = [ node_address |-> n, node_mask |-> m, parent_node |-> u,
                               parent_pipe |-> v, _multicast_level |-> j ]
    BY <1>1 DEF SelfAt
  <1>3. SelfAt(n, DigitCount(n)) = setup_address(n)
    BY <1>1, <1>2
  <1>4. [ SelfAt(n, l) EXCEPT !._multicast_level = k ] = SelfAt(n, k)
    BY <1>2
  <1>5. Masks([ SelfAt(n, l) EXCEPT !.node_address = n ], n)
    BY <1>1, <1>2 DEF Masks
  <1> QED  BY <1>2, <1>3, <1>4, <1>5

\* The pipes that begin() opens, and what multicastLevel() changes of them.
LEMMA Listenings ==
  ASSUME NEW n \in TreeAddress, NEW l, NEW k
  PROVE  /\ [ p \in Pipes |-> openReadingPipe(p, pipe_address(n, p)) ] = Listens(n, DigitCount(n))
         /\ [ Listens(n, l) EXCEPT ![0] = openReadingPipe(0, Group(k)) ] = Listens(n, k)
PROOF
  <1>1. \A x : openReadingPipe(0, x) = x
    BY DEF openReadingPipe
  <1>2. pipe_address(n, 0) = Group(DigitCount(n))
    BY OwnGroup
  <1>3. [ p \in Pipes |-> openReadingPipe(p, pipe_address(n, p)) ] = Listens(n, DigitCount(n))
    BY <1>1, <1>2 DEF Listens
  <1>4. [ Listens(n, l) EXCEPT ![0] = Group(k) ] = Listens(n, k)
    BY PipeDigits DEF Listens
  <1> QED  BY <1>1, <1>3, <1>4

\* The same of a node that is not begun.
LEMMA FirstGroups ==
  ASSUME NEW l, NEW k
  PROVE  /\ [ Waits(l) EXCEPT ![0] = openReadingPipe(0, Group(k)) ] = Waits(k)
         /\ [ [ p \in Pipes |-> Closed ] EXCEPT ![0] = openReadingPipe(0, Group(k)) ] = Waits(k)
PROOF
  <1>1. openReadingPipe(0, Group(k)) = Group(k)
    BY DEF openReadingPipe
  <1>2. /\ [ Waits(l) EXCEPT ![0] = Group(k) ] = Waits(k)
        /\ [ [ p \in Pipes |-> Closed ] EXCEPT ![0] = Group(k) ] = Waits(k)
    BY PipeDigits DEF Waits
  <1> QED  BY <1>1, <1>2

\* At first all radios are shut.
LEMMA RadioInit == Init => RadioInv
PROOF
  <1> SUFFICES ASSUME Init PROVE RadioInv
    OBVIOUS
  <1>1. 0 \in TreeAddress
    <2>1. TreeDigits(0, 0)
      <3>1. \A k \in 0..3 : Digit(0, k) = 0
        <4>1. /\ Digit(0, 0) = (0 \div 1) % 8 /\ Digit(0, 1) = (0 \div 8) % 8
              /\ Digit(0, 2) = (0 \div 64) % 8 /\ Digit(0, 3) = (0 \div 512) % 8
          BY Powers DEF Digit
        <4>2. /\ (0 \div 1) % 8 = 0 /\ (0 \div 8) % 8 = 0
              /\ (0 \div 64) % 8 = 0 /\ (0 \div 512) % 8 = 0
          OBVIOUS
        <4>3. \A k \in 0..3 : k = 0 \/ k = 1 \/ k = 2 \/ k = 3
          OBVIOUS
        <4> QED  BY <4>1, <4>2, <4>3
      <3> QED  BY <3>1 DEF TreeDigits
    <2> QED  BY <2>1, TreeOfDigits
  <1>2. RadioShapes
    BY DEF Init, RadioShapes
  <1>3. ASSUME NEW r \in Radios
        PROVE  cache[r] = SelfAt(0, 0) /\ pipe[r] = [ p \in Pipes |-> Closed ] /\ node_address[r] = 0
    BY DEF Init, SelfAt
  <1>4. 0 \in Levels
    BY DEF Levels
  <1> QED  BY <1>1, <1>2, <1>3, <1>4 DEF RadioInv, Shut

\* The steps: one radio r changes, the others are as they were.
LEMMA OthersStay ==
  ASSUME RadioInv, NEW s \in Radios, radioValid[s] => radioValid'[s],
         node_address'[s] = node_address[s], cache'[s] = cache[s], pipe'[s] = pipe[s]
  PROVE  /\ node_address'[s] \in TreeAddress
         /\ Shut(s)' \/ \E l \in Levels : Waiting(s, l)' \/ Running(s, l)'
PROOF
  <1>1. /\ node_address[s] \in TreeAddress
        /\ Shut(s) \/ \E l \in Levels : Waiting(s, l) \/ Running(s, l)
    BY DEF RadioInv
  <1>2. CASE Shut(s)
    BY <1>1, <1>2 DEF Shut
  <1>3. CASE \E l \in Levels : Running(s, l)
    BY <1>1, <1>3 DEF Running
  <1>4. CASE \E l \in Levels : Waiting(s, l)
    BY <1>1, <1>4 DEF Waiting
  <1> QED  BY <1>1, <1>2, <1>3, <1>4

\* The application initialises a radio.
LEMMA RadioBeginStep ==
  ASSUME RadioInv, NEW r \in Radios, RadioBegin(r)
  PROVE  RadioInv'
PROOF
  <1>1. RadioShapes'
    BY DEF RadioInv, RadioShapes, RadioBegin
  <1>2. ASSUME NEW s \in Radios
        PROVE  /\ radioValid[s] => radioValid'[s]
               /\ node_address'[s] = node_address[s] /\ cache'[s] = cache[s] /\ pipe'[s] = pipe[s]
    BY DEF RadioInv, RadioShapes, RadioBegin
  <1> QED  BY <1>1, <1>2, OthersStay DEF RadioInv

\* begin() on a radio that is not valid finds it shut, for a radio does not lose its pins.
LEMMA BeginStep ==
  ASSUME RadioInv, NEW r \in Radios, NEW a \in Addresses, begin(r, a)
  PROVE  RadioInv'
PROOF
  <1>1. RadioShapes'
    BY DEF RadioInv, RadioShapes, begin
  <1>2. a \in TreeAddress
    BY AddressesAssumption
  <1>3. ASSUME NEW s \in Radios, s # r
        PROVE  /\ radioValid[s] => radioValid'[s]
               /\ node_address'[s] = node_address[s] /\ cache'[s] = cache[s] /\ pipe'[s] = pipe[s]
    BY <1>3 DEF RadioInv, RadioShapes, begin
  <1>4. node_address'[r] = a
    BY DEF RadioInv, RadioShapes, begin
  <1>5. CASE radioValid[r]
    <2>1. cache'[r] = setup_address(a) /\ pipe'[r] = OpenPipes(r, a) /\ radioValid'[r]
      BY <1>5 DEF RadioInv, RadioShapes, begin
    <2>2. DigitCount(a) \in Levels
      BY <1>2, OwnGroup
    <2>3. Running(r, DigitCount(a))'
      <3>1. cache'[r] = SelfAt(a, DigitCount(a))
        BY <2>1, Selves
      <3>2. pipe'[r] = Listens(a, DigitCount(a))
        BY <1>2, <2>1, Listenings DEF OpenPipes
      <3> QED  BY <1>4, <2>1, <3>1, <3>2 DEF Running
    <2> QED  BY <1>1, <1>2, <1>3, <1>4, <2>2, <2>3, OthersStay DEF RadioInv
  <1>6. CASE ~radioValid[r]
    <2>1. Shut(r)
      BY <1>6 DEF RadioInv, Waiting, Running
    <2>2. Shut(r)'
      <3>1. cache' = cache /\ pipe' = pipe
        BY <1>6 DEF begin
      <3> QED  BY <2>1, <3>1 DEF Shut
    <2> QED  BY <1>1, <1>2, <1>3, <1>4, <2>2, OthersStay DEF RadioInv
  <1> QED  BY <1>5, <1>6

\* multicastLevel() moves the cached level, and pipe 0 if it can.
LEMMA MulticastLevelStep ==
  ASSUME RadioInv, NEW r \in Radios, NEW level \in Levels, multicastLevel(r, level)
  PROVE  RadioInv'
PROOF
  <1>1. RadioShapes'
    BY DEF RadioInv, RadioShapes, multicastLevel
  <1>2. ASSUME NEW s \in Radios, s # r
        PROVE  /\ radioValid[s] => radioValid'[s]
               /\ node_address'[s] = node_address[s] /\ cache'[s] = cache[s] /\ pipe'[s] = pipe[s]
    BY <1>2 DEF RadioInv, RadioShapes, multicastLevel
  <1>3. node_address'[r] = node_address[r] /\ radioValid'[r] = radioValid[r]
    BY DEF multicastLevel
  <1>4. PICK n : n = node_address[r]
    OBVIOUS
  <1>5. n \in TreeAddress
    BY <1>4 DEF RadioInv
  <1>6. cache'[r] = [ cache[r] EXCEPT !._multicast_level = level ]
    BY DEF RadioInv, RadioShapes, multicastLevel
  <1>7. radioValid[r] => pipe'[r] = [ pipe[r] EXCEPT ![0] = openReadingPipe(0, Group(level)) ]
    BY DEF RadioInv, RadioShapes, multicastLevel, Group
  <1>8. ~radioValid[r] => pipe'[r] = pipe[r]
    BY DEF multicastLevel
  <1>9. ASSUME NEW m, NEW l, cache[r] = SelfAt(m, l)
        PROVE  cache'[r] = SelfAt(m, level)
    <2>1. [ SelfAt(m, l) EXCEPT !._multicast_level = level ] = SelfAt(m, level)
      BY Selves
    <2> QED  BY <1>6, <1>9, <2>1
  <1>10. CASE \E l \in Levels : Running(r, l)
    <2>1. PICK l \in Levels : Running(r, l)
      BY <1>10
    <2>2. radioValid[r] /\ cache[r] = SelfAt(n, l) /\ pipe[r] = Listens(n, l)
      BY <1>4, <2>1 DEF Running
    <2>3. cache'[r] = SelfAt(n, level)
      BY <1>9, <2>2
    <2>4. pipe'[r] = Listens(n, level)
      <3>1. [ Listens(n, l) EXCEPT ![0] = openReadingPipe(0, Group(level)) ] = Listens(n, level)
        BY <1>5, Listenings
      <3> QED  BY <1>7, <2>2, <3>1
    <2>5. Running(r, level)'
      BY <1>3, <1>4, <2>2, <2>3, <2>4 DEF Running
    <2> QED  BY <1>1, <1>2, <1>3, <1>4, <1>5, <2>5, OthersStay DEF RadioInv
  <1>11. CASE radioValid[r] /\ (Shut(r) \/ \E l \in Levels : Waiting(r, l))
    <2>1. PICK l \in Levels : cache[r] = SelfAt(0, l)
      BY <1>11 DEF Shut, Waiting
    <2>2. cache'[r] = SelfAt(0, level)
      BY <1>9, <2>1
    <2>3. pipe'[r] = Waits(level)
      <3>1. CASE Shut(r)
        <4>1. pipe[r] = [ p \in Pipes |-> Closed ]
          BY <3>1 DEF Shut
        <4> QED  BY <1>7, <1>11, <4>1, FirstGroups
      <3>2. CASE \E k \in Levels : Waiting(r, k)
        <4>1. PICK k \in Levels : pipe[r] = Waits(k)
          BY <3>2 DEF Waiting
        <4>2. [ Waits(k) EXCEPT ![0] = openReadingPipe(0, Group(level)) ] = Waits(level)
          BY FirstGroups
        <4> QED  BY <1>7, <1>11, <4>1, <4>2
      <3> QED  BY <1>11, <3>1, <3>2
    <2>4. Waiting(r, level)'
      BY <1>3, <1>11, <2>2, <2>3 DEF Waiting
    <2> QED  BY <1>1, <1>2, <1>3, <1>4, <1>5, <2>4, OthersStay DEF RadioInv
  <1>12. CASE ~radioValid[r]
    <2>1. Shut(r)
      BY <1>12 DEF RadioInv, Waiting, Running
    <2>2. PICK l \in Levels : cache[r] = SelfAt(0, l)
      BY <2>1 DEF Shut
    <2>3. cache'[r] = SelfAt(0, level)
      BY <1>9, <2>2
    <2>4. Shut(r)'
      BY <1>8, <1>12, <2>1, <2>3 DEF Shut
    <2> QED  BY <1>1, <1>2, <1>3, <1>4, <1>5, <2>4, OthersStay DEF RadioInv
  <1> QED  BY <1>10, <1>11, <1>12 DEF RadioInv

\* The invariant is inductive.
LEMMA RadioNext == RadioInv /\ [Next]_vars => RadioInv'
PROOF
  <1> SUFFICES ASSUME RadioInv, [Next]_vars PROVE RadioInv'
    OBVIOUS
  <1>1. CASE UNCHANGED vars
    <2>1. RadioShapes'
      BY <1>1 DEF RadioInv, RadioShapes, vars
    <2> QED  BY <1>1, <2>1, OthersStay DEF RadioInv, vars
  <1>2. CASE Next
    BY <1>2, RadioBeginStep, BeginStep, MulticastLevelStep DEF Next
  <1> QED  BY <1>1, <1>2

\* The inductive invariant always holds.
LEMMA RadioInvariance == Spec => []RadioInv
PROOF
  BY RadioInit, RadioNext, PTL DEF Spec
-----------------------------------------------------------------------------
\* A radio puts the byte of pipe p before the last four bytes of pipe 1, and has the
\* address of pipe p.
LEMMA SharedBytes ==
  ASSUME NEW a \in TreeAddress, NEW p \in Pipes, p # 0
  PROVE  << pipe_address(a, p)[1] >> \o Tail(pipe_address(a, 1)) = pipe_address(a, p)
PROOF
  <1>1. PICK x, y : x = pipe_address(a, 1) /\ y = pipe_address(a, p)
    OBVIOUS
  <1>2. PICK c : c = DigitCount(a)
    OBVIOUS
  <1>3. /\ x = [ i \in 1..5 |-> x[i] ]
        /\ \A k \in 0..3 : x[k + 2] = IF k < c THEN Byte(Digit(a, k)) ELSE 204
    BY <1>1, <1>2, PipeDigits, OwnPipe
  <1>4. /\ y = [ i \in 1..5 |-> y[i] ]
        /\ \A k \in 0..3 : y[k + 2] = IF k < c THEN Byte(Digit(a, k)) ELSE 204
    BY <1>1, <1>2, OwnPipe
  <1>5. \A k \in 0..3 : x[k + 2] = y[k + 2]
    BY <1>3, <1>4
  <1>6. x[2] = y[2] /\ x[3] = y[3] /\ x[4] = y[4] /\ x[5] = y[5]
    <2>1. /\ 0 \in 0..3 /\ 1 \in 0..3 /\ 2 \in 0..3 /\ 3 \in 0..3
          /\ 0 + 2 = 2 /\ 1 + 2 = 3 /\ 2 + 2 = 4 /\ 3 + 2 = 5
      OBVIOUS
    <2> QED  BY <1>5, <2>1
  <1>7. PICK S : S = { x[1], y[1], y[2], y[3], y[4], y[5] }
    OBVIOUS
  <1>8. x \in Seq(S) /\ Len(x) = 5
    <2>1. \A i \in 1..5 : x[i] \in S
      BY <1>6, <1>7
    <2> QED  BY <1>3, <2>1
  <1>9. /\ Tail(x) \in Seq(S) /\ Len(Tail(x)) = 4
        /\ Tail(x)[1] = x[2] /\ Tail(x)[2] = x[3] /\ Tail(x)[3] = x[4] /\ Tail(x)[4] = x[5]
    <2>1. Tail(x) \in Seq(S) /\ Len(Tail(x)) = 4 /\ \A i \in 1..4 : Tail(x)[i] = x[i + 1]
      <3>1. x # << >>
        BY <1>8
      <3>2. /\ Tail(x) \in Seq(S) /\ Len(Tail(x)) = Len(x) - 1
            /\ \A i \in 1..Len(Tail(x)) : Tail(x)[i] = x[i + 1]
        BY <1>8, <3>1, HeadTailProperties
      <3>3. PICK t : t = Tail(x)
        OBVIOUS
      <3>4. Len(t) = 4
        BY <1>8, <3>2, <3>3
      <3>5. \A i \in 1..Len(t) : t[i] = x[i + 1]
        BY <3>2, <3>3
      <3>6. \A i \in 1..4 : t[i] = x[i + 1]
        BY <3>4, <3>5
      <3> QED  BY <3>2, <3>3, <3>4, <3>6
    <2>2. /\ 1 \in 1..4 /\ 2 \in 1..4 /\ 3 \in 1..4 /\ 4 \in 1..4
          /\ 1 + 1 = 2 /\ 2 + 1 = 3 /\ 3 + 1 = 4 /\ 4 + 1 = 5
      OBVIOUS
    <2> QED  BY <2>1, <2>2
  <1>10. PICK z : z = << y[1] >> \o Tail(x)
    OBVIOUS
  <1>11. z \in Seq(S) /\ Len(z) = 5 /\ z[1] = y[1]
    BY <1>7, <1>9, <1>10
  <1>12. z[2] = x[2] /\ z[3] = x[3] /\ z[4] = x[4] /\ z[5] = x[5]
    <2>1. \A i \in 2..5 : z[i] = Tail(x)[i - 1]
      <3>1. PICK w : w = << y[1] >>
        OBVIOUS
      <3>2. w \in Seq(S) /\ Len(w) = 1
        BY <1>7, <3>1
      <3>3. PICK u : u = Tail(x)
        OBVIOUS
      <3>4. u \in Seq(S) /\ Len(u) = 4 /\ z = w \o u
        BY <1>9, <1>10, <3>1, <3>3
      <3>5. \A i \in 1..Len(w) + Len(u) : (w \o u)[i] = IF i <= Len(w) THEN w[i] ELSE u[i - Len(w)]
        BY <3>2, <3>4, ConcatProperties
      <3>6. \A i \in 2..5 : z[i] = u[i - 1]
        <4>1. ASSUME NEW i \in 2..5 PROVE z[i] = u[i - 1]
          <5>1. i \in 1..Len(w) + Len(u) /\ ~(i <= Len(w)) /\ i - Len(w) = i - 1
            BY <3>2, <3>4
          <5> QED  BY <3>4, <3>5, <5>1
        <4> QED  BY <4>1
      <3> QED  BY <3>3, <3>6
    <2>2. /\ 2 \in 2..5 /\ 3 \in 2..5 /\ 4 \in 2..5 /\ 5 \in 2..5
          /\ 2 - 1 = 1 /\ 3 - 1 = 2 /\ 4 - 1 = 3 /\ 5 - 1 = 4
      OBVIOUS
    <2> QED  BY <1>9, <2>1, <2>2
  <1>13. z = [ i \in 1..5 |-> z[i] ]
    BY <1>11
  <1>14. \A i \in 1..5 : z[i] = y[i]
    BY <1>6, <1>11, <1>12
  <1>15. z = y
    BY <1>4, <1>13, <1>14
  <1> QED  BY <1>1, <1>10, <1>15

\* What a radio that is running listens to.
LEMMA HeardByRunning ==
  ASSUME NEW r \in Radios, NEW l \in Levels, node_address[r] \in TreeAddress, Running(r, l)
  PROVE  /\ Opened(r) /\ Grouped(r) /\ cache[r]._multicast_level = l
         /\ \A p \in Pipes : Listening(r, p) = IF p = 0 THEN Group(l)
                                               ELSE pipe_address(node_address[r], p)
PROOF
  <1>1. PICK n : n = node_address[r]
    OBVIOUS
  <1>2. pipe[r] = Listens(n, l) /\ cache[r] = SelfAt(n, l) /\ n \in TreeAddress
    BY <1>1 DEF Running
  <1>3. pipe[r][1] = pipe_address(n, 1)
    BY <1>2, PipeDigits DEF Listens, openReadingPipe
  <1>4. Opened(r)
    <2>1. Len(pipe_address(n, 1)) = 5
      BY <1>2, PipeDigits, OwnPipe
    <2>2. Len(Closed) = 0
      BY DEF Closed
    <2> QED  BY <1>3, <2>1, <2>2 DEF Opened
  <1>5. cache[r]._multicast_level = l
    BY <1>2, Selves
  <1>6. ASSUME NEW p \in Pipes
        PROVE  Listening(r, p) = IF p = 0 THEN Group(l) ELSE pipe_address(n, p)
    <2>1. pipe[r][p] = IF p = 0 THEN Group(l) ELSE openReadingPipe(p, pipe_address(n, p))
      BY <1>2 DEF Listens
    <2>2. CASE p = 0
      BY <2>1, <2>2 DEF Listening
    <2>3. CASE p = 1
      BY <1>3, <2>3 DEF Listening
    <2>4. CASE p # 0 /\ p # 1
      <3>1. ~(p < 2)
        BY <2>4, PipeDigits DEF Octal
      <3>2. pipe[r][p] = << pipe_address(n, p)[1] >>
        BY <2>1, <2>4, <3>1 DEF openReadingPipe
      <3>3. pipe[r][p] # Closed
        BY <3>2 DEF Closed
      <3> QED  BY <1>2, <1>3, <2>4, <3>1, <3>2, <3>3, SharedBytes DEF Listening
    <2> QED  BY <2>2, <2>3, <2>4
  <1>7. Grouped(r)
    BY <1>4 DEF Grouped
  <1> QED  BY <1>1, <1>4, <1>5, <1>6, <1>7

\* What one listens to whose node is not begun.
LEMMA HeardByWaiting ==
  ASSUME NEW r \in Radios, NEW l \in Levels, Waiting(r, l)
  PROVE  /\ ~Opened(r) /\ Grouped(r) /\ cache[r]._multicast_level = l
         /\ Listening(r, 0) = Group(l)
         /\ \A p \in Pipes : p # 0 => Len(Listening(r, p)) = 0
PROOF
  <1>1. \A p \in Pipes : pipe[r][p] = IF p = 0 THEN Group(l) ELSE Closed
    BY DEF Waiting, Waits
  <1>2. pipe[r][0] = Group(l) /\ pipe[r][1] = Closed
    BY <1>1, PipeDigits
  <1>3. Len(Group(l)) = 5 /\ Len(Closed) = 0
    BY GroupLength DEF Closed
  <1>4. \A p \in Pipes : p # 0 => Listening(r, p) = Closed
    BY <1>1 DEF Listening
  <1>5. Listening(r, 0) = Group(l)
    BY <1>2 DEF Listening
  <1>6. cache[r]._multicast_level = l
    <2>1. cache[r] = SelfAt(0, l)
      BY DEF Waiting
    <2> QED  BY <2>1, Selves
  <1> QED  BY <1>2, <1>3, <1>4, <1>5, <1>6 DEF Opened, Grouped

\* One that is shut listens to no address.
LEMMA NothingHeard ==
  ASSUME NEW r \in Radios, Shut(r)
  PROVE  ~Opened(r) /\ ~Grouped(r) /\ \A p \in Pipes : Len(Listening(r, p)) = 0
PROOF
  <1>1. \A p \in Pipes : pipe[r][p] = Closed
    BY DEF Shut
  <1>2. \A p \in Pipes : Listening(r, p) = Closed
    BY <1>1 DEF Listening
  <1> QED  BY <1>1, <1>2, PipeDigits DEF Opened, Grouped, Closed

\* Who hears the pipe of a node: those that have its address, whatever it was before.
LEMMA HearersOfNode ==
  ASSUME RadioInv, NEW m \in TreeAddress, NEW q \in Pipes, q # 0
  PROVE  Hearers(pipe_address(m, q))
           = { << s, q >> : s \in { s \in Radios : Opened(s) /\ node_address[s] = m } }
PROOF
  <1>1. PICK x : x = pipe_address(m, q)
    OBVIOUS
  <1>2. ASSUME NEW s \in Radios, NEW p \in Pipes
        PROVE  Listening(s, p) = x <=> p = q /\ Opened(s) /\ node_address[s] = m
    <2>1. CASE Shut(s)
      <3>1. Len(x) = 5
        BY <1>1, OwnPipe
      <3> QED  BY <2>1, <3>1, NothingHeard
    <2>2. CASE \E l \in Levels : Running(s, l)
      <3>1. PICK l \in Levels : Running(s, l)
        BY <2>2
      <3>2. node_address[s] \in TreeAddress
        BY DEF RadioInv
      <3>3. Opened(s) /\ Listening(s, p) = IF p = 0 THEN Group(l) ELSE pipe_address(node_address[s], p)
        BY <3>1, <3>2, HeardByRunning
      <3>4. CASE p = 0
        <4>1. Group(l) # x
          BY <1>1, GroupNotOwn
        <4> QED  BY <3>3, <3>4, <4>1
      <3>5. CASE p # 0
        <4>1. pipe_address(node_address[s], p) = x => node_address[s] = m /\ p = q
          BY <1>1, <3>2, <3>5, OwnPipesDiffer
        <4> QED  BY <1>1, <3>3, <3>5, <4>1
      <3> QED  BY <3>4, <3>5
    <2>3. CASE \E l \in Levels : Waiting(s, l)
      <3>1. PICK l \in Levels : Waiting(s, l)
        BY <2>3
      <3>2. /\ ~Opened(s) /\ Listening(s, 0) = Group(l)
            /\ p # 0 => Len(Listening(s, p)) = 0
        BY <3>1, HeardByWaiting
      <3>3. Len(x) = 5 /\ Group(l) # x
        BY <1>1, OwnPipe, GroupNotOwn
      <3> QED  BY <3>2, <3>3
    <2> QED  BY <2>1, <2>2, <2>3 DEF RadioInv
  <1>3. Hearers(x) = { h \in Radios \X Pipes : Listening(h[1], h[2]) = x }
    BY DEF Hearers
  <1>4. \A h \in Radios \X Pipes : /\ h = << h[1], h[2] >> /\ h[1] \in Radios /\ h[2] \in Pipes
                                   /\ Listening(h[1], h[2]) = x <=>
                                        h[2] = q /\ Opened(h[1]) /\ node_address[h[1]] = m
    BY <1>2
  <1>5. PICK T : T = { s \in Radios : Opened(s) /\ node_address[s] = m }
    OBVIOUS
  <1>6. \A s \in Radios : s \in T <=> Opened(s) /\ node_address[s] = m
    BY <1>5
  <1>7. T \subseteq Radios
    BY <1>5
  <1>8. Hearers(x) = { << s, q >> : s \in T }
    BY <1>3, <1>4, <1>6, <1>7
  <1> QED  BY <1>1, <1>5, <1>8

\* The same for the group of a level.
LEMMA HearersOfGroup ==
  ASSUME RadioInv, NEW k \in Levels
  PROVE  Hearers(Group(k))
           = { << s, 0 >> : s \in { s \in Radios : Grouped(s) /\ cache[s]._multicast_level = k } }
PROOF
  <1>1. PICK x : x = Group(k)
    OBVIOUS
  <1>2. ASSUME NEW s \in Radios, NEW p \in Pipes
        PROVE  Listening(s, p) = x <=> p = 0 /\ Grouped(s) /\ cache[s]._multicast_level = k
    <2>1. CASE Shut(s)
      <3>1. Len(x) = 5
        BY <1>1, GroupLength
      <3>2. ~Grouped(s) /\ Len(Listening(s, p)) = 0
        BY <2>1, NothingHeard
      <3> QED  BY <3>1, <3>2
    <2>2. CASE \E l \in Levels : Running(s, l)
      <3>1. PICK l \in Levels : Running(s, l)
        BY <2>2
      <3>2. node_address[s] \in TreeAddress
        BY DEF RadioInv
      <3>3. /\ Grouped(s) /\ cache[s]._multicast_level = l
            /\ Listening(s, p) = IF p = 0 THEN Group(l) ELSE pipe_address(node_address[s], p)
        BY <3>1, <3>2, HeardByRunning
      <3>4. CASE p = 0
        <4>1. Group(l) = x <=> l = k
          BY <1>1, GroupsDiffer
        <4> QED  BY <3>3, <3>4, <4>1
      <3>5. CASE p # 0
        <4>1. pipe_address(node_address[s], p) # x
          BY <1>1, <3>2, <3>5, GroupNotOwn
        <4> QED  BY <3>3, <3>5, <4>1
      <3> QED  BY <3>4, <3>5
    <2>3. CASE \E l \in Levels : Waiting(s, l)
      <3>1. PICK l \in Levels : Waiting(s, l)
        BY <2>3
      <3>2. /\ Grouped(s) /\ cache[s]._multicast_level = l
            /\ Listening(s, 0) = Group(l) /\ (p # 0 => Len(Listening(s, p)) = 0)
        BY <3>1, HeardByWaiting
      <3>3. Len(x) = 5 /\ (Group(l) = x <=> l = k)
        BY <1>1, GroupLength, GroupsDiffer
      <3>4. CASE p = 0
        <4>1. Listening(s, p) = x <=> l = k
          BY <3>2, <3>3, <3>4
        <4> QED  BY <3>2, <3>4, <4>1
      <3>5. CASE p # 0
        <4>1. PICK y : y = Listening(s, p)
          OBVIOUS
        <4>2. Len(y) = 0 /\ Len(x) = 5
          BY <3>2, <3>3, <3>5, <4>1
        <4>3. ASSUME y = x PROVE FALSE
          <5>1. Len(y) = Len(x)
            BY <4>3
          <5>2. PICK a, b : a = Len(y) /\ b = Len(x)
            OBVIOUS
          <5> QED  BY <4>2, <5>1, <5>2
        <4>4. Listening(s, p) # x
          BY <4>1, <4>3
        <4> QED  BY <3>5, <4>4
      <3> QED  BY <3>4, <3>5
    <2> QED  BY <2>1, <2>2, <2>3 DEF RadioInv
  <1>3. Hearers(x) = { h \in Radios \X Pipes : Listening(h[1], h[2]) = x }
    BY DEF Hearers
  <1>4. \A h \in Radios \X Pipes : /\ h = << h[1], h[2] >> /\ h[1] \in Radios /\ h[2] \in Pipes
                                   /\ Listening(h[1], h[2]) = x <=>
                                        h[2] = 0 /\ Grouped(h[1]) /\ cache[h[1]]._multicast_level = k
    BY <1>2
  <1>5. PICK T : T = { s \in Radios : Grouped(s) /\ cache[s]._multicast_level = k }
    OBVIOUS
  <1>6. \A s \in Radios : s \in T <=> Grouped(s) /\ cache[s]._multicast_level = k
    BY <1>5
  <1>7. T \subseteq Radios
    BY <1>5
  <1>8. Hearers(x) = { << s, 0 >> : s \in T }
    BY <1>3, <1>4, <1>6, <1>7, PipeDigits
  <1> QED  BY <1>1, <1>5, <1>8

\* Whatever addresses and levels the radios went through, a frame on its way along the
\* tree is heard on one pipe, by the nodes that have the address of its next hop now.
THEOREM UnicastHeard == Spec => []UnicastReachesNextHop
PROOF
  <1>1. ASSUME RadioInv PROVE UnicastReachesNextHop
    <2>1. SUFFICES ASSUME NEW r \in Radios, NEW dest \in Addresses,
                          Opened(r), dest # node_address[r]
                   PROVE  Hearers(OnAir(r, dest)) =
                            { << s, Transmission(r, dest).send_pipe >> :
                                s \in { s \in Radios : /\ Opened(s)
                                                       /\ node_address[s] = Transmission(r, dest).send_node } }
      BY DEF UnicastReachesNextHop
    <2>2. PICK n, h : n = node_address[r] /\ h = Transmission(r, dest)
      OBVIOUS
    <2>3. n \in TreeAddress /\ dest \in TreeAddress /\ n # dest
      BY <1>1, <2>1, <2>2, AddressesAssumption DEF RadioInv
    <2>4. PICK l \in Levels : Running(r, l)
      BY <1>1, <2>1, NothingHeard, HeardByWaiting DEF RadioInv
    <2>5. Masks(Self(r), n)
      <3>1. Self(r) = [ SelfAt(n, l) EXCEPT !.node_address = n ]
        BY <2>2, <2>4 DEF Self, Running
      <3> QED  BY <3>1, Selves
    <2>6. IsHop(h, n, dest)
      <3>1. h = logicalToPhysicalAddress(Self(r), dest, TX_NORMAL)
        BY <2>2 DEF Transmission
      <3>2. IsHop(logicalToPhysicalAddress(Self(r), dest, TX_NORMAL), n, dest)
        BY <2>3, <2>5, HopOf
      <3> QED  BY <3>1, <3>2
    <2>7. PICK m, q : m = h.send_node /\ q = h.send_pipe
      OBVIOUS
    <2>8. m \in TreeAddress /\ q \in Pipes /\ q # 0
      <3>1. m \in TreeAddress
        BY <2>6, <2>7 DEF IsHop, Beside
      <3>2. q \in 1..(NUM_PIPES - 1)
        BY <2>6, <2>7 DEF IsHop
      <3> QED  BY <3>1, <3>2, NumPipesAssumption DEF Pipes
    <2>9. OnAir(r, dest) = pipe_address(m, q)
      BY <2>2, <2>7 DEF OnAir
    <2> QED  BY <1>1, <2>2, <2>7, <2>8, <2>9, HearersOfNode
  <1> QED  BY <1>1, RadioInvariance, PTL

\* A multicast is heard by the nodes of its level and by no others, also after they moved.
THEOREM MulticastHeard == Spec => []MulticastReachesLevel
PROOF
  <1>1. ASSUME RadioInv PROVE MulticastReachesLevel
    BY <1>1, HearersOfGroup DEF MulticastReachesLevel, Group
  <1> QED  BY <1>1, RadioInvariance, PTL

\* What a node of the levels 1 to 3 relays is heard one level further down.
THEOREM RelayHeard == Spec => []RelayReachesNextLevel
PROOF
  <1>1. ASSUME NEW level \in 1..3
        PROVE  level + 1 \in Levels /\ pipe_address(RelayTarget(level), 0) = Group(level + 1)
    <2>1. level = 1 \/ level = 2 \/ level = 3
      OBVIOUS
    <2>2. RelayTarget(level) = levelToAddress(level + 1)
      <3>1. 1 + 1 = 2 /\ 2 + 1 = 3 /\ 3 + 1 = 4 /\ 1 * 8 = 8 /\ 8 * 8 = 64 /\ 64 * 8 = 512
        OBVIOUS
      <3> QED  BY <2>1, <3>1, LevelAddresses DEF RelayTarget
    <2> QED  BY <2>1, <2>2 DEF Group, Levels
  <1>2. ASSUME RadioInv PROVE RelayReachesNextLevel
    BY <1>1, <1>2, HearersOfGroup DEF RelayReachesNextLevel
  <1> QED  BY <1>2, RadioInvariance, PTL
=============================================================================
