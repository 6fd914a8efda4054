---------------------------- MODULE Paging_proofs ----------------------------
(***************************************************************************)
(* Proof that the pages of getDescriptionPage tile the sensors, for every  *)
(* segment size and every number of sensors up to 255 pages.               *)
(***************************************************************************)
EXTENDS Paging, NaturalFacts

\* uint8_t sensorsPerPage is between 1 and 255, and that many entries fit.
LEMMA PerPageFits ==
    /\ PerPage \in 1..255
    /\ HeaderSize + PerPage * EntrySize <= BufferSize
  <1> DEFINE n == (BufferSize - 9) \div 72
  <1>1. n \in Nat /\ 72 * n <= BufferSize - 9
    BY BufferAssumption, SMT DEF BufferAssumption, HeaderSize, EntrySize
  <1>2. PerPage = n % 256
    BY DEF PerPage, HeaderSize, EntrySize
  <1> HIDE DEF n
  <1>3. n % 256 \in 0..255 /\ n % 256 <= n
    BY <1>1, SMT
  <1> QED BY <1>1, <1>2, <1>3, BufferAssumption, SMT
          DEF BufferAssumption, HeaderSize, EntrySize

\* A product of two uint8_t numbers.
LEMMA ProductFits ==
    ASSUME NEW k \in 0..255, NEW w \in 1..255
    PROVE  k * w \in Nat /\ k * w <= 65025
  <1> DEFINE x == k * w
  <1>1. x <= 255 * w
    BY TimesMonotonic
  <1>2. x \in Nat
    BY SMT
  <1> HIDE DEF x
  <1>3. x <= 65025
    BY <1>1, <1>2, SMT
  <1> QED BY <1>2, <1>3 DEF x

\* Starting sensors are not cut off by their uint16_t.
LEMMA StartsExact ==
    ASSUME NEW page \in 1..256
    PROVE  StartingSensor(page) = (page - 1) * PerPage
  <1> DEFINE s == (page - 1) * PerPage
  <1>1. s \in Nat /\ s <= 65025
    <2>1. page - 1 \in 0..255 /\ PerPage \in 1..255
      BY PerPageFits
    <2> QED BY <2>1, ProductFits
  <1>2. StartingSensor(page) = s % 65536
    BY DEF StartingSensor
  <1> HIDE DEF s
  <1>3. s \in Nat /\ s < 65536 /\ 65536 \in Nat \ {0}
    BY <1>1, SMT
  <1>4. s % 65536 = s
    BY <1>3, SmallRemainder
  <1> QED BY <1>2, <1>4 DEF s

(***************************************************************************)
(* ceil of the quotient: m pages when the last one is full, else m + 1.    *)
(***************************************************************************)
LEMMA PageCountExact ==
    ASSUME NEW count \in Nat \ {0}, count <= 255 * PerPage
    PROVE  LET m == count \div PerPage
           IN  /\ m \in 0..255
               /\ count % PerPage = 0 => PageCount(count) = m /\ m > 0
               /\ count % PerPage # 0 => PageCount(count) = m + 1 /\ m < 255
  <1> DEFINE p == PerPage
             m == count \div p
             r == count % p
             q == (count + p - 1) \div p
             s == (count + p - 1) % p
  <1>1. p \in 1..255
    BY PerPageFits
  <1>2. PageCount(count) = IF q % 256 < 1 THEN 1 ELSE q % 256
    BY DEF PageCount
  <1> HIDE DEF p
  <1>3. m \in Nat /\ r \in 0..(p - 1) /\ count = p * m + r
    <2>1. count \in Nat /\ p \in Nat \ {0}
      BY <1>1
    <2> QED BY <2>1, Division
  <1>4. q \in Nat /\ s \in 0..(p - 1) /\ count + p - 1 = p * q + s
    <2>1. count + p - 1 \in Nat /\ p \in Nat \ {0}
      BY <1>1
    <2> QED BY <2>1, Division
  <1> HIDE DEF m, r, q, s
  <1>5. p * m \in Nat /\ p * q \in Nat
    BY <1>1, <1>3, <1>4, SMT
  <1>6. m <= 255
    <2> SUFFICES ASSUME m >= 256 PROVE FALSE
      BY <1>3
    <2>1. 256 * p <= m * p
      BY <1>1, <1>3, TimesMonotonic
    <2> QED BY <1>1, <1>3, <2>1, SMT DEF p
  <1>7. CASE r = 0
    <2>1. q = m
      <3>1. p * m <= p * q /\ p * q < p * m + p
        BY <1>1, <1>3, <1>4, <1>5, <1>7, SMT
      <3> QED BY <1>1, <1>3, <1>4, <3>1, BetweenMultiples
    <2>2. m > 0
      BY <1>1, <1>3, <1>7, SMT
    <2>3. q % 256 = q
      BY <1>3, <1>6, <2>1, SMT
    <2> QED BY <1>2, <1>3, <1>6, <1>7, <2>1, <2>2, <2>3 DEF m, r, p
  <1>8. CASE r # 0
    <2>1. q = m + 1
      <3>1. p * (m + 1) <= p * q /\ p * q < p * (m + 1) + p
        BY <1>1, <1>3, <1>4, <1>5, <1>8, SMT
      <3> QED BY <1>1, <1>3, <1>4, <3>1, BetweenMultiples
    <2>2. m < 255
      BY <1>1, <1>3, <1>6, <1>8, SMT DEF p
    <2>3. q % 256 = q
      BY <1>3, <2>1, <2>2, SMT
    <2> QED BY <1>2, <1>3, <1>6, <1>8, <2>1, <2>2, <2>3 DEF m, r, p
  <1> QED BY <1>7, <1>8

(***************************************************************************)
(* Every description of up to 255 pages is complete, in order and without  *)
(* repetition, and every page fits into the message segment                *)
(* (SensorSet.cpp:167-225), for every segment size.                        *)
(***************************************************************************)
THEOREM PagesTile ==
    ASSUME NEW count \in Nat, count <= 255 * PerPage
    PROVE  Tiles(count)
  <1> DEFINE p == PerPage
             last == PageCount(count)
  <1>1. p \in 1..255 /\ HeaderSize + p * EntrySize <= BufferSize
    BY PerPageFits
  <1>2. count % p \in 0..(p - 1) /\ count = p * (count \div p) + (count % p)
    <2>1. p \in Nat \ {0}
      BY <1>1
    <2> QED BY <2>1, Division
  <1>3. /\ last \in 1..256
        /\ (last - 1) * p + SensorsOnPage(count, last) = count
    <2>1. CASE count = 0
      <3>1. (p - 1) \div p = 0
        <4>1. /\ (p - 1) \div p \in Nat
              /\ (p - 1) % p \in 0..(p - 1)
              /\ p - 1 = p * ((p - 1) \div p) + ((p - 1) % p)
          <5>1. p - 1 \in Nat /\ p \in Nat \ {0}
            BY <1>1
          <5> QED BY <5>1, Division
        <4> DEFINE d == (p - 1) \div p
        <4> HIDE DEF d
        <4>2. d \in Nat /\ p * d <= p - 1
          BY <1>1, <4>1, SMT DEF d
        <4>3. d = 0
          <5>1. p * 0 <= p * d /\ p * d < p * 0 + p
            BY <1>1, <4>2, SMT
          <5> QED BY <1>1, <4>2, <5>1, BetweenMultiples
        <4> QED BY <4>3 DEF d
      <3>2. 0 + p - 1 = p - 1
        BY <1>1
      <3>3. last = 1
        BY <2>1, <3>1, <3>2, SMT DEF PageCount
      <3>4. 0 % p = 0
        BY <1>1, SMT
      <3>5. SensorsOnPage(count, last) = 0
        BY <2>1, <3>3, <3>4 DEF SensorsOnPage
      <3> QED BY <1>1, <2>1, <3>3, <3>5
    <2>2. CASE count # 0
      <3> DEFINE m == count \div p
                 r == count % p
      <3>1. /\ m \in 0..255
            /\ r = 0 => last = m /\ m > 0
            /\ r # 0 => last = m + 1 /\ m < 255
        BY <2>2, PageCountExact
      <3>2. count = p * m + r
        BY <1>2
      <3>3. SensorsOnPage(count, last) = IF r = 0 THEN p ELSE r
        BY <2>2, <3>1 DEF SensorsOnPage
      <3> HIDE DEF m, r
      <3>4. CASE r = 0
        <4>1. (m - 1) * p + p = p * m + r
          BY <1>1, <3>1, <3>4, SMT
        <4> QED BY <3>1, <3>2, <3>3, <3>4, <4>1
      <3>5. CASE r # 0
        <4>1. (m + 1 - 1) * p + r = p * m + r
          BY <1>1, <1>2, <3>1, SMT DEF r
        <4> QED BY <3>1, <3>2, <3>3, <3>5, <4>1
      <3> QED BY <3>4, <3>5
    <2> QED BY <2>1, <2>2
  <1>4. StartingSensor(1) = 0
    BY <1>1, StartsExact, SMT
  <1>5. ASSUME NEW i \in 1..(last - 1)
        PROVE  StartingSensor(i + 1) = StartingSensor(i) + SensorsOnPage(count, i)
    <2>1. SensorsOnPage(count, i) = p
      BY <1>3, <1>5 DEF SensorsOnPage
    <2>2. /\ StartingSensor(i) = (i - 1) * p
          /\ StartingSensor(i + 1) = (i + 1 - 1) * p
      <3>1. i \in 1..256 /\ i + 1 \in 1..256
        BY <1>3, <1>5
      <3> QED BY <3>1, StartsExact
    <2> QED BY <1>1, <1>3, <1>5, <2>1, <2>2, SMT
  <1>6. StartingSensor(last) + SensorsOnPage(count, last) = count
    BY <1>3, StartsExact
  <1>7. ASSUME NEW i \in 1..last
        PROVE  PageLength(count, i) <= BufferSize
    <2>1. SensorsOnPage(count, i) \in 0..p
      BY <1>1, <1>2 DEF SensorsOnPage
    <2>2. BufferSize \in Nat
      BY BufferAssumption DEF BufferAssumption, HeaderSize, EntrySize
    <2> QED BY <1>1, <2>1, <2>2 DEF PageLength, HeaderSize, EntrySize
  <1> QED BY <1>4, <1>5, <1>6, <1>7 DEF Tiles
=============================================================================
