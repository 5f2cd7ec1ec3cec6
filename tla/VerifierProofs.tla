---------------------------- MODULE VerifierProofs ----------------------------
(***************************************************************************)
(* Proofs about CredentialVerifier: its inductive invariant VerifierInv,    *)
(* kept by every step of a call, and what follows from it.  The searches    *)
(* within a call are CertChainProofs'; here it is shown what was asked of   *)
(* each and what its answer allows.  The calendar and the entries of a      *)
(* status list come first, then what the arguments are, the invariant, one  *)
(* lemma per action, what a document that passes must be, the theorems.     *)
(***************************************************************************)
EXTENDS CredentialVerifier, CertChainProofs

\* The leap days before a year, since the year 0.
LeapDays(year) == (year - 1) \div 4 - (year - 1) \div 100 + (year - 1) \div 400

LEMMA OneMoreYear ==
  ASSUME NEW y \in Int
  PROVE  LeapDays(y + 1) = LeapDays(y) + (IF IsLeapYear(y) THEN 1 ELSE 0)
  <1>1. y \div 4 - (y - 1) \div 4 = IF y % 4 = 0 THEN 1 ELSE 0
    OBVIOUS
  <1>2. y \div 100 - (y - 1) \div 100 = IF y % 100 = 0 THEN 1 ELSE 0
    OBVIOUS
  <1>3. y \div 400 - (y - 1) \div 400 = IF y % 400 = 0 THEN 1 ELSE 0
    OBVIOUS
  <1>4. (y % 400 = 0 => y % 100 = 0) /\ (y % 100 = 0 => y % 4 = 0)
    OBVIOUS
  <1>5. /\ y \div 4 \in Int /\ y \div 100 \in Int /\ y \div 400 \in Int
        /\ (y - 1) \div 4 \in Int /\ (y - 1) \div 100 \in Int /\ (y - 1) \div 400 \in Int
        /\ (y + 1) - 1 = y
    OBVIOUS
  <1> QED
    BY <1>1, <1>2, <1>3, <1>4, <1>5 DEF LeapDays, IsLeapYear

\* In a year that begins in March, months from 0.
MarchDays(y, m, day) ==
  365 * y + y \div 4 - y \div 100 + y \div 400 + (153 * m + 2) \div 5 + day - 1 - 719468

LEMMA CivilByMonth ==
  ASSUME NEW year \in Int, NEW month \in 1..12, NEW day \in Int,
         NEW y \in Int, y = IF month <= 2 THEN year - 1 ELSE year,
         NEW m \in Int, m = IF month > 2 THEN month - 3 ELSE month + 9
  PROVE  DaysFromCivil(year, month, day) = MarchDays(y, m, day)
PROOF
  <1> DEFINE era == y \div 400
             yoe == y - era * 400
             doy == (153 * m + 2) \div 5 + day - 1
  <1>1. era \in Int /\ yoe \in 0..399 /\ doy \in Int /\ y = era * 400 + yoe
    OBVIOUS
  <1>2. DaysFromCivil(year, month, day) = era * 146097 + (yoe * 365 + yoe \div 4 - yoe \div 100 + doy) - 719468
    BY SMT DEF DaysFromCivil
  <1>3. y \div 4 = era * 100 + yoe \div 4
    BY <1>1
  <1>4. y \div 100 = era * 4 + yoe \div 100
    BY <1>1
  <1> QED
    BY <1>1, <1>2, <1>3, <1>4, SMT DEF MarchDays

\* The years of a span hold the leap days between its ends.
LEMMA YearsAreCounted ==
  ASSUME NEW from \in Int, NEW n \in Nat
  PROVE  YearDays(from, from + n) = 365 * n + LeapDays(from + n) - LeapDays(from)
PROOF
  <1> DEFINE Leaps(i) == {y \in from..(from + i - 1) : IsLeapYear(y)}
             S == {i \in Nat : IsFiniteSet(Leaps(i)) /\ Cardinality(Leaps(i)) = LeapDays(from + i) - LeapDays(from)}
  <1>1. 0 \in S
    <2>1. Leaps(0) = {}
      OBVIOUS
    <2> QED
      BY <2>1, FS_EmptySet DEF LeapDays
  <1>2. ASSUME NEW i \in 1..n, i - 1 \in S PROVE i \in S
    <2> DEFINE y == from + (i - 1)
    <2>1. y \in Int /\ y + 1 = from + i /\ i \in Nat /\ i - 1 \in Nat
      OBVIOUS
    <2>2. LeapDays(y + 1) = LeapDays(y) + (IF IsLeapYear(y) THEN 1 ELSE 0)
      BY <2>1, OneMoreYear
    <2>3. LeapDays(y) \in Int /\ LeapDays(from) \in Int
      BY <2>1 DEF LeapDays
    <2>4. IsFiniteSet(Leaps(i - 1)) /\ Cardinality(Leaps(i - 1)) = LeapDays(y) - LeapDays(from)
      BY <1>2
    <2>5. y \notin Leaps(i - 1) /\ Leaps(i) = IF IsLeapYear(y) THEN Leaps(i - 1) \union {y} ELSE Leaps(i - 1)
      BY <2>1
    <2>6. IsFiniteSet(Leaps(i)) /\ Cardinality(Leaps(i)) = LeapDays(y + 1) - LeapDays(from)
      <3> HIDE DEF y, Leaps
      <3>1. CASE IsLeapYear(y)
        <4>1. Cardinality(Leaps(i - 1) \union {y}) = Cardinality(Leaps(i - 1)) + 1 /\ IsFiniteSet(Leaps(i - 1) \union {y})
          BY <2>4, <2>5, FS_AddElement
        <4> QED
          BY <3>1, <4>1, <2>2, <2>3, <2>4, <2>5
      <3>2. CASE ~IsLeapYear(y)
        BY <3>2, <2>2, <2>3, <2>4, <2>5
      <3> QED
        BY <3>1, <3>2
    <2> QED
      BY <2>1, <2>6
  <1> HIDE DEF S
  <1>3. n \in S
    BY <1>1, <1>2, CountingUp
  <1>4. Cardinality(Leaps(n)) = LeapDays(from + n) - LeapDays(from)
    BY <1>3 DEF S
  <1>5. LeapDays(from + n) \in Int /\ LeapDays(from) \in Int
    BY DEF LeapDays
  <1> QED
    BY <1>4, <1>5 DEF YearDays

\* The days before a month, leap being 28 or 29.
DaysBefore(month, february) ==
  CASE month = 1 -> 0 [] month = 2 -> 31 [] month = 3 -> 31 + february [] month = 4 -> 62 + february
    [] month = 5 -> 92 + february [] month = 6 -> 123 + february [] month = 7 -> 153 + february
    [] month = 8 -> 184 + february [] month = 9 -> 215 + february [] month = 10 -> 245 + february
    [] month = 11 -> 276 + february [] month = 12 -> 306 + february

LEMMA MonthsAreCounted ==
  ASSUME NEW year \in Int, NEW month \in 1..12
  PROVE  LET Months[m \in 1..month] == IF m = 1 THEN 0 ELSE Months[m - 1] + DaysInMonth(year, m - 1)
         IN  Months[month] = DaysBefore(month, DaysInMonth(year, 2))
PROOF
  <1> DEFINE february == DaysInMonth(year, 2)
             f == [m \in 1..month |-> DaysBefore(m, february)]
             Counts(g) == g = [m \in 1..month |-> IF m = 1 THEN 0 ELSE g[m - 1] + DaysInMonth(year, m - 1)]
  <1>1. february \in {28, 29}
    BY DEF DaysInMonth
  <1>2. ASSUME NEW m \in 2..12
        PROVE  DaysBefore(m, february) = DaysBefore(m - 1, february) + DaysInMonth(year, m - 1)
    <2> HIDE DEF february
    <2>1. DaysInMonth(year, 2) = february
      BY DEF february
    <2>2. \A k \in 1..12 : k # 2 => DaysInMonth(year, k) = IF k \in {4, 6, 9, 11} THEN 30 ELSE 31
      BY DEF DaysInMonth
    <2> QED
      BY <1>1, <2>1, <2>2 DEF DaysBefore
  <1>3. DaysBefore(1, february) = 0
    BY DEF DaysBefore
  <1>4. Counts(f)
    BY <1>2, <1>3
  <1> DEFINE g == CHOOSE h : Counts(h)
  <1>5. Counts(g)
    BY <1>4
  <1>6. ASSUME NEW m \in 1..month, m # 1 => g[m - 1] = f[m - 1] PROVE g[m] = f[m]
    <2> HIDE DEF f, g
    <2>1. g[m] = IF m = 1 THEN 0 ELSE g[m - 1] + DaysInMonth(year, m - 1)
      BY <1>5
    <2>2. f[m] = IF m = 1 THEN 0 ELSE f[m - 1] + DaysInMonth(year, m - 1)
      BY <1>4
    <2> QED
      BY <1>6, <2>1, <2>2
  <1>7. g[month] = f[month]
    <2> DEFINE S == {i \in 0..12 : i + 1 \in 1..month => g[i + 1] = f[i + 1]}
    <2> HIDE DEF f, g
    <2>1. 0 \in S
      BY <1>6
    <2>2. \A i \in 1..(month - 1) : i - 1 \in S => i \in S
      <3> SUFFICES ASSUME NEW i \in 1..(month - 1), i - 1 \in S PROVE g[i + 1] = f[i + 1]
        OBVIOUS
      <3>1. i + 1 \in 1..month /\ (i - 1) + 1 = i /\ i \in 1..month /\ (i + 1) - 1 = i
        OBVIOUS
      <3>2. g[i] = f[i]
        BY <3>1
      <3> QED
        BY <3>1, <3>2, <1>6
    <2> HIDE DEF S
    <2>3. month - 1 \in S
      BY <2>1, <2>2, CountingUp, month - 1 \in Nat, month - 1 \in 0..(month - 1)
    <2> QED
      BY <2>3 DEF S
  <1>8. f[month] = DaysBefore(month, february)
    OBVIOUS
  <1> QED
    BY <1>7, <1>8

(* For every year, before 1970 or after: the closed formula counts the days (days_from_civil). *)
THEOREM CivilDaysAreCounted ==
  ASSUME NEW year \in Int, NEW month \in 1..12, NEW day \in Int
  PROVE  DaysFromCivil(year, month, day) = CountedDays(year, month, day)
PROOF
  <1> DEFINE newYear == IF year >= 1970 THEN YearDays(1970, year) ELSE -YearDays(year, 1970)
             february == DaysInMonth(year, 2)
             epoch == 1970
  <1>1. LeapDays(epoch) = 477 /\ LeapDays(year) \in Int /\ epoch \in Int
    BY DEF LeapDays
  <1>2. newYear = 365 * (year - 1970) + LeapDays(year) - 477
    <2>1. CASE year >= 1970
      <3> DEFINE n == year - epoch
      <3>1. n \in Nat /\ epoch + n = year
        BY <2>1
      <3>2. newYear = YearDays(epoch, year) /\ n = year - 1970
        BY <2>1
      <3> HIDE DEF n, epoch, newYear
      <3>3. YearDays(epoch, epoch + n) = 365 * n + LeapDays(epoch + n) - LeapDays(epoch)
        BY <1>1, <3>1, YearsAreCounted
      <3> QED
        BY <1>1, <3>1, <3>2, <3>3
    <2>2. CASE year < 1970
      <3> DEFINE n == epoch - year
      <3>1. n \in Nat /\ year + n = epoch
        BY <2>2
      <3>2. newYear = -YearDays(year, epoch) /\ n = 1970 - year
        BY <2>2
      <3> HIDE DEF n, epoch, newYear
      <3>3. YearDays(year, year + n) = 365 * n + LeapDays(year + n) - LeapDays(year)
        BY <3>1, YearsAreCounted
      <3> QED
        BY <1>1, <3>1, <3>2, <3>3
    <2> QED
      BY <2>1, <2>2
  <1>3. CountedDays(year, month, day) = newYear + DaysBefore(month, february) + day - 1
    <2> DEFINE Months[m \in 1..month] == IF m = 1 THEN 0 ELSE Months[m - 1] + DaysInMonth(year, m - 1)
    <2>1. Months[month] = DaysBefore(month, february)
      BY MonthsAreCounted
    <2>2. CountedDays(year, month, day) = newYear + Months[month] + day - 1
      BY DEF CountedDays
    <2> QED
      BY <2>1, <2>2
  <1>4. february = IF IsLeapYear(year) THEN 29 ELSE 28
    BY DEF DaysInMonth
  <1>5. LeapDays(year + 1) = LeapDays(year) + (IF IsLeapYear(year) THEN 1 ELSE 0)
    BY OneMoreYear
  <1>6. LeapDays(year + 1) = year \div 4 - year \div 100 + year \div 400
    BY year + 1 - 1 = year DEF LeapDays
  <1> HIDE DEF newYear, february
  <1>7. CASE month \in {1, 2}
    <2> DEFINE y == year - 1
               m == month + 9
    <2>1. y \in Int /\ m \in Int /\ y = (IF month <= 2 THEN year - 1 ELSE year)
          /\ m = (IF month > 2 THEN month - 3 ELSE month + 9)
      BY <1>7
    <2>2. LeapDays(year) = y \div 4 - y \div 100 + y \div 400
      BY DEF LeapDays
    <2>3. (153 * m + 2) \div 5 = 306 + DaysBefore(month, february)
      BY <1>7 DEF DaysBefore
    <2>4. DaysBefore(month, february) \in Int
      BY <1>7 DEF DaysBefore
    <2>5. 365 * y = 365 * year - 365 /\ 365 * (year - 1970) = 365 * year - 719050
      BY SMT
    <2> HIDE DEF y, m
    <2>6. DaysFromCivil(year, month, day) = MarchDays(y, m, day)
      BY <2>1, CivilByMonth
    <2> QED
      BY <1>1, <1>2, <1>3, <2>1, <2>2, <2>3, <2>4, <2>5, <2>6, SMT DEF MarchDays
  <1>8. CASE month \in 3..12
    <2> DEFINE m == month - 3
    <2>1. m \in Int /\ year = (IF month <= 2 THEN year - 1 ELSE year)
          /\ m = (IF month > 2 THEN month - 3 ELSE month + 9)
      BY <1>8
    <2>2. february \in {28, 29}
      BY <1>4
    <2>3. DaysBefore(month, february) = (153 * m + 2) \div 5 + 31 + february
      BY <1>8, <2>2 DEF DaysBefore
    <2>4. (153 * m + 2) \div 5 \in Int
      BY <1>8
    <2> HIDE DEF m
    <2>5. DaysFromCivil(year, month, day) = MarchDays(year, m, day)
      BY <2>1, CivilByMonth
    <2> QED
      BY <1>1, <1>2, <1>3, <1>4, <1>5, <1>6, <2>1, <2>3, <2>4, <2>5, SMT DEF MarchDays
  <1> QED
    BY <1>7, <1>8

-----------------------------------------------------------------------------
(* The entry of a list *)

\* Where the bits of an entry are: in one byte, which the list has.
EntryInAByte(idx, bits, length) ==
  LET at == idx * bits IN
  /\ at % 8 \in 0..7 /\ (at % 8) % bits = 0 /\ (at % 8) + bits <= 8 /\ (idx + 1) * bits <= 8 * length
  /\ \A k \in 0..(bits - 1) : (at + k) \div 8 = at \div 8 /\ (at + k) % 8 = (at % 8) + k /\ at + k \in 0..(8 * length - 1)

LEMMA EntryIsInAByte ==
  ASSUME NEW idx \in Nat, NEW bits \in {1, 2, 4, 8}, NEW length \in Nat, (idx * bits) \div 8 < length
  PROVE  EntryInAByte(idx, bits, length)
PROOF
  <1>1. CASE bits = 1
    BY <1>1 DEF EntryInAByte
  <1>2. CASE bits = 2
    BY <1>2 DEF EntryInAByte
  <1>3. CASE bits = 4
    BY <1>3 DEF EntryInAByte
  <1>4. CASE bits = 8
    BY <1>4 DEF EntryInAByte
  <1> QED
    BY <1>1, <1>2, <1>3, <1>4

LEMMA ElementAt ==
  ASSUME NEW S, NEW s \in Seq(S)
  PROVE  \A i \in 1..Len(s) : s[i] \in S
  OBVIOUS

Power(n) ==
  CASE n = 0 -> 1 [] n = 1 -> 2 [] n = 2 -> 4 [] n = 3 -> 8
    [] n = 4 -> 16 [] n = 5 -> 32 [] n = 6 -> 64 [] n = 7 -> 128

LEMMA Powers ==
  ASSUME NEW n \in 0..7
  PROVE  2 ^ n = Power(n)
PROOF
  <1>1. n = 0 => 2 ^ n = 1
    OBVIOUS
  <1>2. n = 1 => 2 ^ n = 2
    OBVIOUS
  <1>3. n = 2 => 2 ^ n = 4
    OBVIOUS
  <1>4. n = 3 => 2 ^ n = 8
    OBVIOUS
  <1>5. n = 4 => 2 ^ n = 16
    OBVIOUS
  <1>6. n = 5 => 2 ^ n = 32
    OBVIOUS
  <1>7. n = 6 => 2 ^ n = 64
    OBVIOUS
  <1>8. n = 7 => 2 ^ n = 128
    OBVIOUS
  <1> QED
    BY <1>1, <1>2, <1>3, <1>4, <1>5, <1>6, <1>7, <1>8 DEF Power

\* An entry that is zero has no bit set.
LEMMA BitsAreZero ==
  ASSUME NEW v \in 0..255, NEW bits \in {1, 2, 4, 8}, NEW s \in 0..7, s % bits = 0, s + bits <= 8,
         (v \div 2 ^ s) % 2 ^ bits = 0
  PROVE  \A k \in 0..(bits - 1) : (v \div 2 ^ (s + k)) % 2 = 0
PROOF
  <1> SUFFICES ASSUME NEW k \in 0..(bits - 1) PROVE (v \div 2 ^ (s + k)) % 2 = 0
    OBVIOUS
  <1>1. s + k \in 0..7
    OBVIOUS
  <1>2. 2 ^ s = Power(s) /\ 2 ^ (s + k) = Power(s + k)
    BY <1>1, Powers
  <1>3. 2 ^ 1 = 2 /\ 2 ^ 2 = 4 /\ 2 ^ 4 = 16 /\ 2 ^ 8 = 256
    OBVIOUS
  <1>4. /\ Power(0) = 1 /\ Power(1) = 2 /\ Power(2) = 4 /\ Power(3) = 8
        /\ Power(4) = 16 /\ Power(5) = 32 /\ Power(6) = 64 /\ Power(7) = 128
    BY DEF Power
  <1>5. (v \div Power(s + k)) % 2 = 0
    <2>1. CASE bits = 1
      <3>1. k = 0 /\ s + k = s
        BY <2>1
      <3> QED
        BY <1>2, <1>3, <2>1, <3>1
    <2>2. CASE bits = 2
      <3>1. s \in {0, 2, 4, 6} /\ k \in {0, 1}
        BY <2>2
      <3>2. (v \div Power(s)) % 4 = 0
        BY <1>2, <1>3, <2>2
      <3>3. s = 0 => (v \div Power(s + k)) % 2 = 0
        BY <1>4, <3>1, <3>2
      <3>4. s = 2 => (v \div Power(s + k)) % 2 = 0
        BY <1>4, <3>1, <3>2
      <3>5. s = 4 => (v \div Power(s + k)) % 2 = 0
        BY <1>4, <3>1, <3>2
      <3>6. s = 6 => (v \div Power(s + k)) % 2 = 0
        BY <1>4, <3>1, <3>2
      <3> QED
        BY <3>1, <3>3, <3>4, <3>5, <3>6
    <2>3. CASE bits = 4
      <3>1. s \in {0, 4} /\ k \in {0, 1, 2, 3}
        BY <2>3
      <3>2. (v \div Power(s)) % 16 = 0
        BY <1>2, <1>3, <2>3
      <3>3. s = 0 => (v \div Power(s + k)) % 2 = 0
        BY <1>4, <3>1, <3>2
      <3>4. s = 4 => (v \div Power(s + k)) % 2 = 0
        BY <1>4, <3>1, <3>2
      <3> QED
        BY <3>1, <3>3, <3>4
    <2>4. CASE bits = 8
      <3>1. s = 0 /\ k \in 0..7
        BY <2>4
      <3>2. 2 ^ bits = 256 /\ v \div 2 ^ s = v
        BY <1>2, <1>3, <1>4, <2>4, <3>1
      <3>3. v = 0
        <4>1. v % 256 = 0
          BY <3>2, Zenon
        <4> QED
          BY <4>1
      <3>4. \A c \in {1, 2, 4, 8, 16, 32, 64, 128} : (v \div c) % 2 = 0
        BY <3>3
      <3>5. Power(s + k) \in {1, 2, 4, 8, 16, 32, 64, 128}
        BY <1>4, <3>1
      <3> QED
        BY <3>4, <3>5
    <2> QED
      BY <2>1, <2>2, <2>3, <2>4
  <1> QED
    BY <1>2, <1>5

LEMMA EntryIsZero ==
  ASSUME NEW bytes \in Seq(0..255), NEW idx \in Nat, NEW bits \in {1, 2, 4, 8},
         ExtractStatusValue(bytes, idx, bits) = 0
  PROVE  (idx + 1) * bits <= 8 * Len(bytes) /\ EntryAt(bytes, idx, bits) = 0
PROOF
  <1> DEFINE at == idx * bits
             s == at % 8
             v == bytes[at \div 8 + 1]
             B == BitsOf(bytes)
             Counts(f) == f = [k \in 0..bits |-> IF k = 0 THEN 0 ELSE f[k - 1] + B[idx * bits + k - 1] * 2 ^ (k - 1)]
  <1>1. at \in Nat /\ Len(bytes) \in Nat /\ bits \in Nat
    OBVIOUS
  <1>2. at \div 8 < Len(bytes) /\ (v \div 2 ^ s) % 2 ^ bits = 0
    BY <1>1, DecodedAssumption DEF ExtractStatusValue
  <1>3. /\ s \in 0..7 /\ s % bits = 0 /\ s + bits <= 8 /\ (idx + 1) * bits <= 8 * Len(bytes)
        /\ \A k \in 0..(bits - 1) : (at + k) \div 8 = at \div 8 /\ (at + k) % 8 = s + k /\ at + k \in 0..(8 * Len(bytes) - 1)
    <2>1. (idx * bits) \div 8 < Len(bytes)
      BY <1>2
    <2>2. EntryInAByte(idx, bits, Len(bytes))
      BY <1>1, <2>1, EntryIsInAByte
    <2> QED
      BY <2>2 DEF EntryInAByte
  <1>4. v \in 0..255
    <2>1. at \div 8 \in Nat
      BY <1>1
    <2>2. at \div 8 + 1 \in 1..Len(bytes)
      BY <1>1, <1>2, <2>1
    <2>3. \A i \in 1..Len(bytes) : bytes[i] \in 0..255
      BY ElementAt
    <2> HIDE DEF at
    <2> QED
      BY <2>2, <2>3
  <1>5. \A k \in 0..(bits - 1) : (v \div 2 ^ (s + k)) % 2 = 0
    <2> HIDE DEF v, s
    <2> QED
      BY <1>2, <1>3, <1>4, BitsAreZero
  <1>6. \A k \in 0..(bits - 1) : B[at + k] = 0
    BY <1>3, <1>5 DEF BitsOf
  <1>7. \A k \in 1..bits : B[idx * bits + k - 1] * 2 ^ (k - 1) = 0
    <2> SUFFICES ASSUME NEW k \in 1..bits PROVE B[idx * bits + k - 1] * 2 ^ (k - 1) = 0
      OBVIOUS
    <2> HIDE DEF B
    <2>1. B[idx * bits + k - 1] = 0
      <3>1. k - 1 \in 0..(bits - 1) /\ idx * bits + k - 1 = at + (k - 1)
        BY <1>1
      <3> QED
        BY <1>6, <3>1
    <2>2. 2 ^ (k - 1) \in Int
      <3>1. k - 1 \in {0, 1, 2, 3, 4, 5, 6, 7}
        BY <1>1
      <3> QED
        BY <3>1
    <2> QED
      BY <2>1, <2>2
  <1> DEFINE zero == [k \in 0..bits |-> 0]
             sum == CHOOSE f : Counts(f)
  <1>8. Counts(zero)
    <2> HIDE DEF B
    <2>1. ASSUME NEW k \in 0..bits
          PROVE  0 = IF k = 0 THEN 0 ELSE zero[k - 1] + B[idx * bits + k - 1] * 2 ^ (k - 1)
      <3>1. k # 0 => k \in 1..bits /\ k - 1 \in 0..bits
        BY <1>1
      <3> QED
        BY <1>7, <3>1
    <2> QED
      BY <2>1
  <1>9. Counts(sum)
    BY <1>8
  <1> HIDE DEF sum, B, zero
  <1>10. sum[0] = 0 /\ \A k \in 1..bits : sum[k] = sum[k - 1] + 0
    <2>1. \A k \in 0..bits : sum[k] = IF k = 0 THEN 0 ELSE sum[k - 1] + B[idx * bits + k - 1] * 2 ^ (k - 1)
      BY <1>9
    <2>2. 0 \in 0..bits /\ \A k \in 1..bits : k \in 0..bits /\ k # 0
      BY <1>1
    <2> QED
      BY <1>7, <2>1, <2>2
  <1>11. sum[bits] = 0
    <2>1. \A k \in 1..bits : sum[k - 1] = 0 => sum[k] = 0
      BY <1>10
    <2>2. bits \in {1, 2, 4, 8}
      OBVIOUS
    <2>3. sum[1] = 0
      BY <1>10, <2>1, <2>2
    <2>4. bits >= 2 => sum[2] = 0
      BY <2>1, <2>3
    <2>5. bits >= 4 => sum[3] = 0 /\ sum[4] = 0
      BY <2>1, <2>4
    <2>6. bits = 8 => sum[5] = 0 /\ sum[6] = 0
      BY <2>1, <2>5
    <2>7. bits = 8 => sum[7] = 0 /\ sum[8] = 0
      BY <2>1, <2>6
    <2> QED
      BY <2>2, <2>3, <2>4, <2>5, <2>7
  <1>12. EntryAt(bytes, idx, bits) = sum[bits]
    BY DEF EntryAt, sum, B
  <1> QED
    BY <1>3, <1>11, <1>12

-----------------------------------------------------------------------------
(* The invariant *)

\* A search under way has no result; the leaf was checked before it; one that is pinned is its own root.
LeafInv ==
  /\ stack # <<>> => result = NoResult
  /\ stack # <<>> \/ result.verdict = "ok" => BeforeWalk(call) = "ok"
  /\ stack # <<>> /\ IsPinned(Leaf) => Len(stack) = 1 /\ Top.next = 0
  /\ result.verdict = "ok" /\ IsPinned(Leaf) => result.root = Leaf

\* What was asked of the search, stage by stage.
IssuerCall ==
  [chain |-> IssuerChain, anchors |-> AnchorsFor(Role), now |-> job.anchors.now, leafTime |-> LeafTime,
   purpose |-> CredentialPurpose(Role)]
SignerCall ==
  [chain |-> SignerMaterial(TokenFor(Reference.uri)), anchors |-> AnchorsFor(Role), now |-> job.anchors.now,
   leafTime |-> Absent, purpose |-> SignerPurpose]
ListCall ==
  [chain |-> <<job.list.signer>>, anchors |-> job.schemeAnchors, now |-> job.now, leafTime |-> Absent,
   purpose |-> SignerPurpose]

\* A root that may vouch for the document at hand, and a leaf it may vouch for.
IsRootOfDoc(r) ==
  /\ r \in Certs /\ \E i \in DOMAIN AnchorsFor(Role) : AnchorsFor(Role)[i] = r
  /\ IssuerChain[1] \in Certs
  /\ r = IssuerChain[1] \/ LeafHasPurpose(IssuerChain[1], CredentialPurpose(Role))
  /\ CertIsValidAt(IssuerChain[1], IF LeafTime = Absent THEN job.anchors.now ELSE LeafTime)

QueryIsMet ==
  job.request # Absent /\ job.request.query # Absent =>
    \/ \A i \in DOMAIN job.request.query.credentials : ~EntryIsKept(job.request.query.credentials[i])
    \/ \E i \in DOMAIN job.request.query.credentials :
         LET q == job.request.query.credentials[i] IN
         /\ EntryIsKept(q) /\ q.format = job.format
         /\ q.types \notin {Absent, {}} =>
              \A n \in DOMAIN Docs : (IF IsMdoc THEN Docs[n].docType ELSE Vct(Docs[n])) \in q.types

\* What is kept of a document that passed.
ClaimFor(d) ==
  IF IsMdoc THEN [cert |-> DocChain(d)[1], time |-> Signed(d), category |-> MdocCategory(d)]
  ELSE [cert |-> Chain(d)[1], time |-> IssuanceTime(d), category |-> Claim(d, "category")]
ClaimedInv ==
  /\ IsSequence(claimed)
  /\ \A n \in DOMAIN claimed : /\ n \in DOMAIN Docs /\ claimed[n] = ClaimFor(Docs[n])
                              /\ claimed[n].cert \in Certs /\ claimed[n].time \in Int \union {Absent}

VerdictType == verdict.valid \in BOOLEAN /\ verdict.qualified \in QualifiedStatuses \union {Absent}

\* Before the call, and while it is under way.
IdleInv == stage = "idle" => claimed = <<>> /\ shown = {} /\ verdict = NoVerdict
JobInv ==
  /\ stage # "idle" => IsJob(job)
  /\ stage \in {"document", "trust", "status", "list"} => BeforeDocuments(job) = "ok" /\ verdict = NoVerdict
DocInv ==
  /\ stage \in {"document", "trust", "status"} => doc \in 1..Len(Docs) /\ Len(claimed) = doc - 1
  /\ stage \in {"trust", "status"} => BeforeTrust = "ok" /\ AnchorsFor(Role) # Absent
TrustInv == stage = "trust" => call = IssuerCall
StatusInv == stage = "status" => /\ call = SignerCall /\ NeedsSignerSearch
                                /\ BeforeStatus = "ok" /\ IsRootOfDoc(root)
ListInv == stage = "list" => /\ Len(claimed) = Len(Docs) /\ call = ListCall /\ NeedsGate /\ ListIsSigned
                            /\ QueryIsMet
ValidInv == verdict.valid => /\ Len(claimed) = Len(Docs) /\ QueryIsMet
                             /\ verdict.bound = (job.request # Absent)

\* Every document that has passed meets its bar, and what is shown is what was read of them.
IsSound(d) == IF IsMdoc THEN MdocIsSound(d) ELSE SdJwtIsSound(d)
ReadOf(d) == IF IsMdoc THEN Elements(RawItems(d)) ELSE {}
PassedInv ==
  /\ \A n \in DOMAIN claimed : IsSound(Docs[n])
  /\ shown = UNION {ReadOf(Docs[n]) : n \in DOMAIN claimed}

VerifierInv ==
  /\ ChainInv /\ LeafInv
  /\ stage \in {"idle", "document", "trust", "status", "list", "done"}
  /\ doc \in Nat /\ status \in StatusOutcomes /\ VerdictType
  /\ IdleInv /\ JobInv /\ DocInv /\ TrustInv /\ StatusInv /\ ListInv /\ ValidInv
  /\ ClaimedInv /\ ShownIsSigned /\ QualifiedIsEarned

-----------------------------------------------------------------------------
(* What the arguments are *)

LEMMA TypedJob ==
  ASSUME IsJob(job)
  PROVE  /\ job.format \in Formats /\ job.role \in Roles /\ job.now \in Int /\ job.anchors.now \in Int
         /\ IsMdoc => IsMdocResponse(job.presentation)
         /\ ~IsMdoc => IsSdJwt(job.presentation) /\ job.format = "SdJwtVc"
         /\ job.statuses \in Seq(StatusOutcomes)
         /\ \A uri \in DOMAIN job.tokens : job.tokens[uri] # Absent /\ IsListToken(job.tokens[uri])
         /\ job.anchors.lists[<<job.role, job.format>>] \in {Absent} \union CertLists
         /\ job.schemeAnchors \in CertLists /\ IsTrustList(job.list)
  BY DEF IsJob, IsMdoc, Formats

\* A call that reaches its documents has some.
LEMMA TypedDocs ==
  ASSUME IsJob(job), BeforeDocuments(job) = "ok"
  PROVE  /\ IsSequence(Docs) /\ Len(Docs) \in Nat \ {0} /\ DOMAIN Docs = 1..Len(Docs)
         /\ IsMdoc => job.presentation # Garbage /\ job.presentation.documents # Absent
                      /\ Docs = job.presentation.documents
         /\ ~IsMdoc => Docs = <<job.presentation>> /\ Len(Docs) = 1
PROOF
  <1>1. CASE IsMdoc
    <2>1. ResponseVerdict(job.presentation) = "ok"
      BY <1>1 DEF BeforeDocuments, IsMdoc
    <2>2. job.presentation # Garbage /\ job.presentation.documents \notin {Absent, <<>>}
      BY <2>1 DEF ResponseVerdict
    <2>3. IsSequence(job.presentation.documents)
      BY <1>1, <2>2, TypedJob DEF IsMdocResponse
    <2> QED
      BY <1>1, <2>2, <2>3 DEF Docs, IsSequence
  <1>2. CASE ~IsMdoc
    BY <1>2 DEF Docs, IsSequence, Range
  <1> QED
    BY <1>1, <1>2

LEMMA RoleIsTheCallers ==
  ASSUME BeforeTrust = "ok", IsMdoc \/ Doc # Garbage
  PROVE  Role = job.role
PROOF
  <1>1. CASE IsMdoc
    <2>1. DocRole(Doc, job.role) # "mismatch"
      BY <1>1 DEF BeforeTrust, MdocBeforeTrust
    <2> QED
      BY <1>1, <2>1 DEF Role, DocRole, ReconcileRole
  <1>2. CASE ~IsMdoc
    <2>1. SdJwtRole(Doc, job.role) # "mismatch"
      BY <1>2 DEF BeforeTrust, SdJwtBeforeTrust
    <2> QED
      BY <1>2, <2>1 DEF Role, SdJwtRole, ReconcileRole
  <1> QED
    BY <1>1, <1>2

\* A document that may be held to the anchors has a chain.
LEMMA TypedChain ==
  ASSUME IsJob(job), BeforeDocuments(job) = "ok", doc \in 1..Len(Docs), BeforeTrust = "ok"
  PROVE  /\ IssuerChain \in CertLists /\ IssuerChain # <<>>
         /\ Role = job.role /\ AnchorsFor(Role) \in {Absent} \union CertLists
         /\ ~IsMdoc => IsSdJwt(Doc) /\ Doc # Garbage
PROOF
  <1>1. Doc \in Range(Docs)
    BY TypedDocs DEF Doc, Range
  <1>2. /\ IsMdoc => IsMdocResponse(job.presentation)
        /\ ~IsMdoc => IsSdJwt(job.presentation)
        /\ job.anchors.lists[<<job.role, job.format>>] \in {Absent} \union CertLists
    BY TypedJob
  <1>3. CASE IsMdoc
    <2>1. /\ Doc.docType # Absent /\ IsValue(Doc.issuerAuth)
          /\ DocChain(Doc) \notin {Absent, Garbage, <<>>}
      BY <1>3 DEF BeforeTrust, MdocBeforeTrust, Sign1Verdict, IsValue
    <2>2. DocChain(Doc) \in OrNone(CertLists)
      BY <1>1, <1>2, <1>3, <2>1, TypedDocs DEF IsMdocResponse, DocChain
    <2>3. Role = job.role
      BY <1>3, RoleIsTheCallers
    <2> QED
      BY <1>2, <1>3, <2>1, <2>2, <2>3 DEF IssuerChain, OrNone, AnchorsFor
  <1>4. CASE ~IsMdoc
    <2>1. Doc = job.presentation
      <3>1. Docs = <<job.presentation>> /\ Len(Docs) = 1
        BY <1>4, TypedDocs
      <3>2. doc = 1
        BY <3>1
      <3> QED
        BY <3>1, <3>2 DEF Doc
    <2>2. Doc # Garbage /\ IssuerSignatureVerdict(Doc) = "ok"
      BY <1>4 DEF BeforeTrust, SdJwtBeforeTrust
    <2>3. Chain(Doc) \notin {Absent, Garbage, <<>>}
      BY <2>2 DEF IssuerSignatureVerdict, Chain
    <2>4. Chain(Doc) \in OrNone(CertLists)
      BY <1>2, <1>4, <2>1, <2>2 DEF IsSdJwt, Chain
    <2>5. Role = job.role
      BY <1>4, <2>2, RoleIsTheCallers
    <2> QED
      BY <1>2, <1>4, <2>1, <2>2, <2>3, <2>4, <2>5 DEF IssuerChain, OrNone, AnchorsFor
  <1> QED
    BY <1>3, <1>4

\* A token that is read is one of those that came.
LEMMA TypedToken ==
  ASSUME IsJob(job), NEW uri, TokenHeaderOk(TokenFor(uri))
  PROVE  /\ uri \in DOMAIN job.tokens /\ TokenFor(uri) = job.tokens[uri]
         /\ TokenFor(uri) \notin {Absent, Garbage} /\ IsListToken(TokenFor(uri))
PROOF
  <1>1. TokenFor(uri) \notin {Absent, Garbage}
    BY DEF TokenHeaderOk, IsValue
  <1>2. uri \in DOMAIN job.tokens /\ TokenFor(uri) = job.tokens[uri]
    BY <1>1 DEF TokenFor
  <1> QED
    BY <1>1, <1>2, TypedJob

LEMMA TypedSigner ==
  ASSUME IsJob(job), NeedsSignerSearch
  PROVE  LET material == SignerMaterial(TokenFor(Reference.uri))
         IN  material \in CertLists /\ material # <<>> /\ material = TokenFor(Reference.uri).x5c
PROOF
  <1> DEFINE token == TokenFor(Reference.uri)
             material == SignerMaterial(token)
  <1>1. TokenHeaderOk(token) /\ material # Garbage /\ material # <<>>
    BY DEF NeedsSignerSearch, SignedByIssuer
  <1>2. token.x5c \in OrNone(CertLists)
    BY <1>1, TypedToken DEF IsListToken
  <1>3. material = token.x5c /\ token.x5c # Absent
    BY <1>1 DEF SignerMaterial
  <1> QED
    BY <1>1, <1>2, <1>3 DEF OrNone

-----------------------------------------------------------------------------
(* The searches *)

LEMMA AskedKeeps ==
  ASSUME ChainInv, NEW c, c.chain \in CertLists, c.anchors \in CertLists, VerifyChain(c)
  PROVE  (ChainInv /\ LeafInv)' /\ call' = c
PROOF
  <1>1. ChainInv' /\ call' = c
    BY AskedInv DEF CertLists, VerifyChain
  <1>2. CASE BeforeWalk(c) = "ok"
    <2>1. stack' = <<Frame(0, 0)>> /\ result' = NoResult
      BY <1>2 DEF VerifyChain
    <2>2. Len(stack') = 1 /\ stack'[Len(stack')].next = 0
      BY <2>1 DEF Frame
    <2>3. result'.verdict # "ok"
      BY <2>1 DEF NoResult
    <2> QED
      BY <1>1, <1>2, <2>1, <2>2, <2>3 DEF LeafInv, Top
  <1>3. CASE BeforeWalk(c) # "ok"
    <2>1. stack' = <<>> /\ result'.verdict # "ok"
      BY <1>3 DEF VerifyChain, Failure
    <2> QED
      BY <1>1, <2>1 DEF LeafInv
  <1> QED
    BY <1>2, <1>3

LEMMA WalkKeeps ==
  ASSUME ChainInv, LeafInv, Walk
  PROVE  (ChainInv /\ LeafInv)' /\ call' = call
PROOF
  <1>1. ChainInv'
    BY EnterInv, TryAnchorInv, AtCapInv, TryIntermediateInv, LeaveInv DEF Walk
  <1>2. stack # <<>> /\ call' = call
    BY DEF Walk, Enter, TryAnchor, AtCap, TryIntermediate, Leave, Exhausted
  <1>3. BeforeWalk(call') = "ok"
    BY <1>2 DEF LeafInv
  <1>4. Leaf' = Leaf /\ Anchors' = Anchors
    BY <1>2 DEF Leaf, Anchors
  <1>5. stack' = <<>> \/ result' = NoResult
    <2>1. stack' = <<>> \/ result' = result
      BY DEF Walk, Enter, TryAnchor, AtCap, TryIntermediate, Leave, Exhausted, Return, Reached
    <2> QED
      BY <1>2, <2>1 DEF LeafInv, NoResult
  <1>6. CASE IsPinned(Leaf)
    <2>1. Len(stack) = 1 /\ Top.next = 0
      BY <1>2, <1>6 DEF LeafInv
    <2>2. Len(Anchors) \in Nat /\ Current = Leaf
      <3>1. stack[1].at = 0
        BY <1>2 DEF ChainInv, IsLine
      <3> QED
        BY <1>2, <2>1, <3>1, AtTop DEF Current, CertAt, Top
    <2>3. Enter
      BY <2>1, <2>2 DEF Walk, TryAnchor, AtCap, TryIntermediate, Leave, NextInter
    <2>4. Reached(Leaf)
      BY <1>6, <2>2, <2>3 DEF Enter
    <2>5. stack' = <<>> /\ (result'.verdict = "ok" => result'.root = Leaf)
      BY <2>4 DEF Reached, Failure
    <2> QED
      BY <1>1, <1>2, <1>3, <1>4, <1>5, <2>5 DEF LeafInv
  <1>7. CASE ~IsPinned(Leaf)
    <2>1. ~IsPinned(Leaf)'
      BY <1>4, <1>7 DEF IsPinned
    <2> QED
      BY <1>1, <1>2, <1>3, <1>5, <2>1 DEF LeafInv
  <1> QED
    BY <1>6, <1>7

LEMMA SearchUnchanged ==
  ASSUME ChainInv, LeafInv, UNCHANGED chainVars
  PROVE  (ChainInv /\ LeafInv)'
PROOF
  <1>1. ChainInv'
    BY ChainInvKept DEF ChainStep
  <1> QED
    BY <1>1 DEF LeafInv, chainVars, Leaf, IsPinned, Anchors, Top

\* What an accepted search says of the root and of the leaf.
LEMMA RootFound ==
  ASSUME ChainInv, LeafInv, result.verdict = "ok", call.chain # <<>>
  PROVE  /\ result.root \in Certs /\ (\E i \in DOMAIN call.anchors : call.anchors[i] = result.root)
         /\ call.chain[1] \in Certs
         /\ result.root = call.chain[1] \/ LeafHasPurpose(call.chain[1], call.purpose)
         /\ CertIsValidAt(call.chain[1], IF call.leafTime = Absent THEN call.now ELSE call.leafTime)
PROOF
  <1>1. result.root \in Certs
    BY DEF ChainInv, ResultInv
  <1>2. \E i \in DOMAIN call.anchors : call.anchors[i] = result.root
    BY DEF ChainInv, PathIsLinked, IsPinned, Anchors
  <1>3. BeforeWalk(call) = "ok"
    BY DEF LeafInv
  <1>4. /\ \A i \in DOMAIN call.chain : call.chain[i] # Garbage
        /\ CertIsValidAt(call.chain[1], IF call.leafTime = Absent THEN call.now ELSE call.leafTime)
        /\ (\E i \in DOMAIN call.anchors : call.anchors[i] = call.chain[1]) \/ LeafHasPurpose(call.chain[1], call.purpose)
    BY <1>3 DEF BeforeWalk
  <1>6. call.chain[1] \in Certs
    <2>1. call.chain \in Seq(Certs \union {Garbage})
      BY DEF ChainInv, CallType
    <2>2. 1 \in DOMAIN call.chain /\ call.chain[1] \in Certs \union {Garbage}
      BY <2>1
    <2> QED
      BY <1>4, <2>2
  <1>7. IsPinned(call.chain[1]) => result.root = call.chain[1]
    BY DEF LeafInv, Leaf
  <1> QED
    BY <1>1, <1>2, <1>4, <1>6, <1>7 DEF IsPinned, Anchors

-----------------------------------------------------------------------------
(* What hangs on the arguments alone, and on the document *)

LEMMA SameJob ==
  ASSUME job' = job
  PROVE  /\ IsMdoc' = IsMdoc /\ Docs' = Docs /\ QueryIsMet' = QueryIsMet /\ ListCall' = ListCall
         /\ NeedsGate' = NeedsGate /\ ListIsSigned' = ListIsSigned
         /\ BeforeDocuments(job)' = BeforeDocuments(job)
  BY DEF IsMdoc, Docs, QueryIsMet, ListCall, NeedsGate, ListIsSigned, BeforeDocuments

LEMMA SameDoc ==
  ASSUME job' = job, doc' = doc
  PROVE  /\ Doc' = Doc /\ IssuerChain' = IssuerChain /\ Role' = Role /\ LeafTime' = LeafTime
         /\ BeforeTrust' = BeforeTrust /\ BeforeStatus' = BeforeStatus /\ Reference' = Reference
         /\ \A role : AnchorsFor(role)' = AnchorsFor(role)
         /\ NeedsSignerSearch' = NeedsSignerSearch /\ IssuerCall' = IssuerCall /\ SignerCall' = SignerCall
         /\ \A r : IsRootOfDoc(r)' = IsRootOfDoc(r)
PROOF
  <1>1. IsMdoc' = IsMdoc /\ Doc' = Doc
    BY SameJob DEF Doc
  <1>2. /\ IssuerChain' = IssuerChain /\ Role' = Role /\ LeafTime' = LeafTime
        /\ BeforeTrust' = BeforeTrust /\ BeforeStatus' = BeforeStatus /\ Reference' = Reference
        /\ \A role : AnchorsFor(role)' = AnchorsFor(role) /\ CredentialPurpose(role)' = CredentialPurpose(role)
        /\ \A uri : TokenFor(uri)' = TokenFor(uri)
    BY <1>1 DEF IssuerChain, Role, LeafTime, BeforeTrust, BeforeStatus, Reference, AnchorsFor, TokenFor, CredentialPurpose
  <1>3. NeedsSignerSearch' = NeedsSignerSearch
    BY <1>2 DEF NeedsSignerSearch, SignedByIssuer
  <1>4. IssuerCall' = IssuerCall /\ SignerCall' = SignerCall
    BY <1>2 DEF IssuerCall, SignerCall
  <1>5. \A r : IsRootOfDoc(r)' = IsRootOfDoc(r)
    BY <1>2 DEF IsRootOfDoc
  <1> QED
    BY <1>1, <1>2, <1>3, <1>4, <1>5

\* The documents that passed are those that had.
LEMMA ClaimedKept ==
  ASSUME ClaimedInv, ShownIsSigned, UNCHANGED <<job, claimed, shown>>
  PROVE  (ClaimedInv /\ ShownIsSigned)'
PROOF
  <1>1. IsMdoc' = IsMdoc /\ Docs' = Docs /\ claimed' = claimed /\ shown' = shown
    BY SameJob
  <1>2. ClaimedInv'
    BY <1>1 DEF ClaimedInv, ClaimFor
  <1>3. ShownIsSigned'
    BY <1>1 DEF ShownIsSigned
  <1> QED
    BY <1>2, <1>3

LEMMA NotQualified ==
  ASSUME verdict.qualified # "Qualified"
  PROVE  QualifiedIsEarned
  BY DEF QualifiedIsEarned

\* An answer that is no.
LEMMA RefuseKeeps ==
  ASSUME VerifierInv, stage \in {"document", "trust", "status"}, NEW reason, Refuse(reason)
  PROVE  VerifierInv'
PROOF
  <1>1. /\ stage' = "done" /\ UNCHANGED <<chainVars, job, doc, status, claimed, shown>>
        /\ verdict' = Invalid(Reported(reason))
    BY DEF Refuse
  <1>2. ~verdict'.valid /\ verdict'.valid \in BOOLEAN /\ verdict'.qualified = Absent
    BY <1>1 DEF Invalid
  <1>3. (ChainInv /\ LeafInv)'
    BY <1>1, SearchUnchanged DEF VerifierInv
  <1>4. (ClaimedInv /\ ShownIsSigned)'
    BY <1>1, ClaimedKept DEF VerifierInv
  <1>5. QualifiedIsEarned'
    <2>1. ~verdict'.valid /\ (verdict'.qualified = "Qualified" => FALSE)
      BY <1>2, AbsentAssumption DEF QualifiedStatuses
    <2> QED
      BY <2>1 DEF QualifiedIsEarned
  <1>6. IsJob(job)
    BY DEF VerifierInv, JobInv
  <1>7. (IdleInv /\ JobInv /\ DocInv /\ TrustInv /\ StatusInv /\ ListInv /\ ValidInv /\ VerdictType)'
    BY <1>1, <1>2, <1>6 DEF IdleInv, JobInv, DocInv, TrustInv, StatusInv, ListInv, ValidInv, VerdictType
  <1>8. (doc \in Nat /\ status \in StatusOutcomes)'
    BY <1>1 DEF VerifierInv
  <1> QED
    BY <1>1, <1>3, <1>4, <1>5, <1>7, <1>8 DEF VerifierInv

-----------------------------------------------------------------------------
(* A document passes *)

LEMMA ParsedIsCounted ==
  ASSUME NEW d, HasYear(d), ParseRfc3339(d) # Garbage
  PROVE  ParseRfc3339(d) \in Int /\ ParseRfc3339(d) = Counted(d)
PROOF
  <1>1. IsValue(d) /\ IsCivil(d)
    BY DEF ParseRfc3339
  <1>2. /\ d.year \in Int /\ d.month \in 1..12 /\ d.hour \in Int /\ d.minute \in Int /\ d.second \in Int
        /\ d.day \in 1..DaysInMonth(d.year, d.month)
    BY <1>1 DEF HasYear, IsCivil
  <1>3. d.day \in Int
    <2>1. DaysInMonth(d.year, d.month) \in Int
      BY <1>2 DEF DaysInMonth
    <2> QED
      BY <1>2, <2>1
  <1>4. DaysFromCivil(d.year, d.month, d.day) = CountedDays(d.year, d.month, d.day)
    BY <1>2, <1>3, CivilDaysAreCounted
  <1> QED
    <2> DEFINE days == DaysFromCivil(d.year, d.month, d.day)
    <2>1. days \in Int
      <3> DEFINE y == IF d.month <= 2 THEN d.year - 1 ELSE d.year
                 m == IF d.month > 2 THEN d.month - 3 ELSE d.month + 9
      <3>1. y \in Int /\ m \in Int
        BY <1>2
      <3>2. days = MarchDays(y, m, d.day)
        BY <1>2, <1>3, <3>1, CivilByMonth
      <3> HIDE DEF y, m, days
      <3> QED
        BY <1>3, <3>1, <3>2, SMT DEF MarchDays
    <2>2. CountedDays(d.year, d.month, d.day) = days
      BY <1>4
    <2> HIDE DEF days
    <2>3. ParseRfc3339(d) = days * 86400 + d.hour * 3600 + d.minute * 60 + d.second
      BY <1>1, SMT DEF ParseRfc3339, days
    <2>4. Counted(d) = days * 86400 + d.hour * 3600 + d.minute * 60 + d.second
      BY <2>2, SMT DEF Counted
    <2> QED
      BY <1>2, <2>1, <2>3, <2>4, SMT

LEMMA DateIsNumber ==
  ASSUME NEW claim \in OrNone(Int), NEW rounding
  PROVE  /\ NumericDate(claim, rounding) \in OrNone(Int)
         /\ IsValue(NumericDate(claim, rounding)) => /\ claim \in Int
                                                    /\ NumericDate(claim, rounding) = RoundSeconds(claim, rounding)
PROOF
  <1>1. CASE claim \in Int
    <2>1. RoundSeconds(claim, rounding) \in Int
      BY <1>1 DEF RoundSeconds
    <2> QED
      BY <1>1, <2>1 DEF NumericDate, RoundNumericDate, OrNone, IsValue
  <1>2. CASE claim \in {Absent, Garbage}
    BY <1>2 DEF NumericDate, OrNone, IsValue
  <1> QED
    BY <1>1, <1>2 DEF OrNone

LEMMA TypedClaim ==
  ASSUME IsJob(job), BeforeDocuments(job) = "ok", doc \in 1..Len(Docs), BeforeTrust = "ok"
  PROVE  /\ ClaimFor(Doc) = ClaimedIssuer /\ ClaimedIssuer.cert = IssuerChain[1]
         /\ ClaimedIssuer.time \in Int \union {Absent}
         /\ IsMdoc => LET info == Mso(Doc).validityInfo IN
              /\ info # Absent /\ HasYear(info.signed) /\ HasYear(info.from) /\ HasYear(info.until)
              /\ ParseRfc3339(info.signed) # Garbage /\ ParseRfc3339(info.from) # Garbage
              /\ ParseRfc3339(info.until) # Garbage
PROOF
  <1>1. CASE IsMdoc
    <2> DEFINE info == Mso(Doc).validityInfo
    <2>1. /\ IsValue(Doc.issuerAuth) /\ Mso(Doc) # Garbage /\ ValidityInfoVerdict(Doc, job.now) = "ok"
      BY <1>1 DEF BeforeTrust, MdocBeforeTrust, Sign1Verdict, IsValue
    <2>2. /\ info # Absent /\ ParseRfc3339(info.signed) # Garbage /\ ParseRfc3339(info.from) # Garbage
          /\ ParseRfc3339(info.until) # Garbage
      BY <2>1 DEF ValidityInfoVerdict
    <2>3. Doc \in Range(Docs) /\ IsMdocResponse(job.presentation)
      BY <1>1, TypedDocs, TypedJob DEF Doc, Range
    <2>4. HasYear(info.signed) /\ HasYear(info.from) /\ HasYear(info.until)
      BY <1>1, <2>1, <2>2, <2>3, TypedDocs DEF IsMdocResponse
    <2>5. Signed(Doc) \in Int
      BY <2>2, <2>4, ParsedIsCounted DEF Signed
    <2> QED
      BY <1>1, <2>2, <2>4, <2>5 DEF ClaimFor, ClaimedIssuer, IssuerChain
  <1>2. CASE ~IsMdoc
    <2>1. IsSdJwt(Doc) /\ Doc # Garbage
      BY <1>2, TypedChain
    <2>2. Claim(Doc, "iat") \in OrNone(Int) /\ Claim(Doc, "nbf") \in OrNone(Int)
      BY <2>1 DEF IsSdJwt
    <2>3. IssuanceTime(Doc) \in Int \union {Absent}
      BY <2>2, DateIsNumber DEF IssuanceTime, OrNone, IsValue
    <2> QED
      BY <1>2, <2>3 DEF ClaimFor, ClaimedIssuer, IssuerChain
  <1> QED
    BY <1>1, <1>2

LEMMA OneMore ==
  ASSUME NEW s, IsSequence(s), NEW x
  PROVE  /\ IsSequence(Append(s, x)) /\ Len(Append(s, x)) = Len(s) + 1 /\ Len(s) \in Nat
         /\ DOMAIN Append(s, x) = DOMAIN s \union {Len(s) + 1} /\ DOMAIN s = 1..Len(s)
         /\ Append(s, x)[Len(s) + 1] = x /\ \A i \in DOMAIN s : Append(s, x)[i] = s[i]
PROOF
  <1> DEFINE S == Range(s) \union {x}
             t == Append(s, x)
  <1>1. s \in Seq(S) /\ x \in S
    <2>1. s \in Seq(Range(s))
      BY DEF IsSequence
    <2> QED
      BY <2>1
  <1>2. /\ t \in Seq(S) /\ Len(t) = Len(s) + 1 /\ Len(s) \in Nat /\ DOMAIN t = 1..(Len(s) + 1)
        /\ DOMAIN s = 1..Len(s) /\ t[Len(s) + 1] = x /\ \A i \in DOMAIN s : t[i] = s[i]
    BY <1>1
  <1>3. t \in Seq(Range(t))
    <2>1. \A i \in 1..Len(t) : t[i] \in Range(t)
      BY <1>2 DEF Range
    <2> QED
      BY <1>2, <2>1
  <1> QED
    BY <1>2, <1>3 DEF IsSequence

\* What is scanned of a document are its own items, signed if the digests were checked.
\* The items read of a namespace stand in its entries.
LEMMA ReadItems ==
  ASSUME NEW d, d.nameSpaces # Garbage, NEW ns \in DOMAIN RawItems(d)
  PROVE  /\ \A at : at \in DOMAIN RawItems(d)[ns] <=>
                 \E k \in DOMAIN d.nameSpaces : \E j \in DOMAIN d.nameSpaces[k].items :
                   at = <<k, j>> /\ d.nameSpaces[k].ns = ns /\ IsRead(d.nameSpaces[k].items[j])
         /\ \A at \in DOMAIN RawItems(d)[ns] : RawItems(d)[ns][at] = d.nameSpaces[at[1]].items[at[2]]
PROOF
  <1> DEFINE entries == d.nameSpaces
             Of == UNION {{<<i, j>> : j \in DOMAIN entries[i].items} : i \in {k \in DOMAIN entries : entries[k].ns = ns}}
             Read == {at \in Of : IsRead(entries[at[1]].items[at[2]])}
  <1>1. RawItems(d)[ns] = [at \in Read |-> entries[at[1]].items[at[2]]]
    BY DEF RawItems
  <1>2. DOMAIN RawItems(d)[ns] = Read
    BY <1>1
  <1>3. \A at : at \in Of <=>
          \E k \in DOMAIN entries : \E j \in DOMAIN entries[k].items : at = <<k, j>> /\ entries[k].ns = ns
    OBVIOUS
  <1> HIDE DEF Of
  <1>4. \A at : at \in Read <=>
          \E k \in DOMAIN entries : \E j \in DOMAIN entries[k].items :
            at = <<k, j>> /\ entries[k].ns = ns /\ IsRead(entries[k].items[j])
    BY <1>3
  <1> QED
    BY <1>1, <1>2, <1>4

LEMMA ElementsAreSigned ==
  ASSUME NEW d, ValueDigestsVerdict(d, RawItems(d)) = "ok", NEW e \in Elements(RawItems(d))
  PROVE  \E i \in DOMAIN d.nameSpaces : \E j \in DOMAIN d.nameSpaces[i].items :
           LET item == d.nameSpaces[i].items[j]
               ns   == d.nameSpaces[i].ns
           IN  /\ <<e.ns, e.id, e.value>> = <<ns, item.identifier, item.value>>
               /\ IsDigested(ns, item, Mso(d))
PROOF
  <1> DEFINE raw == RawItems(d)
  <1>1. d.nameSpaces # Garbage
    BY DEF ValueDigestsVerdict
  <1>2. \A i \in DOMAIN d.nameSpaces :
          LET ns == d.nameSpaces[i].ns IN \A at \in DOMAIN raw[ns] : ItemIsSigned(ns, raw[ns][at], Mso(d))
    BY DEF ValueDigestsVerdict
  <1>3. PICK ns \in DOMAIN raw : \E at \in DOMAIN raw[ns] :
          e = [ns |-> ns, id |-> raw[ns][at].identifier, value |-> raw[ns][at].value]
    BY DEF Elements
  <1> PICK at \in DOMAIN raw[ns] :
          e = [ns |-> ns, id |-> raw[ns][at].identifier, value |-> raw[ns][at].value]
    BY <1>3
  <1>4. /\ at[1] \in DOMAIN d.nameSpaces /\ at[2] \in DOMAIN d.nameSpaces[at[1]].items
        /\ d.nameSpaces[at[1]].ns = ns /\ raw[ns][at] = d.nameSpaces[at[1]].items[at[2]]
    BY <1>1, <1>3, ReadItems
  <1>5. ItemIsSigned(ns, raw[ns][at], Mso(d))
    BY <1>2, <1>3, <1>4
  <1> QED
    BY <1>3, <1>4, <1>5 DEF IsDigested, ItemIsSigned, Digest

LEMMA PassKeeps ==
  ASSUME VerifierInv, stage \in {"trust", "status"}, AfterStatus = "ok", IssuerChain[1] \in Certs,
         job' = job, claimed' = Append(claimed, ClaimedIssuer), shown' = shown \union DocElements
  PROVE  (ClaimedInv /\ ShownIsSigned)' /\ Len(claimed') = doc
PROOF
  <1>1. /\ IsJob(job) /\ BeforeDocuments(job) = "ok" /\ doc \in 1..Len(Docs) /\ Len(claimed) = doc - 1
        /\ BeforeTrust = "ok" /\ ClaimedInv /\ ShownIsSigned
    BY DEF VerifierInv, JobInv, DocInv
  <1>2. /\ IsSequence(claimed') /\ Len(claimed') = Len(claimed) + 1 /\ Len(claimed) \in Nat
        /\ DOMAIN claimed' = DOMAIN claimed \union {doc} /\ claimed'[doc] = ClaimedIssuer
        /\ \A n \in DOMAIN claimed : claimed'[n] = claimed[n]
    BY <1>1, OneMore DEF ClaimedInv
  <1>3. DOMAIN Docs = 1..Len(Docs) /\ doc \in DOMAIN Docs /\ Doc = Docs[doc]
    BY <1>1, TypedDocs DEF Doc
  <1>4. ClaimedIssuer = ClaimFor(Docs[doc]) /\ ClaimedIssuer.cert \in Certs /\ ClaimedIssuer.time \in Int \union {Absent}
    BY <1>1, <1>3, TypedClaim
  <1>5. IsMdoc' = IsMdoc /\ Docs' = Docs
    BY SameJob
  <1>6. ClaimedInv'
    <2>1. ASSUME NEW n \in DOMAIN claimed'
          PROVE  /\ n \in DOMAIN Docs /\ claimed'[n] = ClaimFor(Docs[n])
                 /\ claimed'[n].cert \in Certs /\ claimed'[n].time \in Int \union {Absent}
      <3>1. CASE n \in DOMAIN claimed
        BY <1>1, <1>2, <3>1 DEF ClaimedInv
      <3>2. CASE n = doc
        BY <1>2, <1>3, <1>4, <3>2
      <3> QED
        BY <1>2, <3>1, <3>2
    <2> QED
      BY <1>2, <1>5, <2>1 DEF ClaimedInv, ClaimFor
  <1>7. ASSUME NEW e \in DocElements
        PROVE  \E i \in DOMAIN Docs[doc].nameSpaces : \E j \in DOMAIN Docs[doc].nameSpaces[i].items :
                 LET item == Docs[doc].nameSpaces[i].items[j]
                     ns   == Docs[doc].nameSpaces[i].ns
                 IN  /\ <<e.ns, e.id, e.value>> = <<ns, item.identifier, item.value>>
                     /\ IsDigested(ns, item, Mso(Docs[doc]))
    <2>1. IsMdoc /\ e \in Elements(ScanRawIssuerItems(Docs)[doc])
      BY <1>7 DEF DocElements
    <2>2. ScanRawIssuerItems(Docs)[doc] = RawItems(Docs[doc]) /\ doc \in DOMAIN ScanRawIssuerItems(Docs)
      BY <1>3 DEF ScanRawIssuerItems
    <2>3. MdocAfterStatus(Doc, RawItems(Docs[doc]), Transcript) = "ok"
      BY <2>1, <2>2 DEF AfterStatus
    <2>4. ValueDigestsVerdict(Docs[doc], RawItems(Docs[doc])) = "ok"
      BY <1>3, <2>3 DEF MdocAfterStatus
    <2> QED
      BY <2>1, <2>2, <2>4, ElementsAreSigned
  <1>8. ShownIsSigned'
    BY <1>1, <1>2, <1>5, <1>7 DEF ShownIsSigned
  <1> QED
    BY <1>1, <1>2, <1>6, <1>8

LEMMA KeptEntries ==
  ASSUME NEW raw, ParseQuery(raw) # Garbage
  PROVE  /\ raw # Garbage
         /\ Entries(ParseQuery(raw)) = {ParseEntry(raw.credentials[i]) :
              i \in {k \in DOMAIN raw.credentials : EntryIsKept(raw.credentials[k])}}
  BY DEF ParseQuery, Entries

\* A query that is not refused is met.
LEMMA GateMeetsQuery ==
  ASSUME job.request = Absent \/ EvaluateSingle(job.request.query, job.format, Types, Presented(shown \union DocElements)) # "NotSatisfied",
         DOMAIN Docs # {}, ~IsMdoc => Docs = <<job.presentation>>
  PROVE  QueryIsMet
PROOF
  <1> DEFINE query == job.request.query
             sent == query.credentials
             kept == {i \in DOMAIN sent : EntryIsKept(sent[i])}
             elements == Presented(shown \union DocElements)
  <1> SUFFICES ASSUME job.request # Absent, query # Absent, kept # {}
               PROVE  \E i \in kept : /\ sent[i].format = job.format
                                      /\ sent[i].types \notin {Absent, {}} =>
                                           \A n \in DOMAIN Docs :
                                             (IF IsMdoc THEN Docs[n].docType ELSE Vct(Docs[n])) \in sent[i].types
    BY DEF QueryIsMet
  <1>1. ParseQuery(query) # Garbage
    BY DEF EvaluateSingle
  <1>2. Entries(ParseQuery(query)) = {ParseEntry(sent[i]) : i \in kept}
    BY <1>1, KeptEntries
  <1>3. PICK i \in kept : QuerySatisfiedBy(ParseEntry(sent[i]), job.format, Types, elements)
    BY <1>1, <1>2 DEF EvaluateSingle
  <1>4. FormatAndMetaMatch(ParseEntry(sent[i]), job.format, Types)
    BY <1>3 DEF QuerySatisfiedBy
  <1>5. /\ sent[i].format = job.format
        /\ sent[i].types \notin {Absent, {}} => Types \subseteq sent[i].types
    BY <1>4 DEF FormatAndMetaMatch, ParseEntry
  <1>6. ASSUME NEW n \in DOMAIN Docs
        PROVE  (IF IsMdoc THEN Docs[n].docType ELSE Vct(Docs[n])) \in Types
    <2>1. ~IsMdoc => Docs[n] = job.presentation
      OBVIOUS
    <2> QED
      BY <2>1 DEF Types
  <1> QED
    BY <1>5, <1>6

LEMMA TypedListCall ==
  ASSUME IsJob(job), ListIsSigned
  PROVE  ListCall.chain \in CertLists /\ ListCall.anchors \in CertLists /\ ListCall.chain # <<>>
PROOF
  <1>1. job.list # Absent /\ job.list.signer # Absent /\ job.list.signer \in OrNone(Certs)
    BY TypedJob DEF ListIsSigned, IsTrustList
  <1>2. job.list.signer \in Certs \union {Garbage}
    BY <1>1 DEF OrNone
  <1> QED
    BY <1>2, TypedJob DEF ListCall, CertLists

\* An answer without a qualified status.
LEMMA NoneIsEarned ==
  ASSUME verdict'.qualified \in {Absent, "Indeterminate"}
  PROVE  QualifiedIsEarned'
PROOF
  <1>1. verdict'.qualified # "Qualified"
    BY AbsentAssumption DEF QualifiedStatuses
  <1> QED
    BY <1>1 DEF QualifiedIsEarned

LEMMA ConcludeKeeps ==
  ASSUME VerifierInv, stage \in {"trust", "status"}, NEW outcome \in StatusOutcomes, Conclude(outcome),
         IssuerChain[1] \in Certs
  PROVE  VerifierInv'
PROOF
  <1>1. /\ IsJob(job) /\ BeforeDocuments(job) = "ok" /\ doc \in 1..Len(Docs) /\ Len(claimed) = doc - 1
        /\ verdict = NoVerdict /\ ChainInv /\ LeafInv /\ ClaimedInv
    BY DEF VerifierInv, JobInv, DocInv
  <1>2. Len(Docs) \in Nat \ {0} /\ DOMAIN Docs # {} /\ doc \in Nat /\ (~IsMdoc => Docs = <<job.presentation>>)
    BY <1>1, TypedDocs
  <1>3. CASE \E reason : Refuse(reason)
    BY <1>3, RefuseKeeps
  <1>4. CASE ~\E reason : Refuse(reason)
    <2>1. /\ AfterStatus = "ok" /\ status' = outcome /\ claimed' = Append(claimed, ClaimedIssuer)
          /\ shown' = shown \union DocElements /\ job' = job
          /\ \/ doc = Len(Docs) /\ Complete(shown \union DocElements)
             \/ doc < Len(Docs) /\ stage' = "document" /\ doc' = doc + 1 /\ UNCHANGED <<chainVars, verdict>>
      BY <1>4 DEF Conclude
    <2>2. (ClaimedInv /\ ShownIsSigned)' /\ Len(claimed') = doc
      BY <2>1, PassKeeps
    <2>3. /\ Docs' = Docs /\ QueryIsMet' = QueryIsMet /\ ListCall' = ListCall /\ NeedsGate' = NeedsGate
          /\ ListIsSigned' = ListIsSigned /\ BeforeDocuments(job)' = BeforeDocuments(job)
      BY <2>1, SameJob
    <2>4. CASE doc < Len(Docs) /\ stage' = "document" /\ doc' = doc + 1 /\ UNCHANGED <<chainVars, verdict>>
      <3>1. (ChainInv /\ LeafInv)'
        BY <1>1, <2>4, SearchUnchanged
      <3>2. verdict' = NoVerdict /\ verdict'.qualified = Absent /\ verdict'.valid = FALSE
        BY <1>1, <2>4 DEF NoVerdict
      <3>3. QualifiedIsEarned'
        BY <3>2, NoneIsEarned
      <3>4. doc' \in 1..Len(Docs) /\ doc' - 1 = doc /\ doc' \in Nat
        BY <1>1, <1>2, <2>4
      <3>5. (IdleInv /\ JobInv /\ DocInv /\ TrustInv /\ StatusInv /\ ListInv /\ ValidInv /\ VerdictType)'
        BY <1>1, <2>1, <2>2, <2>3, <2>4, <3>2, <3>4
           DEF IdleInv, JobInv, DocInv, TrustInv, StatusInv, ListInv, ValidInv, VerdictType
      <3> QED
        BY <2>1, <2>2, <2>4, <3>1, <3>3, <3>4, <3>5 DEF VerifierInv
    <2>5. CASE doc = Len(Docs) /\ Complete(shown \union DocElements)
      <3> DEFINE gate == IF job.request = Absent THEN "Inactive"
                         ELSE EvaluateSingle(job.request.query, job.format, Types, Presented(shown \union DocElements))
      <3>1. doc' = doc
        BY <2>5 DEF Complete
      <3>2. CASE gate = "NotSatisfied"
        <4>1. stage' = "done" /\ verdict' = Invalid("QueryNotSatisfied") /\ UNCHANGED chainVars
          BY <2>5, <3>2 DEF Complete
        <4>2. verdict'.valid = FALSE /\ verdict'.qualified = Absent
          BY <4>1 DEF Invalid
        <4>3. (ChainInv /\ LeafInv)'
          BY <1>1, <4>1, SearchUnchanged
        <4>4. QualifiedIsEarned'
          BY <4>2, NoneIsEarned
        <4>5. (IdleInv /\ JobInv /\ DocInv /\ TrustInv /\ StatusInv /\ ListInv /\ ValidInv /\ VerdictType)'
          BY <1>1, <2>1, <4>1, <4>2
             DEF IdleInv, JobInv, DocInv, TrustInv, StatusInv, ListInv, ValidInv, VerdictType
        <4> QED
          BY <1>2, <2>1, <2>2, <3>1, <4>1, <4>3, <4>4, <4>5 DEF VerifierInv
      <3>3. CASE gate # "NotSatisfied" /\ NeedsGate /\ ListIsSigned
        <4>1. stage' = "list" /\ verdict' = verdict /\ VerifyChain(ListCall)
          BY <2>5, <3>3 DEF Complete, ListCall
        <4>2. QueryIsMet
          BY <1>2, <3>3, GateMeetsQuery
        <4>3. (ChainInv /\ LeafInv)' /\ call' = ListCall
          BY <1>1, <3>3, <4>1, TypedListCall, AskedKeeps
        <4>4. verdict' = NoVerdict /\ verdict'.qualified = Absent /\ verdict'.valid = FALSE
          BY <1>1, <4>1 DEF NoVerdict
        <4>5. QualifiedIsEarned'
          BY <4>4, NoneIsEarned
        <4>6. ListInv'
          BY <2>2, <2>3, <2>5, <3>3, <4>2, <4>3 DEF ListInv
        <4>7. (IdleInv /\ JobInv /\ DocInv /\ TrustInv /\ StatusInv /\ ValidInv /\ VerdictType)'
          BY <1>1, <2>1, <2>3, <4>1, <4>4
             DEF IdleInv, JobInv, DocInv, TrustInv, StatusInv, ValidInv, VerdictType
        <4> QED
          BY <1>2, <2>1, <2>2, <3>1, <4>1, <4>3, <4>5, <4>6, <4>7 DEF VerifierInv
      <3>4. CASE gate # "NotSatisfied" /\ ~(NeedsGate /\ ListIsSigned)
        <4>1. stage' = "done" /\ UNCHANGED chainVars
              /\ verdict' = Valid(IF NeedsGate THEN "Indeterminate" ELSE Absent)
          BY <2>5, <3>4 DEF Complete
        <4>2. QueryIsMet
          BY <1>2, <3>4, GateMeetsQuery
        <4>3. /\ verdict'.valid = TRUE /\ verdict'.qualified \in {Absent, "Indeterminate"}
              /\ verdict'.bound = (job.request # Absent)
          BY <4>1 DEF Valid
        <4>4. (ChainInv /\ LeafInv)'
          BY <1>1, <4>1, SearchUnchanged
        <4>5. QualifiedIsEarned'
          BY <4>3, NoneIsEarned
        <4>6. ValidInv'
          BY <2>1, <2>2, <2>3, <2>5, <4>2, <4>3 DEF ValidInv
        <4>7. (IdleInv /\ JobInv /\ DocInv /\ TrustInv /\ StatusInv /\ ListInv /\ VerdictType)'
          BY <1>1, <2>1, <4>1, <4>3
             DEF IdleInv, JobInv, DocInv, TrustInv, StatusInv, ListInv, VerdictType, QualifiedStatuses
        <4> QED
          BY <1>2, <2>1, <2>2, <3>1, <4>1, <4>4, <4>5, <4>6, <4>7 DEF VerifierInv
      <3> QED
        BY <3>2, <3>3, <3>4
    <2> QED
      BY <2>1, <2>4, <2>5
  <1> QED
    BY <1>3, <1>4

-----------------------------------------------------------------------------
(* The status *)

LEMMA TypedOutcome ==
  ASSUME NEW token, NEW key, NEW reference, NEW now
  PROVE  TokenOutcome(token, key, reference, now) \in StatusOutcomes
PROOF
  <1>1. \A value : StatusValueToOutcome(value) \in StatusOutcomes
    BY DEF StatusValueToOutcome, StatusOutcomes
  <1>2. EvaluateStatusClaims(token, reference, now) \in StatusOutcomes
    BY <1>1 DEF EvaluateStatusClaims, StatusOutcomes
  <1> QED
    BY <1>2 DEF TokenOutcome, StatusOutcomes

LEMMA TypedStatus ==
  ASSUME IsJob(job)
  PROVE  Positional \in StatusOutcomes /\ ResolvedStatus \in StatusOutcomes
PROOF
  <1>1. Positional \in StatusOutcomes
    <2>1. job.statuses \in Seq(StatusOutcomes)
      BY TypedJob
    <2> QED
      BY <2>1 DEF Positional, PositionalStatus, StatusOutcomes
  <1>2. ResolvedStatus \in StatusOutcomes
    <2> DEFINE token == TokenFor(Reference.uri)
               outcome == TokenOutcome(token, P256Key(IssuerChain[1]), Reference, job.now)
    <2>1. Reference.kind \in {"none", "list", "malformed"}
      BY DEF Reference, StatusReference, NoReference
    <2>2. outcome \in StatusOutcomes /\ WithoutToken(Positional) \in StatusOutcomes /\ "Untrusted" \in StatusOutcomes
      BY <1>1, TypedOutcome DEF WithoutToken, StatusOutcomes
    <2> HIDE DEF outcome
    <2>3. ResolvedStatus \in {"Untrusted", Positional, WithoutToken(Positional), outcome}
      BY <2>1 DEF ResolvedStatus, outcome
    <2> QED
      BY <1>1, <2>2, <2>3
  <1> QED
    BY <1>1, <1>2

-----------------------------------------------------------------------------
(* The qualified gate *)

\* The status in force is that of an entry none begins after.
LEMMA LastBegun ==
  ASSUME NEW service, IsSequence(service.history), NEW time \in Int,
         \A h \in Range(service.history) : HasYear(h.start),
         \A i \in DOMAIN service.history : ParseRfc3339(service.history[i].start) # Garbage,
         EffectiveStatusAt(service, time) = "granted"
  PROVE  LET begun == {i \in DOMAIN service.history : Counted(service.history[i].start) <= time}
         IN  \E i \in begun : /\ service.history[i].status = "granted"
                              /\ \A j \in begun : Counted(service.history[j].start) <= Counted(service.history[i].start)
PROOF
  <1> DEFINE h == service.history
             Start1(i) == ParseRfc3339(h[i].start)
             begun == {i \in DOMAIN h : Start1(i) <= time}
             IsLast(i) == \A j \in begun : Start1(j) < Start1(i) \/ (Start1(j) = Start1(i) /\ j <= i)
  <1>1. DOMAIN h = 1..Len(h) /\ Len(h) \in Nat
    BY DEF IsSequence
  <1>2. \A i \in DOMAIN h : Start1(i) \in Int /\ Start1(i) = Counted(h[i].start)
    <2> SUFFICES ASSUME NEW i \in DOMAIN h PROVE Start1(i) \in Int /\ Start1(i) = Counted(h[i].start)
      OBVIOUS
    <2>1. HasYear(h[i].start) /\ ParseRfc3339(h[i].start) # Garbage
      BY DEF Range
    <2> QED
      BY <2>1, ParsedIsCounted
  <1>3. begun # {}
    BY AbsentAssumption DEF EffectiveStatusAt
  <1>4. \E i \in begun : IsLast(i)
    <2> DEFINE T == {time - Start1(i) : i \in begun}
    <2>1. T \subseteq Nat /\ T # {}
      BY <1>2, <1>3
    <2>2. PICK m \in T : \A k \in T : m <= k
      BY <2>1, LeastOf
    <2> DEFINE late == {i \in begun : Start1(i) = time - m}
               U == {Len(h) - i : i \in late}
    <2>3. m \in Nat /\ \A i \in begun : Start1(i) \in Int /\ m <= time - Start1(i) /\ i \in 1..Len(h)
      BY <1>1, <1>2, <2>1, <2>2
    <2>4. U \subseteq Nat /\ U # {}
      <3>1. U \subseteq Nat
        BY <1>1, <2>3
      <3>2. PICK i \in begun : m = time - Start1(i)
        BY <2>2
      <3>3. i \in late
        BY <2>3, <3>2
      <3> QED
        BY <3>1, <3>3
    <2>5. PICK l \in U : \A k \in U : l <= k
      BY <2>4, LeastOf
    <2>6. PICK i \in late : l = Len(h) - i
      BY <2>5
    <2>7. ASSUME NEW j \in begun PROVE Start1(j) < Start1(i) \/ (Start1(j) = Start1(i) /\ j <= i)
      <3> HIDE DEF Start1, begun
      <3>1. Start1(i) = time - m /\ i \in 1..Len(h) /\ j \in 1..Len(h) /\ Start1(j) \in Int /\ Start1(j) <= time - m
        BY <2>3
      <3>2. CASE Start1(j) = time - m
        <4>1. Len(h) - j \in U
          BY <3>2
        <4>2. Len(h) - i <= Len(h) - j
          BY <2>5, <2>6, <4>1
        <4> QED
          BY <1>1, <3>1, <3>2, <4>2
      <3> QED
        BY <2>3, <3>1, <3>2
    <2> QED
      BY <2>7
  <1> DEFINE last == CHOOSE i \in begun : IsLast(i)
  <1>5. last \in begun /\ IsLast(last)
    BY <1>4
  <1>6. h[last].status = "granted"
    BY <1>3 DEF EffectiveStatusAt
  <1>7. begun = {i \in DOMAIN h : Counted(h[i].start) <= time}
    BY <1>2
  <1>8. \A j \in begun : Counted(h[j].start) <= Counted(h[last].start)
    <2> HIDE DEF Start1, last
    <2>1. \A j \in begun : Start1(j) <= Start1(last) /\ j \in DOMAIN h /\ last \in DOMAIN h
      BY <1>2, <1>5
    <2> QED
      BY <1>2, <2>1
  <1> HIDE DEF last
  <1> QED
    BY <1>5, <1>6, <1>7, <1>8

\* A service that matches a certificate does so by the certificate or by a key.
LEMMA MatchesByKey ==
  ASSUME NEW service, NEW leaf \in Certs, MatchesLeaf(service, leaf)
  PROVE  \/ service.cert = leaf
         \/ (IF service.ski # Absent THEN service.ski ELSE service.cert.key) \in {leaf.key, leaf.by}
PROOF
  <1>1. leaf.key # Absent
    BY AbsentAssumption
  <1> QED
    BY <1>1 DEF MatchesLeaf, ServiceSki, Ski, Aki

\* What the gate calls qualified.
LEMMA QualifiedIssuer ==
  ASSUME IsJob(job), job.list # Absent, NEW claim, claim.cert \in Certs, claim.time \in Int \union {Absent},
         StatusOf(claim, job.list) = "Qualified"
  PROVE  \E s \in job.list.services :
           LET begun == {i \in DOMAIN s.history : Counted(s.history[i].start) <= claim.time}
           IN  /\ s.type = "EAA/Q" /\ claim.category = "eaa-eu-qualified"
               /\ \/ s.cert = claim.cert
                  \/ (IF s.ski # Absent THEN s.ski ELSE s.cert.key) \in {claim.cert.key, claim.cert.by}
               /\ \E i \in begun : /\ s.history[i].status = "granted"
                                   /\ \A j \in begun : Counted(s.history[j].start) <= Counted(s.history[i].start)
PROOF
  <1>1. claim.time # Absent /\ ReadStatus(claim.cert, claim.time, job.list, claim.category) = "Qualified"
    BY DEF StatusOf
  <1>2. claim.time \in Int
    BY <1>1
  <1>3. claim.category = "eaa-eu-qualified"
    BY <1>1 DEF ReadStatus
  <1>4. PICK s \in job.list.services : /\ MatchesLeaf(s, claim.cert) /\ s.type = "EAA/Q"
                                       /\ EffectiveStatusAt(s, claim.time) = "granted"
    BY <1>1 DEF ReadStatus
  <1>5. IsTrustList(job.list)
    BY TypedJob
  <1>6. IsSequence(s.history) /\ \A h \in Range(s.history) : HasYear(h.start)
    BY <1>4, <1>5 DEF IsTrustList
  <1>7. \A i \in DOMAIN s.history : ParseRfc3339(s.history[i].start) # Garbage
    BY <1>4, <1>5 DEF IsTrustList, ParseList
  <1> DEFINE begun == {i \in DOMAIN s.history : Counted(s.history[i].start) <= claim.time}
  <1>8. \E i \in begun : /\ s.history[i].status = "granted"
                         /\ \A j \in begun : Counted(s.history[j].start) <= Counted(s.history[i].start)
    BY <1>2, <1>4, <1>6, <1>7, LastBegun
  <1>9. \/ s.cert = claim.cert
        \/ (IF s.ski # Absent THEN s.ski ELSE s.cert.key) \in {claim.cert.key, claim.cert.by}
    BY <1>4, MatchesByKey
  <1> QED
    BY <1>3, <1>4, <1>8, <1>9

\* The worst of several is the best only if all are.
LEMMA AllAreQualified ==
  ASSUME NEW claims, NEW list,
         FoldQualified({StatusOf(claims[i], list) : i \in DOMAIN claims}) = "Qualified"
  PROVE  \A n \in DOMAIN claims : StatusOf(claims[n], list) = "Qualified"
PROOF
  <1>1. SUFFICES ASSUME NEW n \in DOMAIN claims PROVE StatusOf(claims[n], list) = "Qualified"
    OBVIOUS
  <1>2. StatusOf(claims[n], list) \in {"Indeterminate", "NotQualified", "Qualified"}
    BY DEF StatusOf, ReadStatus
  <1>3. StatusOf(claims[n], list) \notin {"Indeterminate", "NotQualified"}
    BY DEF FoldQualified
  <1> QED
    BY <1>2, <1>3

LEMMA ListSignerEarns ==
  ASSUME VerifierInv, ListSigner
  PROVE  QualifiedIsEarned'
PROOF
  <1> DEFINE statuses == {StatusOf(claimed[i], job.list) : i \in DOMAIN claimed}
             list == job.list
  <1>1. /\ stage = "list" /\ UNCHANGED <<chainVars, job, claimed>>
        /\ verdict' = Valid(IF result.verdict = "ok" /\ IsCurrent(list, job.now)
                            THEN FoldQualified(statuses) ELSE "Indeterminate")
    BY DEF ListSigner
  <1>2. /\ IsJob(job) /\ BeforeDocuments(job) = "ok" /\ ClaimedInv /\ ChainInv /\ LeafInv
        /\ Len(claimed) = Len(Docs) /\ call = ListCall /\ NeedsGate /\ ListIsSigned
    BY <1>1 DEF VerifierInv, JobInv, ListInv
  <1>3. CASE verdict'.qualified # "Qualified"
    BY <1>3 DEF QualifiedIsEarned
  <1>4. CASE verdict'.qualified = "Qualified"
    <2>1. verdict'.valid /\ result.verdict = "ok" /\ IsCurrent(list, job.now) /\ FoldQualified(statuses) = "Qualified"
      BY <1>1, <1>4 DEF Valid
    <2>2. list # Absent /\ IsTrustList(list)
      BY <1>2, TypedJob DEF ListIsSigned
    <2>3. job.now < Counted(list.nextUpdate)
      <3>1. ParseRfc3339(list.nextUpdate) # Garbage /\ HasYear(list.nextUpdate)
        BY <2>2 DEF IsTrustList, ParseList
      <3> QED
        BY <2>1, <3>1, ParsedIsCounted DEF IsCurrent
    <2>4. \E i \in DOMAIN job.schemeAnchors : job.schemeAnchors[i] = result.root
      <3>1. call.chain # <<>> /\ call.anchors = job.schemeAnchors
        BY <1>2, TypedListCall DEF ListCall
      <3> QED
        BY <1>2, <2>1, <3>1, RootFound
    <2>5. DOMAIN claimed = DOMAIN Docs
      BY <1>2, TypedDocs DEF ClaimedInv, IsSequence
    <2>6. ASSUME NEW n \in DOMAIN Docs
          PROVE  \E s \in list.services :
                   LET cert  == IF IsMdoc THEN DocChain(Docs[n])[1] ELSE Chain(Docs[n])[1]
                       begun == {i \in DOMAIN s.history : Counted(s.history[i].start) <= claimed[n].time}
                   IN  /\ s.type = "EAA/Q" /\ claimed[n].category = "eaa-eu-qualified"
                       /\ s.cert = cert \/ (IF s.ski # Absent THEN s.ski ELSE s.cert.key) \in {cert.key, cert.by}
                       /\ \E i \in begun : /\ s.history[i].status = "granted"
                                           /\ \A j \in begun : Counted(s.history[j].start) <= Counted(s.history[i].start)
      <3>1. /\ claimed[n] = ClaimFor(Docs[n]) /\ claimed[n].cert \in Certs
            /\ claimed[n].time \in Int \union {Absent}
        BY <1>2, <2>5 DEF ClaimedInv
      <3>2. claimed[n].cert = IF IsMdoc THEN DocChain(Docs[n])[1] ELSE Chain(Docs[n])[1]
        BY <3>1 DEF ClaimFor
      <3>3. StatusOf(claimed[n], list) = "Qualified"
        BY <2>1, <2>5, AllAreQualified
      <3> QED
        BY <1>2, <2>2, <3>1, <3>2, <3>3, QualifiedIssuer
    <2>7. IsMdoc' = IsMdoc /\ Docs' = Docs /\ result' = result /\ claimed' = claimed /\ job' = job
      BY <1>1, SameJob DEF chainVars
    <2> QED
      BY <1>2, <2>1, <2>3, <2>4, <2>6, <2>7 DEF QualifiedIsEarned, NeedsGate
  <1> QED
    BY <1>3, <1>4

-----------------------------------------------------------------------------
(* The actions *)

LEMMA SomeDocs ==
  IsJob(job) /\ BeforeDocuments(job) = "ok" => 1 \in 1..Len(Docs)
  BY TypedDocs

LEMMA VerifyKeeps ==
  ASSUME VerifierInv, NEW j, IsJob(j), Verify(j)
  PROVE  VerifierInv'
PROOF
  <1>1. /\ stage = "idle" /\ job' = j /\ UNCHANGED <<chainVars, root, status, claimed, shown>>
        /\ \/ BeforeDocuments(j) = "ok" /\ stage' = "document" /\ doc' = 1 /\ verdict' = verdict
           \/ /\ stage' = "done" /\ doc' = doc
              /\ verdict' = [NoVerdict EXCEPT !.reason = BeforeDocuments(j), !.bound = BoundBeforeDocuments(j)]
    BY DEF Verify
  <1>2. claimed = <<>> /\ shown = {} /\ verdict = NoVerdict /\ ChainInv /\ LeafInv /\ doc \in Nat
    BY <1>1 DEF VerifierInv, IdleInv
  <1>3. (ChainInv /\ LeafInv)'
    BY <1>1, <1>2, SearchUnchanged
  <1>4. claimed' = <<>> /\ shown' = {}
    BY <1>1, <1>2
  <1>5. (ClaimedInv /\ ShownIsSigned)'
    BY <1>4 DEF ClaimedInv, ShownIsSigned, IsSequence
  <1>6. verdict'.valid = FALSE /\ verdict'.qualified = Absent
    <2>1. CASE verdict' = verdict
      BY <1>2, <2>1 DEF NoVerdict
    <2>2. CASE verdict' = [NoVerdict EXCEPT !.reason = BeforeDocuments(j), !.bound = BoundBeforeDocuments(j)]
      <3> HIDE DEF BeforeDocuments, BoundBeforeDocuments
      <3> QED
        BY <2>2 DEF NoVerdict
    <2> QED
      BY <1>1, <2>1, <2>2
  <1>7. QualifiedIsEarned'
    BY <1>6, NoneIsEarned
  <1>8. (IdleInv /\ JobInv /\ TrustInv /\ StatusInv /\ ListInv /\ ValidInv /\ VerdictType)'
    BY <1>1, <1>2, <1>6 DEF IdleInv, JobInv, TrustInv, StatusInv, ListInv, ValidInv, VerdictType
  <1>9. DocInv'
    <2>1. CASE stage' = "document"
      <3>1. IsJob(job') /\ BeforeDocuments(job)' = "ok" /\ doc' = 1
        BY <1>1, <2>1
      <3>2. (IsJob(job) /\ BeforeDocuments(job) = "ok" => 1 \in 1..Len(Docs))'
        BY SomeDocs, PTL
      <3> QED
        BY <1>4, <2>1, <3>1, <3>2 DEF DocInv
    <2> QED
      BY <1>1, <2>1 DEF DocInv
  <1> QED
    BY <1>1, <1>2, <1>3, <1>5, <1>7, <1>8, <1>9 DEF VerifierInv

LEMMA StartDocumentKeeps ==
  ASSUME VerifierInv, StartDocument
  PROVE  VerifierInv'
PROOF
  <1>1. stage = "document"
    BY DEF StartDocument
  <1>2. CASE \E reason : Refuse(reason)
    BY <1>1, <1>2, RefuseKeeps
  <1>3. CASE ~\E reason : Refuse(reason)
    <2>1. /\ BeforeTrust = "ok" /\ AnchorsFor(Role) # Absent /\ stage' = "trust"
          /\ Resolve(Role, IssuerChain, LeafTime, CredentialPurpose(Role))
          /\ UNCHANGED <<job, doc, status, claimed, shown, verdict>>
      BY <1>3 DEF StartDocument
    <2>2. /\ IsJob(job) /\ BeforeDocuments(job) = "ok" /\ doc \in 1..Len(Docs) /\ Len(claimed) = doc - 1
          /\ verdict = NoVerdict /\ ChainInv /\ ClaimedInv /\ ShownIsSigned
      BY <1>1 DEF VerifierInv, JobInv, DocInv
    <2>3. IssuerCall.chain \in CertLists /\ IssuerCall.anchors \in CertLists
      BY <2>1, <2>2, TypedChain DEF IssuerCall
    <2>4. VerifyChain(IssuerCall)
      BY <2>1 DEF Resolve, IssuerCall
    <2>5. (ChainInv /\ LeafInv)' /\ call' = IssuerCall
      BY <2>2, <2>3, <2>4, AskedKeeps
    <2>6. /\ Docs' = Docs /\ BeforeTrust' = BeforeTrust /\ IssuerCall' = IssuerCall
          /\ AnchorsFor(Role)' = AnchorsFor(Role) /\ BeforeDocuments(job)' = BeforeDocuments(job)
      BY <2>1, SameJob, SameDoc DEF AnchorsFor
    <2>7. (ClaimedInv /\ ShownIsSigned)'
      BY <2>1, <2>2, ClaimedKept
    <2>8. verdict' = NoVerdict /\ verdict'.valid = FALSE /\ verdict'.qualified = Absent
      BY <2>1, <2>2 DEF NoVerdict
    <2>9. QualifiedIsEarned'
      BY <2>8, NoneIsEarned
    <2>10. (IdleInv /\ JobInv /\ DocInv /\ TrustInv /\ StatusInv /\ ListInv /\ ValidInv /\ VerdictType)'
      BY <2>1, <2>2, <2>5, <2>6, <2>8
         DEF IdleInv, JobInv, DocInv, TrustInv, StatusInv, ListInv, ValidInv, VerdictType
    <2> QED
      BY <2>1, <2>5, <2>7, <2>9, <2>10 DEF VerifierInv
  <1> QED
    BY <1>2, <1>3

\* Between the steps of a call, what was asked and what has been found stay.
LEMMA SearchKeeps ==
  ASSUME VerifierInv, Search
  PROVE  VerifierInv'
PROOF
  <1>1. Walk /\ UNCHANGED <<job, stage, doc, root, status, claimed, shown, verdict>>
    BY DEF Search
  <1>2. (ChainInv /\ LeafInv)' /\ call' = call
    BY <1>1, WalkKeeps DEF VerifierInv
  <1>3. (ClaimedInv /\ ShownIsSigned)'
    BY <1>1, ClaimedKept DEF VerifierInv
  <1>4. QualifiedIsEarned'
    <2>1. stack # <<>>
      BY <1>1 DEF Walk, Enter, TryAnchor, AtCap, TryIntermediate, Leave, Exhausted
    <2>2. verdict.qualified # "Qualified"
      BY <2>1 DEF VerifierInv, QualifiedIsEarned, LeafInv, NoResult
    <2> QED
      BY <1>1, <2>2 DEF QualifiedIsEarned
  <1>5. (IdleInv /\ JobInv /\ DocInv /\ ValidInv /\ VerdictType)'
    <2>1. /\ Docs' = Docs /\ QueryIsMet' = QueryIsMet /\ BeforeDocuments(job)' = BeforeDocuments(job)
          /\ BeforeTrust' = BeforeTrust /\ AnchorsFor(Role)' = AnchorsFor(Role)
      BY <1>1, SameJob, SameDoc DEF AnchorsFor
    <2> QED
      BY <1>1, <2>1 DEF VerifierInv, IdleInv, JobInv, DocInv, ValidInv, VerdictType
  <1>6. (TrustInv /\ StatusInv /\ ListInv)'
    <2>1. /\ Docs' = Docs /\ QueryIsMet' = QueryIsMet /\ ListCall' = ListCall /\ NeedsGate' = NeedsGate
          /\ ListIsSigned' = ListIsSigned /\ IssuerCall' = IssuerCall /\ SignerCall' = SignerCall
          /\ NeedsSignerSearch' = NeedsSignerSearch /\ BeforeStatus' = BeforeStatus
      BY <1>1, SameJob, SameDoc
    <2>2. IsRootOfDoc(root)' = IsRootOfDoc(root)
      BY <1>1, SameDoc, SameJob DEF IsRootOfDoc, AnchorsFor, CredentialPurpose
    <2> QED
      BY <1>1, <1>2, <2>1, <2>2 DEF VerifierInv, TrustInv, StatusInv, ListInv
  <1> QED
    BY <1>1, <1>2, <1>3, <1>4, <1>5, <1>6 DEF VerifierInv

LEMMA RootOfIssuer ==
  ASSUME VerifierInv, stage = "trust", result.verdict = "ok"
  PROVE  IsRootOfDoc(result.root)
PROOF
  <1>1. /\ IsJob(job) /\ BeforeDocuments(job) = "ok" /\ doc \in 1..Len(Docs) /\ BeforeTrust = "ok"
        /\ ChainInv /\ LeafInv /\ call = IssuerCall
    BY DEF VerifierInv, JobInv, DocInv, TrustInv
  <1>2. IssuerChain # <<>>
    BY <1>1, TypedChain
  <1> QED
    BY <1>1, <1>2, RootFound DEF IssuerCall, IsRootOfDoc

LEMMA TrustKeeps ==
  ASSUME VerifierInv, Trust
  PROVE  VerifierInv'
PROOF
  <1>1. stage = "trust" /\ Answered /\ root' = result.root
    BY DEF Trust
  <1>2. /\ IsJob(job) /\ BeforeDocuments(job) = "ok" /\ doc \in 1..Len(Docs) /\ Len(claimed) = doc - 1
        /\ BeforeTrust = "ok" /\ AnchorsFor(Role) # Absent
        /\ verdict = NoVerdict /\ ChainInv /\ LeafInv /\ ClaimedInv /\ ShownIsSigned /\ call = IssuerCall
    BY <1>1 DEF VerifierInv, JobInv, DocInv, TrustInv
  <1>3. IssuerChain # <<>> /\ AnchorsFor(Role) \in CertLists
    BY <1>2, TypedChain
  <1>4. result.verdict = "ok" => IsRootOfDoc(result.root)
    BY <1>1, RootOfIssuer
  <1>5. CASE \E reason : Refuse(reason)
    BY <1>1, <1>5, RefuseKeeps
  <1>6. CASE result.verdict = "ok" /\ Conclude(ResolvedStatus)
    <2>1. IssuerChain[1] \in Certs
      BY <1>4, <1>6 DEF IsRootOfDoc
    <2> QED
      BY <1>1, <1>2, <1>6, <2>1, TypedStatus, ConcludeKeeps
  <1>7. CASE /\ result.verdict = "ok" /\ BeforeStatus = "ok" /\ NeedsSignerSearch
             /\ Resolve(Role, SignerMaterial(TokenFor(Reference.uri)), Absent, SignerPurpose)
             /\ stage' = "status"
             /\ UNCHANGED <<job, doc, status, claimed, shown, verdict>>
    <2>1. SignerCall.chain \in CertLists /\ SignerCall.anchors \in CertLists
      BY <1>2, <1>3, <1>7, TypedSigner DEF SignerCall
    <2>2. VerifyChain(SignerCall)
      BY <1>7 DEF Resolve, SignerCall
    <2>3. (ChainInv /\ LeafInv)' /\ call' = SignerCall
      BY <1>2, <2>1, <2>2, AskedKeeps
    <2>4. /\ Docs' = Docs /\ BeforeTrust' = BeforeTrust /\ SignerCall' = SignerCall
          /\ AnchorsFor(Role)' = AnchorsFor(Role) /\ BeforeDocuments(job)' = BeforeDocuments(job)
          /\ BeforeStatus' = BeforeStatus /\ NeedsSignerSearch' = NeedsSignerSearch
      BY <1>7, SameJob, SameDoc DEF AnchorsFor
    <2>5. IsRootOfDoc(root)'
      <3>1. IsRootOfDoc(root')
        BY <1>1, <1>4, <1>7
      <3>2. /\ IsMdoc' = IsMdoc /\ IssuerChain' = IssuerChain /\ Role' = Role /\ LeafTime' = LeafTime
            /\ job' = job
        BY <1>7, SameJob, SameDoc
      <3>3. CredentialPurpose(Role)' = CredentialPurpose(Role)
        BY <3>2 DEF CredentialPurpose
      <3> QED
        BY <2>4, <3>1, <3>2, <3>3 DEF IsRootOfDoc
    <2>6. (ClaimedInv /\ ShownIsSigned)'
      BY <1>2, <1>7, ClaimedKept
    <2>7. verdict' = NoVerdict /\ verdict'.valid = FALSE /\ verdict'.qualified = Absent
      BY <1>2, <1>7 DEF NoVerdict
    <2>8. QualifiedIsEarned'
      BY <2>7, NoneIsEarned
    <2>9. StatusInv'
      BY <1>7, <2>3, <2>4, <2>5 DEF StatusInv
    <2>10. (IdleInv /\ JobInv /\ DocInv /\ TrustInv /\ ListInv /\ ValidInv /\ VerdictType)'
      BY <1>2, <1>7, <2>4, <2>7 DEF IdleInv, JobInv, DocInv, TrustInv, ListInv, ValidInv, VerdictType
    <2>11. (doc \in Nat /\ status \in StatusOutcomes)'
      BY <1>7 DEF VerifierInv
    <2> QED
      BY <1>7, <2>3, <2>6, <2>8, <2>9, <2>10, <2>11 DEF VerifierInv
  <1> QED
    BY <1>5, <1>6, <1>7 DEF Trust

LEMMA StatusSignerKeeps ==
  ASSUME VerifierInv, StatusSigner
  PROVE  VerifierInv'
PROOF
  <1>1. stage = "status" /\ \E outcome \in StatusOutcomes : Conclude(outcome)
    BY TypedOutcome DEF StatusSigner
  <1>2. IssuerChain[1] \in Certs
    BY <1>1 DEF VerifierInv, StatusInv, IsRootOfDoc
  <1> QED
    BY <1>1, <1>2, ConcludeKeeps

LEMMA ListSignerKeeps ==
  ASSUME VerifierInv, ListSigner
  PROVE  VerifierInv'
PROOF
  <1>1. /\ stage = "list" /\ stage' = "done" /\ UNCHANGED <<chainVars, job, doc, root, status, claimed, shown>>
        /\ \E q : verdict' = Valid(q) /\ q \in QualifiedStatuses
    BY DEF ListSigner, FoldQualified, QualifiedStatuses
  <1>2. /\ IsJob(job) /\ Len(claimed) = Len(Docs) /\ QueryIsMet
        /\ ChainInv /\ LeafInv /\ ClaimedInv /\ ShownIsSigned
    BY <1>1 DEF VerifierInv, JobInv, ListInv
  <1>3. /\ verdict'.valid = TRUE /\ verdict'.qualified \in QualifiedStatuses
        /\ verdict'.bound = (job.request # Absent)
    BY <1>1 DEF Valid
  <1>4. (ChainInv /\ LeafInv)'
    BY <1>1, <1>2, SearchUnchanged
  <1>5. (ClaimedInv /\ ShownIsSigned)'
    BY <1>1, <1>2, ClaimedKept
  <1>6. QualifiedIsEarned'
    BY ListSignerEarns
  <1>7. Docs' = Docs /\ QueryIsMet' = QueryIsMet /\ claimed' = claimed /\ job' = job
    BY <1>1, SameJob
  <1>8. (IdleInv /\ JobInv /\ DocInv /\ TrustInv /\ StatusInv /\ ListInv /\ ValidInv /\ VerdictType)'
    BY <1>1, <1>2, <1>3, <1>7
       DEF IdleInv, JobInv, DocInv, TrustInv, StatusInv, ListInv, ValidInv, VerdictType
  <1>9. (doc \in Nat /\ status \in StatusOutcomes)'
    BY <1>1 DEF VerifierInv
  <1> QED
    BY <1>1, <1>4, <1>5, <1>6, <1>8, <1>9 DEF VerifierInv

LEMMA IdleHolds ==
  ASSUME ChainInv, LeafInv, stage = "idle", doc = 0, status = "Unavailable", claimed = <<>>, shown = {},
         verdict = NoVerdict
  PROVE  VerifierInv
PROOF
  <1>1. ClaimedInv /\ ShownIsSigned
    BY DEF ClaimedInv, ShownIsSigned, IsSequence
  <1>2. verdict.valid = FALSE /\ verdict.qualified = Absent
    BY DEF NoVerdict
  <1>3. QualifiedIsEarned
    BY <1>2, NotQualified, AbsentAssumption DEF QualifiedStatuses
  <1>4. IdleInv /\ JobInv /\ DocInv /\ TrustInv /\ StatusInv /\ ListInv /\ ValidInv /\ VerdictType
    BY <1>2 DEF IdleInv, JobInv, DocInv, TrustInv, StatusInv, ListInv, ValidInv, VerdictType
  <1>5. status \in StatusOutcomes
    BY DEF StatusOutcomes
  <1> QED
    BY <1>1, <1>3, <1>4, <1>5 DEF VerifierInv

-----------------------------------------------------------------------------
(* A document passes on a status that is known *)

LEMMA RoundedUp ==
  ASSUME NEW h \in Int
  PROVE  /\ RoundSeconds(h, "Up") = (h + 1) \div 2
         /\ \A n \in Int : n < RoundSeconds(h, "Up") => 2 * n < h
  BY DEF RoundSeconds

\* What a token says that is read as good.
ReadsGood(token, reference, now) ==
  LET half(t) == (t + 1) \div 2 IN
  /\ token.sub = reference.uri
  /\ token.exp # Absent => 2 * now < token.exp
  /\ token.ttl # Absent => half(token.iat) + half(token.ttl) \in now..MaxI64
  /\ (reference.idx + 1) * token.bits <= 8 * Len(token.lst)
  /\ EntryAt(token.lst, reference.idx, token.bits) = 0

LEMMA GoodToken ==
  ASSUME NEW token, IsListToken(token), token # Garbage, NEW reference, reference.idx \in 0..MaxU64,
         NEW now \in Int, NEW key, TokenOutcome(token, key, reference, now) \in {"Good", "NoStatus"}
  PROVE  key # Absent /\ token.by = key /\ ReadsGood(token, reference, now)
PROOF
  <1> DEFINE value == ExtractStatusValue(token.lst, reference.idx, token.bits)
             iat == NumericDate(token.iat, "Up")
             exp == NumericDate(token.exp, "Up")
             ttl == NonNegative(token.ttl)
  <1>1. /\ key # Absent /\ token.by = key /\ TokenClaimsReadable(token)
        /\ EvaluateStatusClaims(token, reference, now) \in {"Good", "NoStatus"}
    BY DEF TokenOutcome
  <1>2. token.sub = reference.uri /\ TokenIsFresh(iat, exp, ttl, now) /\ token.lst # Unreadable /\ value # Absent
        /\ StatusValueToOutcome(value) \in {"Good", "NoStatus"}
    BY <1>1 DEF EvaluateStatusClaims
  <1>3. value = 0
    BY <1>2 DEF StatusValueToOutcome
  <1>4. token.bits \in {1, 2, 4, 8} /\ token.lst \in Seq(0..255) /\ reference.idx \in Nat
    BY <1>1, <1>2, WidthAssumption DEF TokenClaimsReadable, IsListToken, IsValue
  <1>5. (reference.idx + 1) * token.bits <= 8 * Len(token.lst) /\ EntryAt(token.lst, reference.idx, token.bits) = 0
    BY <1>3, <1>4, EntryIsZero
  <1>6. token.iat \in OrNone(Int) /\ token.exp \in OrNone(Int) /\ token.ttl \in OrNone(Int)
    BY DEF IsListToken
  <1>7. token.iat \in Int /\ iat = RoundSeconds(token.iat, "Up")
    BY <1>1, <1>6, DateIsNumber DEF TokenClaimsReadable
  <1>8. ASSUME token.exp # Absent PROVE 2 * now < token.exp
    <2>1. exp # Garbage
      BY <1>1 DEF TokenClaimsReadable
    <2>2. token.exp \in Int
      BY <1>6, <1>8, <2>1 DEF NumericDate, IsValue, OrNone
    <2>3. exp = RoundSeconds(token.exp, "Up") /\ exp \in Int
      BY <2>1, <2>2, DecodedAssumption DEF NumericDate, RoundNumericDate, RoundSeconds, IsValue
    <2>4. now < exp
      BY <1>2, <2>3, DecodedAssumption DEF TokenIsFresh
    <2> QED
      BY <2>2, <2>3, <2>4, RoundedUp
  <1>9. ASSUME token.ttl # Absent
        PROVE  (token.iat + 1) \div 2 + (token.ttl + 1) \div 2 \in now..MaxI64
    <2>1. ttl # Garbage
      BY <1>1 DEF TokenClaimsReadable
    <2>2. ttl = NumericDate(token.ttl, "Up")
      BY <2>1 DEF NonNegative
    <2>3. token.ttl \in Int
      BY <1>6, <1>9, <2>1, <2>2 DEF NumericDate, IsValue, OrNone
    <2>4. ttl = RoundSeconds(token.ttl, "Up") /\ ttl \in Int
      BY <2>1, <2>2, <2>3, DecodedAssumption DEF NumericDate, RoundNumericDate, RoundSeconds, IsValue
    <2>5. iat + ttl <= MaxI64 /\ now <= iat + ttl
      BY <1>2, <2>4, DecodedAssumption DEF TokenIsFresh
    <2>6. iat = (token.iat + 1) \div 2 /\ ttl = (token.ttl + 1) \div 2
      BY <1>7, <2>3, <2>4, RoundedUp
    <2>7. (token.iat + 1) \div 2 \in Int /\ (token.ttl + 1) \div 2 \in Int /\ MaxI64 \in Int
      BY <1>7, <2>3, WidthAssumption
    <2> HIDE DEF iat, ttl
    <2> QED
      BY <2>5, <2>6, <2>7
  <1> QED
    BY <1>1, <1>2, <1>5, <1>8, <1>9 DEF ReadsGood

\* The status a document passes on, and the search it comes from.
LEMMA PassingStatus ==
  ASSUME VerifierInv, VerifierNext, Passes
  PROVE  \/ /\ Trust /\ root' = result.root /\ result.verdict = "ok" /\ ~NeedsSignerSearch
            /\ ResolvedStatus \in {"Good", "NoStatus"} /\ Conclude(ResolvedStatus)
         \/ /\ StatusSigner /\ root' = root /\ stage = "status"
            /\ LET token  == TokenFor(Reference.uri)
                   signer == SignerMaterial(token)[1]
                   key    == IF SignerIsAuthorized(signer) THEN P256Key(signer) ELSE Absent
               IN  /\ TokenOutcome(token, key, Reference, job.now) \in {"Good", "NoStatus"}
                   /\ Conclude(TokenOutcome(token, key, Reference, job.now))
PROOF
  <1>1. Len(claimed) \in Nat /\ Len(claimed') # Len(claimed) /\ claimed' # claimed
    BY DEF VerifierInv, ClaimedInv, IsSequence, Passes
  <1>2. claimed' # <<>>
    BY <1>1 DEF Passes
  <1>3. \A reason : ~Refuse(reason)
    BY <1>1 DEF Refuse
  <1>4. \A outcome \in StatusOutcomes : Conclude(outcome) => outcome \in {"Good", "NoStatus"}
    BY <1>3 DEF Conclude, StatusReason, StatusOutcomes
  <1>5. Trust \/ StatusSigner
    BY <1>1, <1>2, <1>3 DEF VerifierNext, Verify, VerifierStep, StartDocument, Search, ListSigner, Deliver
  <1>6. CASE Trust
    <2>1. /\ stage = "trust" /\ root' = result.root /\ result.verdict = "ok" /\ ~NeedsSignerSearch
          /\ Conclude(ResolvedStatus)
      BY <1>1, <1>3, <1>6 DEF Trust
    <2>2. ResolvedStatus \in StatusOutcomes
      BY <2>1, TypedStatus DEF VerifierInv, JobInv
    <2> QED
      BY <1>4, <1>6, <2>1, <2>2
  <1>7. CASE StatusSigner
    BY <1>4, <1>7, TypedOutcome DEF StatusSigner
  <1> QED
    BY <1>5, <1>6, <1>7

LEMMA KnownStatus ==
  ASSUME VerifierInv, VerifierNext, Passes
  PROVE  IsOfKnownStatus
PROOF
  <1> DEFINE claim == IF IsMdoc THEN Mso(Doc).status ELSE Claim(Doc, "status")
             issuer == IssuerChain[1]
             token == TokenFor(Reference.uri)
  <1>1. Reference = StatusReference(claim) /\ Reference.kind \in {"none", "list", "malformed"}
    BY DEF Reference, StatusReference, NoReference
  <1>2. Positional = IF doc \in DOMAIN job.statuses THEN job.statuses[doc] ELSE "Unavailable"
    BY DEF Positional, PositionalStatus
  <1>3. stage \in {"trust", "status"} /\ IsJob(job) /\ job.now \in Int
    BY PassingStatus, TypedJob DEF VerifierInv, JobInv, Trust, StatusSigner
  <1>4. stage = "status" => Reference.kind = "list"
    BY DEF VerifierInv, StatusInv, NeedsSignerSearch
  <1>5. CASE Reference.kind = "none"
    <2>1. claim = Absent \/ claim.list = Absent
      BY <1>1, <1>5 DEF StatusReference
    <2>2. ResolvedStatus = Positional
      BY <1>5 DEF ResolvedStatus
    <2>3. ResolvedStatus \in {"Good", "NoStatus"}
      BY <1>4, <1>5, PassingStatus
    <2> QED
      BY <1>2, <2>1, <2>2, <2>3 DEF IsOfKnownStatus
  <1>6. CASE Reference.kind = "malformed"
    BY <1>4, <1>6, PassingStatus DEF ResolvedStatus
  <1>7. CASE Reference.kind = "list"
    <2>1. /\ claim # Absent /\ claim.list # Absent /\ Reference.uri = claim.list.uri
          /\ Reference.idx = claim.list.idx /\ Reference.idx \in 0..MaxU64
      BY <1>1, <1>7 DEF StatusReference, NoReference
    <2>2. CASE claim.list.uri \notin DOMAIN job.tokens
      <3>1. token = Absent
        BY <2>1, <2>2 DEF TokenFor
      <3>2. ~NeedsSignerSearch
        BY <3>1 DEF NeedsSignerSearch, TokenHeaderOk, IsValue
      <3>3. ResolvedStatus \in {"Good", "NoStatus"} /\ ResolvedStatus = WithoutToken(Positional)
        BY <1>7, <3>1, <3>2, PassingStatus DEF ResolvedStatus, VerifierInv, StatusInv
      <3> QED
        BY <1>2, <2>1, <2>2, <3>3 DEF WithoutToken, IsOfKnownStatus
    <2>3. CASE claim.list.uri \in DOMAIN job.tokens
      <3>1. token = job.tokens[claim.list.uri] /\ token # Absent /\ IsListToken(token)
        BY <1>3, <2>1, <2>3, TypedJob DEF TokenFor
      <3>2. CASE /\ Trust /\ root' = result.root /\ result.verdict = "ok" /\ ~NeedsSignerSearch
                 /\ ResolvedStatus \in {"Good", "NoStatus"}
        <4>1. /\ TokenHeaderOk(token)
              /\ TokenOutcome(token, P256Key(issuer), Reference, job.now) \in {"Good", "NoStatus"}
          BY <1>7, <3>1, <3>2 DEF ResolvedStatus
        <4>2. token # Garbage
          BY <4>1 DEF TokenHeaderOk, IsValue
        <4>3. P256Key(issuer) # Absent /\ token.by = P256Key(issuer)
          BY <1>3, <2>1, <3>1, <4>1, <4>2, GoodToken
        <4>4. token.by = issuer.key
          BY <4>3 DEF P256Key
        <4>5. ReadsGood(token, Reference, job.now)
          BY <1>3, <2>1, <3>1, <4>1, <4>2, GoodToken
        <4>6. Proves(token, claim.list, issuer)
          BY <2>1, <4>4, <4>5 DEF Proves, ReadsGood
        <4> QED
          BY <2>1, <2>3, <3>1, <4>6 DEF IsOfKnownStatus
      <3>3. CASE /\ StatusSigner /\ root' = root /\ stage = "status"
                 /\ LET signer == SignerMaterial(token)[1]
                        key    == IF SignerIsAuthorized(signer) THEN P256Key(signer) ELSE Absent
                    IN  TokenOutcome(token, key, Reference, job.now) \in {"Good", "NoStatus"}
        <4> DEFINE signer == SignerMaterial(token)[1]
                   key == IF SignerIsAuthorized(signer) THEN P256Key(signer) ELSE Absent
        <4>1. NeedsSignerSearch
          BY <3>3 DEF VerifierInv, StatusInv
        <4>2. token # Garbage /\ SignerMaterial(token) = token.x5c
          BY <1>3, <4>1, TypedSigner DEF NeedsSignerSearch, TokenHeaderOk, IsValue
        <4>3. key # Absent /\ token.by = key
          BY <1>3, <2>1, <3>1, <3>3, <4>2, GoodToken
        <4>4. SignerIsAuthorized(signer) /\ token.by = signer.key
          BY <4>3 DEF P256Key
        <4>5. Asserts(token.x5c[1].eku, "statusSigning") /\ result.verdict = "ok" /\ result.root = root'
          BY <3>3, <4>2, <4>4 DEF SignerIsAuthorized, LeafHasStatusSigningEku, HasEku, Asserts
        <4>6. TokenOutcome(token, key, Reference, job.now) \in {"Good", "NoStatus"}
          BY <3>3
        <4> HIDE DEF key, signer, token
        <4>7. ReadsGood(token, Reference, job.now)
          BY <1>3, <2>1, <3>1, <4>2, <4>6, GoodToken
        <4>8. token.by = token.x5c[1].key
          BY <4>2, <4>4 DEF signer
        <4>9. Proves(token, claim.list, issuer)
          BY <2>1, <4>5, <4>7, <4>8 DEF Proves, ReadsGood
        <4> QED
          BY <2>1, <2>3, <3>1, <4>9 DEF IsOfKnownStatus
      <3> QED
        BY <3>2, <3>3, PassingStatus
    <2> QED
      BY <2>2, <2>3
  <1> QED
    BY <1>1, <1>5, <1>6, <1>7

-----------------------------------------------------------------------------
(* A document passes only at its bar *)

LEMMA PassingDocument ==
  ASSUME VerifierInv, VerifierNext, Passes
  PROVE  /\ IsJob(job) /\ BeforeDocuments(job) = "ok" /\ doc \in 1..Len(Docs)
         /\ BeforeTrust = "ok" /\ BeforeStatus = "ok" /\ AfterStatus = "ok" /\ IsRootOfDoc(root')
PROOF
  <1>1. \A reason : ~Refuse(reason)
    <2>1. Len(claimed) \in Nat /\ claimed' # claimed
      BY DEF VerifierInv, ClaimedInv, IsSequence, Passes
    <2> QED
      BY <2>1 DEF Refuse
  <1>2. CASE Trust /\ root' = result.root /\ result.verdict = "ok" /\ Conclude(ResolvedStatus)
    <2>1. stage = "trust" /\ BeforeStatus = "ok" /\ AfterStatus = "ok"
      BY <1>1, <1>2 DEF Trust, Conclude
    <2>2. IsRootOfDoc(result.root)
      BY <1>2, <2>1, RootOfIssuer
    <2> QED
      BY <1>2, <2>1, <2>2 DEF VerifierInv, JobInv, DocInv
  <1>3. CASE StatusSigner /\ root' = root /\ stage = "status" /\ \E outcome : Conclude(outcome)
    <2>1. AfterStatus = "ok"
      BY <1>1, <1>3 DEF Conclude
    <2> QED
      BY <1>3, <2>1 DEF VerifierInv, JobInv, DocInv, StatusInv
  <1> QED
    BY <1>2, <1>3, PassingStatus

LEMMA TrustedForType ==
  ASSUME IsJob(job), BeforeDocuments(job) = "ok", doc \in 1..Len(Docs), BeforeTrust = "ok",
         IsMdoc => Mso(Doc).docType = Doc.docType, NEW r, IsRootOfDoc(r)
  PROVE  LET type   == IF IsMdoc THEN Mso(Doc).docType ELSE Vct(Doc)
             issuer == IssuerChain[1]
         IN  /\ r # Garbage /\ \E i \in DOMAIN RootsFor(type) : RootsFor(type)[i] = r
             /\ r = issuer \/
                  /\ issuer.ca = "none"
                  /\ IF IsMdoc THEN Asserts(issuer.eku, "mdlDS") ELSE type \in PidTypes => Asserts(issuer.qc, "QctPid")
PROOF
  <1> DEFINE type == IF IsMdoc THEN Mso(Doc).docType ELSE Vct(Doc)
             issuer == IssuerChain[1]
  <1>1. Role = job.role /\ (~IsMdoc => Doc # Garbage)
    BY TypedChain
  <1>2. type \in PidTypes => job.role = "Pid"
    <2>1. CASE IsMdoc
      <3>1. DocRole(Doc, job.role) # "mismatch"
        BY <2>1 DEF BeforeTrust, MdocBeforeTrust
      <3>2. type # Absent => ReconcileRole(job.role, type) # "mismatch"
        BY <2>1, <3>1 DEF DocRole
      <3>3. type # Absent
        BY <2>1 DEF BeforeTrust, MdocBeforeTrust
      <3> QED
        BY <3>2, <3>3 DEF ReconcileRole
    <2>2. CASE ~IsMdoc
      <3>1. SdJwtRole(Doc, job.role) # "mismatch"
        BY <1>1, <2>2 DEF BeforeTrust, SdJwtBeforeTrust
      <3> QED
        BY <2>2, <3>1 DEF SdJwtRole, ReconcileRole
    <2> QED
      BY <2>1, <2>2
  <1>3. RootsFor(type) = AnchorsFor(Role)
    BY <1>1, <1>2 DEF RootsFor, AnchorsFor
  <1>4. r # Garbage
    BY CertsAssumption DEF IsRootOfDoc
  <1>5. r = issuer \/ LeafHasPurpose(issuer, CredentialPurpose(Role))
    BY DEF IsRootOfDoc
  <1>6. issuer \in Certs /\ issuer.qc # Absent
    BY AbsentAssumption DEF IsRootOfDoc
  <1>7. ASSUME LeafHasPurpose(issuer, CredentialPurpose(Role))
        PROVE  /\ issuer.ca = "none"
               /\ IF IsMdoc THEN Asserts(issuer.eku, "mdlDS") ELSE type \in PidTypes => Asserts(issuer.qc, "QctPid")
    <2>1. CASE IsMdoc
      BY <1>7, <2>1 DEF CredentialPurpose, LeafHasPurpose, HasEku, IsNotCa, Asserts
    <2>2. CASE ~IsMdoc
      <3>1. IsNotCa(issuer) /\ HasRequiredQcStatements(issuer, Role)
        BY <1>7, <2>2 DEF CredentialPurpose, LeafHasPurpose
      <3>2. type \in PidTypes => issuer.qc # Unreadable /\ "QctPid" \in issuer.qc
        BY <1>1, <1>2, <3>1 DEF HasRequiredQcStatements
      <3> QED
        BY <1>6, <2>2, <3>1, <3>2 DEF IsNotCa, Asserts
    <2> QED
      BY <2>1, <2>2
  <1> QED
    BY <1>3, <1>4, <1>5, <1>7 DEF IsRootOfDoc

LEMMA SdJwtMeetsBar ==
  ASSUME IsJob(job), BeforeDocuments(job) = "ok", doc \in 1..Len(Docs), BeforeTrust = "ok",
         BeforeStatus = "ok", AfterStatus = "ok", ~IsMdoc, NEW r, IsRootOfDoc(r)
  PROVE  SdJwtIsSound(Doc)
PROOF
  <1> DEFINE nbf == Claim(Doc, "nbf")
             exp == Claim(Doc, "exp")
             kb == Doc.kb
  <1>1. IsSdJwt(Doc) /\ Doc # Garbage /\ job.now \in Int /\ job.anchors.now \in Int
    BY TypedChain, TypedJob
  <1>2. Doc.jws.by = Doc.jws.x5c[1].key
    <2>1. IssuerSignatureVerdict(Doc) = "ok"
      BY <1>1 DEF BeforeTrust, SdJwtBeforeTrust
    <2>2. IsSignedUnder(Doc.jws.x5c[1], Doc.jws.by)
      BY <2>1 DEF IssuerSignatureVerdict
    <2> QED
      BY <2>2 DEF IsSignedUnder, P256Key
  <1>3. (nbf # Absent => nbf <= 2 * job.now) /\ (exp # Absent => 2 * job.now < exp)
    <2> DEFINE from == NumericDate(nbf, "Up")
               until == NumericDate(exp, "Up")
    <2>1. SdJwtValidity(Doc, job.now) = "ok"
      BY DEF BeforeStatus, SdJwtBeforeStatus
    <2>2. /\ from # Garbage /\ until # Garbage
          /\ from # Absent => ~(job.now < from)
          /\ until # Absent => ~(job.now >= until)
      BY <2>1 DEF SdJwtValidity
    <2>3. nbf \in OrNone(Int) /\ exp \in OrNone(Int)
      BY <1>1 DEF IsSdJwt
    <2>4. ASSUME nbf # Absent PROVE nbf <= 2 * job.now
      <3>1. nbf \in Int
        BY <2>2, <2>3, <2>4 DEF NumericDate, IsValue, OrNone
      <3>2. from = RoundSeconds(nbf, "Up") /\ from \in Int
        BY <2>2, <3>1, DecodedAssumption DEF NumericDate, RoundNumericDate, RoundSeconds, IsValue
      <3> HIDE DEF nbf, from
      <3>3. from <= job.now
        BY <1>1, <2>2, <3>2, DecodedAssumption
      <3>4. from = (nbf + 1) \div 2
        BY <3>1, <3>2, RoundedUp
      <3> QED
        BY <1>1, <3>1, <3>3, <3>4
    <2>5. ASSUME exp # Absent PROVE 2 * job.now < exp
      <3>1. exp \in Int
        BY <2>2, <2>3, <2>5 DEF NumericDate, IsValue, OrNone
      <3>2. until = RoundSeconds(exp, "Up") /\ until \in Int
        BY <2>2, <3>1, DecodedAssumption DEF NumericDate, RoundNumericDate, RoundSeconds, IsValue
      <3>3. job.now < until
        BY <1>1, <2>2, <3>2, DecodedAssumption
      <3> HIDE DEF exp, until
      <3> QED
        BY <1>1, <3>1, <3>2, <3>3, RoundedUp
    <2> QED
      BY <2>4, <2>5
  <1>4. Doc.jws.x5c[1].from <= job.anchors.now /\ job.anchors.now <= Doc.jws.x5c[1].to
    BY DEF IsRootOfDoc, CertIsValidAt, LeafTime, IssuerChain, Chain
  <1>5. ASSUME job.request # Absent
        PROVE  /\ kb.by = Claim(Doc, "cnf") /\ kb.sdHash = <<Doc.jws, Doc.disclosures>>
               /\ kb.aud = job.request.audience /\ kb.nonce = job.request.nonce
               /\ kb.iat \in (job.now - KbSkew)..(job.now + KbSkew)
    <2>1. HolderBinding(Doc, <<job.request.audience, job.request.nonce>>, job.now) = "ok"
      BY <1>5 DEF AfterStatus, SdJwtAfterStatus, Challenge
    <2>2. <<job.request.audience, job.request.nonce>> # Absent
      BY <1>5 DEF IsJob
    <2> QED
      BY <1>1, <2>1, <2>2, SkewAssumption DEF HolderBinding, SdHash, Distance, IsSdJwt
  <1> QED
    BY <1>2, <1>3, <1>4, <1>5 DEF SdJwtIsSound

\* Of a namespace named once every item is read, or the counts differ.
LEMMA AllAreRead ==
  ASSUME NEW d, d.nameSpaces # Garbage, NEW i \in DOMAIN d.nameSpaces, IsNamedOnce(d.nameSpaces, i),
         IsSequence(d.nameSpaces[i].items), d.nameSpaces[i].ns \in DOMAIN RawItems(d),
         Cardinality(DOMAIN RawItems(d)[d.nameSpaces[i].ns]) = Len(d.nameSpaces[i].items)
  PROVE  \A j \in DOMAIN d.nameSpaces[i].items : IsRead(d.nameSpaces[i].items[j])
PROOF
  <1> DEFINE items == d.nameSpaces[i].items
             read == DOMAIN RawItems(d)[d.nameSpaces[i].ns]
             second == [at \in read |-> at[2]]
  <1>1. Len(items) \in Nat /\ DOMAIN items = 1..Len(items)
    BY DEF IsSequence
  <1>2. read = {at \in {<<i, j>> : j \in DOMAIN items} : IsRead(items[at[2]])}
    BY ReadItems DEF IsNamedOnce
  <1> HIDE DEF read
  <1>3. \A at \in read : at = <<i, at[2]>> /\ at[2] \in DOMAIN items /\ IsRead(items[at[2]])
    BY <1>2
  <1>4. second \in Injection(read, 1..Len(items))
    BY <1>1, <1>3 DEF Injection, IsInjective
  <1>5. IsFiniteSet(1..Len(items)) /\ Cardinality(1..Len(items)) = Len(items)
    BY <1>1, FS_Interval
  <1>6. Cardinality(read) = Len(items)
    BY DEF read
  <1>7. second \in Surjection(read, 1..Len(items))
    BY <1>4, <1>5, <1>6, FS_Injection
  <1>8. ASSUME NEW j \in DOMAIN items PROVE IsRead(items[j])
    <2>1. PICK at \in read : second[at] = j
      BY <1>1, <1>7 DEF Surjection
    <2> QED
      BY <1>3, <2>1
  <1> QED
    BY <1>8

LEMMA ItemsAreSigned ==
  ASSUME NEW d, ValueDigestsVerdict(d, RawItems(d)) = "ok", NEW i \in DOMAIN d.nameSpaces,
         IsSequence(d.nameSpaces[i].items), NEW j \in DOMAIN d.nameSpaces[i].items,
         IsRead(d.nameSpaces[i].items[j]) \/ IsNamedOnce(d.nameSpaces, i)
  PROVE  IsDigested(d.nameSpaces[i].ns, d.nameSpaces[i].items[j], Mso(d))
PROOF
  <1> DEFINE ns == d.nameSpaces[i].ns
             item == d.nameSpaces[i].items[j]
             raw == RawItems(d)
  <1>1. /\ d.nameSpaces # Garbage /\ ns \in DOMAIN raw
        /\ Cardinality(DOMAIN raw[ns]) = Len(d.nameSpaces[i].items)
        /\ \A at \in DOMAIN raw[ns] : ItemIsSigned(ns, raw[ns][at], Mso(d))
    BY DEF ValueDigestsVerdict
  <1>2. IsRead(item)
    BY <1>1, AllAreRead
  <1>3. <<i, j>> \in DOMAIN raw[ns] /\ raw[ns][<<i, j>>] = item
    BY <1>1, <1>2, ReadItems
  <1> HIDE DEF raw
  <1>4. ItemIsSigned(ns, item, Mso(d))
    BY <1>1, <1>3
  <1> QED
    BY <1>4 DEF ItemIsSigned, IsDigested, Digest

LEMMA MdocMeetsBar ==
  ASSUME IsJob(job), BeforeDocuments(job) = "ok", doc \in 1..Len(Docs), BeforeTrust = "ok",
         BeforeStatus = "ok", AfterStatus = "ok", IsMdoc, NEW r, IsRootOfDoc(r)
  PROVE  MdocIsSound(Doc) /\ Mso(Doc).docType = Doc.docType
PROOF
  <1> DEFINE info == Mso(Doc).validityInfo
             leaf == DocChain(Doc)[1]
  <1>1. Doc = Docs[doc] /\ doc \in DOMAIN Docs /\ job.now \in Int /\ leaf \in Certs /\ leaf = IssuerChain[1]
    BY TypedDocs, TypedJob DEF Doc, IsRootOfDoc, IssuerChain
  <1>2. MdocAfterStatus(Doc, RawItems(Doc), Transcript) = "ok"
    BY <1>1 DEF AfterStatus, ScanRawIssuerItems
  <1>3. MdocBeforeTrust(Doc, job.role, job.now) = "ok" /\ MdocBeforeStatus(Doc, job.now) = "ok"
    BY DEF BeforeTrust, BeforeStatus
  <1>4. Doc.issuerAuth.by = leaf.key
    <2>1. IsSignedUnder(leaf, Doc.issuerAuth.by)
      BY <1>3 DEF MdocBeforeTrust
    <2> QED
      BY <2>1 DEF IsSignedUnder, P256Key
  <1>5. Mso(Doc).docType = Doc.docType /\ ValueDigestsVerdict(Doc, RawItems(Doc)) = "ok"
        /\ DeviceBindingVerdict(Doc, Transcript) = "ok"
    BY <1>2 DEF MdocAfterStatus
  <1>6. /\ ParseRfc3339(info.signed) \in Int /\ ParseRfc3339(info.signed) = Counted(info.signed)
        /\ ParseRfc3339(info.from) \in Int /\ ParseRfc3339(info.from) = Counted(info.from)
        /\ ParseRfc3339(info.until) \in Int /\ ParseRfc3339(info.until) = Counted(info.until)
    BY TypedClaim, ParsedIsCounted
  <1>7. Counted(info.signed) <= job.now /\ Counted(info.signed) <= Counted(info.from)
    <2>1. ValidityInfoVerdict(Doc, job.now) = "ok"
      BY <1>3 DEF MdocBeforeTrust
    <2> QED
      BY <1>1, <1>6, <2>1 DEF ValidityInfoVerdict, Signed
  <1>8. Counted(info.from) <= job.now /\ job.now <= Counted(info.until)
    BY <1>1, <1>3, <1>6 DEF MdocBeforeStatus
  <1>9. leaf.from <= Counted(info.signed) /\ Counted(info.signed) <= leaf.to
    BY <1>1, <1>6, DecodedAssumption DEF IsRootOfDoc, CertIsValidAt, LeafTime, Signed
  <1>10. /\ Doc.deviceSigned.signature.by = Mso(Doc).deviceKey
         /\ Doc.deviceSigned.signature.over = <<SessionOf(job.request), Doc.docType, Doc.deviceSigned.nameSpaces>>
    BY <1>5 DEF DeviceBindingVerdict, DeviceAuthentication, Transcript, Handover, SessionOf
  <1>11. \A i \in DOMAIN Doc.nameSpaces : IsSequence(Doc.nameSpaces[i].items)
    <2>1. Doc \in Range(Docs) /\ IsMdocResponse(job.presentation)
      BY <1>1, TypedJob DEF Range
    <2>2. Doc.nameSpaces # Garbage
      BY <1>5 DEF ValueDigestsVerdict
    <2> QED
      BY <2>1, <2>2, TypedDocs DEF IsMdocResponse
  <1>12. \A i \in DOMAIN Doc.nameSpaces : \A j \in DOMAIN Doc.nameSpaces[i].items :
           IsRead(Doc.nameSpaces[i].items[j]) \/ IsNamedOnce(Doc.nameSpaces, i) =>
             IsDigested(Doc.nameSpaces[i].ns, Doc.nameSpaces[i].items[j], Mso(Doc))
    BY <1>5, <1>11, ItemsAreSigned
  <1> QED
    BY <1>4, <1>5, <1>6, <1>7, <1>8, <1>9, <1>10, <1>12 DEF MdocIsSound

LEMMA PassedBar ==
  ASSUME VerifierInv, VerifierNext, Passes
  PROVE  MeetsBar
PROOF
  <1>1. CASE IsMdoc
    BY <1>1, PassingDocument, MdocMeetsBar, TrustedForType DEF MeetsBar
  <1>2. CASE ~IsMdoc
    BY <1>2, PassingDocument, SdJwtMeetsBar, TrustedForType DEF MeetsBar
  <1> QED
    BY <1>1, <1>2

LEMMA SameSound ==
  ASSUME job' = job, NEW d
  PROVE  IsSound(d)' = IsSound(d)
PROOF
  <1>1. IsMdoc' = IsMdoc
    BY SameJob
  <1>2. SessionOf(job.request)' = SessionOf(job.request)
    BY DEF SessionOf
  <1>3. MdocIsSound(d)' = MdocIsSound(d)
    BY <1>2, Zenon DEF MdocIsSound
  <1>4. SdJwtIsSound(d)' = SdJwtIsSound(d)
    BY Zenon DEF SdJwtIsSound
  <1> QED
    BY <1>1, <1>3, <1>4, Zenon DEF IsSound

\* The documents that have passed meet their bar, the one that passes now among them.
LEMMA PassedKept ==
  ASSUME PassedInv, UNCHANGED <<job, claimed, shown>>
  PROVE  PassedInv'
PROOF
  <1>1. IsMdoc' = IsMdoc /\ Docs' = Docs
    BY SameJob
  <1>2. \A d : IsSound(d)' = IsSound(d) /\ ReadOf(d)' = ReadOf(d)
    BY <1>1, SameSound DEF ReadOf
  <1> QED
    BY <1>1, <1>2 DEF PassedInv

LEMMA NoneHasPassed ==
  claimed = <<>> /\ shown = {} => PassedInv
  BY DEF PassedInv

LEMMA PassedStep ==
  ASSUME VerifierInv, PassedInv, VerifierStep
  PROVE  PassedInv'
PROOF
  <1>1. CASE UNCHANGED <<job, claimed, shown>>
    BY <1>1, PassedKept
  <1>2. CASE job' = job /\ claimed' = Append(claimed, ClaimedIssuer) /\ shown' = shown \union DocElements
    <2>1. /\ Len(claimed') = Len(claimed) + 1 /\ Len(claimed) \in Nat /\ DOMAIN claimed = 1..Len(claimed)
          /\ DOMAIN claimed' = DOMAIN claimed \union {Len(claimed) + 1}
      BY <1>2, OneMore DEF VerifierInv, ClaimedInv
    <2>2. Passes /\ VerifierNext
      BY <2>1 DEF Passes, VerifierNext
    <2>3. IsSound(Doc)
      <3>1. CASE IsMdoc
        BY <2>2, <3>1, PassingDocument, MdocMeetsBar DEF IsSound
      <3>2. CASE ~IsMdoc
        BY <2>2, <3>2, PassingDocument, SdJwtMeetsBar DEF IsSound
      <3> QED
        BY <3>1, <3>2
    <2>4. doc = Len(claimed) + 1
      <3>1. stage \in {"trust", "status"} /\ doc \in Nat
        BY <2>2, PassingStatus DEF Trust, VerifierInv
      <3> QED
        BY <2>1, <3>1 DEF VerifierInv, DocInv
    <2>5. \A n \in DOMAIN claimed' : IsSound(Docs[n])
      BY <2>1, <2>3, <2>4 DEF PassedInv, Doc
    <2>6. DocElements = ReadOf(Docs[doc])
      <3>1. doc \in DOMAIN Docs
        BY <2>2, PassingDocument, TypedDocs
      <3> QED
        BY <3>1 DEF DocElements, ReadOf, ScanRawIssuerItems
    <2>7. shown' = UNION {ReadOf(Docs[n]) : n \in DOMAIN claimed'}
      BY <1>2, <2>1, <2>4, <2>6 DEF PassedInv
    <2>8. IsMdoc' = IsMdoc /\ Docs' = Docs
      BY <1>2, SameJob
    <2>9. \A d : IsSound(d)' = IsSound(d) /\ ReadOf(d)' = ReadOf(d)
      BY <1>2, <2>8, SameSound DEF ReadOf
    <2> QED
      BY <2>5, <2>7, <2>8, <2>9 DEF PassedInv
  <1> DEFINE Passed == claimed' = Append(claimed, ClaimedIssuer) /\ shown' = shown \union DocElements
  <1>3. \A outcome : Conclude(outcome) => job' = job /\ (Passed \/ UNCHANGED <<claimed, shown>>)
    BY DEF Conclude, Refuse
  <1>4. job' = job /\ (Passed \/ UNCHANGED <<claimed, shown>>)
    BY <1>3 DEF VerifierStep, StartDocument, Search, Trust, StatusSigner, ListSigner, Refuse
  <1> QED
    BY <1>1, <1>2, <1>4

LEMMA AcceptedDocuments ==
  ASSUME VerifierInv, PassedInv, verdict.valid
  PROVE  \A n \in DOMAIN Docs : IsSound(Docs[n])
PROOF
  <1>1. stage # "idle" /\ Len(claimed) = Len(Docs) /\ IsSequence(claimed) /\ IsJob(job)
    BY DEF VerifierInv, IdleInv, ValidInv, NoVerdict, ClaimedInv, JobInv
  <1>2. DOMAIN claimed = 1..Len(claimed)
    BY <1>1 DEF IsSequence
  <1> QED
    BY <1>1, <1>2 DEF PassedInv

-----------------------------------------------------------------------------
(* The call *)

\* Before a call, and after it.
LEMMA InitVerifierInv == VerifierInit => VerifierInv
PROOF
  <1>1. ASSUME VerifierInit PROVE VerifierInv
    <2>1. ChainInit /\ ChainInv
      BY <1>1, InitChainInv DEF VerifierInit
    <2>2. LeafInv
      BY <2>1 DEF LeafInv, ChainInit, NoResult
    <2> QED
      BY <1>1, <2>1, <2>2, IdleHolds DEF VerifierInit
  <1> QED
    BY <1>1

LEMMA DeliverKeeps ==
  ASSUME VerifierInv, Deliver
  PROVE  VerifierInv'
PROOF
  <1>1. VerifierInit'
    BY DEF Deliver, VerifierInit, ChainInit
  <1> QED
    BY <1>1, InitVerifierInv, PTL

LEMMA StutterKeeps ==
  ASSUME VerifierInv, UNCHANGED verifierVars
  PROVE  VerifierInv'
PROOF
  <1>1. UNCHANGED <<chainVars, job, stage, doc, root, status, claimed, shown, verdict>>
    BY DEF verifierVars
  <1>2. (ChainInv /\ LeafInv)' /\ result' = result
    BY <1>1, SearchUnchanged DEF VerifierInv, chainVars
  <1>3. (ClaimedInv /\ ShownIsSigned)'
    BY <1>1, ClaimedKept DEF VerifierInv
  <1>4. /\ Docs' = Docs /\ IsMdoc' = IsMdoc /\ QueryIsMet' = QueryIsMet /\ ListCall' = ListCall
        /\ NeedsGate' = NeedsGate /\ ListIsSigned' = ListIsSigned /\ IssuerCall' = IssuerCall
        /\ SignerCall' = SignerCall /\ NeedsSignerSearch' = NeedsSignerSearch /\ BeforeStatus' = BeforeStatus
        /\ BeforeDocuments(job)' = BeforeDocuments(job) /\ BeforeTrust' = BeforeTrust
        /\ AnchorsFor(Role)' = AnchorsFor(Role) /\ call' = call
    BY <1>1, SameJob, SameDoc DEF AnchorsFor, chainVars
  <1>5. IsRootOfDoc(root)' = IsRootOfDoc(root)
    BY <1>1, SameDoc, SameJob DEF IsRootOfDoc, AnchorsFor, CredentialPurpose
  <1>6. QualifiedIsEarned'
    BY <1>1, <1>2, <1>4 DEF VerifierInv, QualifiedIsEarned
  <1>7. (IdleInv /\ JobInv /\ DocInv /\ TrustInv /\ StatusInv /\ ListInv /\ ValidInv /\ VerdictType)'
    BY <1>1, <1>4, <1>5
       DEF VerifierInv, IdleInv, JobInv, DocInv, TrustInv, StatusInv, ListInv, ValidInv, VerdictType
  <1> QED
    BY <1>1, <1>2, <1>3, <1>6, <1>7 DEF VerifierInv

-----------------------------------------------------------------------------
(* Theorems *)

(* A call keeps its invariant: what was asked of the search under way, what the documents that
   passed left behind, what the verdict rests on (verify_inner, verify_response). *)
THEOREM VerifierInvariance == VerifierSpec => []VerifierInv
PROOF
  <1>1. VerifierInv /\ [VerifierNext]_verifierVars => VerifierInv'
    BY VerifyKeeps, StartDocumentKeeps, SearchKeeps, TrustKeeps, StatusSignerKeeps, ListSignerKeeps,
       DeliverKeeps, StutterKeeps, JobsAssumption DEF VerifierNext, VerifierStep
  <1> QED
    BY <1>1, InitVerifierInv, PTL DEF VerifierSpec

(* The state of a call stays one: stages, status, verdict and search have their types. *)
THEOREM VerifierTypeIsKept == VerifierSpec => []VerifierTypeOK
PROOF
  <1>1. VerifierInv => VerifierTypeOK
    BY ChainInvType DEF VerifierInv, VerifierTypeOK, VerdictType
  <1> QED
    BY <1>1, VerifierInvariance, PTL

(* Whatever is reported as disclosed by an mdoc was signed by the issuer of a document that has
   passed, item by item, whatever the response looks like (scan_raw_issuer_items). *)
THEOREM ShownStaysSigned == VerifierSpec => []ShownIsSigned
PROOF
  <1>1. VerifierInv => ShownIsSigned
    BY DEF VerifierInv
  <1> QED
    BY <1>1, VerifierInvariance, PTL

(* A presentation is called qualified only on a list that is current by the calendar and signed
   under a scheme anchor, and only if each issuer was granted when it issued (qualified_status_for). *)
THEOREM QualifiedStaysEarned == VerifierSpec => []QualifiedIsEarned
PROOF
  <1>1. VerifierInv => QualifiedIsEarned
    BY DEF VerifierInv
  <1> QED
    BY <1>1, VerifierInvariance, PTL

(* What passes bound to a request answers an entry of its query (evaluate_single). *)
THEOREM ValidAnswersTheQuery == VerifierSpec => []AnswersTheQuery
PROOF
  <1>1. VerifierInv => AnswersTheQuery
    BY DEF VerifierInv, ValidInv, QueryIsMet, AnswersTheQuery
  <1> QED
    BY <1>1, VerifierInvariance, PTL

(* The paths a call searches for, its issuers', status signers' and list signer's, are linked
   (resolve_chain, verify_chain). *)
THEOREM VerifierPathIsLinked == VerifierSpec => []PathIsLinked
PROOF
  <1>1. VerifierInv => PathIsLinked
    BY DEF VerifierInv, ChainInv
  <1> QED
    BY <1>1, VerifierInvariance, PTL

\* What a step of a call does to its search: one of the search's own steps, or its end.
LEMMA SearchesStep ==
  ASSUME VerifierInv, [VerifierNext]_verifierVars
  PROVE  ChainStep \/ ChainInit'
PROOF
  <1>1. ASSUME UNCHANGED chainVars PROVE ChainStep
    BY <1>1 DEF ChainStep
  <1>2. ASSUME NEW reason, Refuse(reason) PROVE ChainStep
    BY <1>1, <1>2 DEF Refuse
  <1>3. ASSUME stage \in {"trust", "status"}, NEW elements, Complete(elements) PROVE ChainStep
    <2>1. CASE UNCHANGED chainVars
      BY <1>1, <2>1
    <2>2. CASE ListIsSigned /\ VerifyChain(ListCall)
      <3>1. IsCall(ListCall)
        BY <1>3, <2>2, TypedListCall DEF VerifierInv, JobInv, IsCall, CertLists
      <3> QED
        BY <2>2, <3>1 DEF ChainStep
    <2> QED
      BY <1>3, <2>1, <2>2 DEF Complete, ListCall
  <1>4. ASSUME stage \in {"trust", "status"}, NEW outcome, Conclude(outcome) PROVE ChainStep
    BY <1>1, <1>2, <1>3, <1>4 DEF Conclude
  <1>5. CASE \E j \in Jobs : Verify(j)
    BY <1>1, <1>5 DEF Verify
  <1>6. CASE StartDocument
    <2>1. CASE \E reason : Refuse(reason)
      BY <1>2, <2>1
    <2>2. CASE BeforeTrust = "ok" /\ AnchorsFor(Role) # Absent /\ VerifyChain(IssuerCall)
      <3>1. IsJob(job) /\ BeforeDocuments(job) = "ok" /\ doc \in 1..Len(Docs)
        BY <1>6 DEF StartDocument, VerifierInv, JobInv, DocInv
      <3>2. IsCall(IssuerCall)
        BY <2>2, <3>1, TypedChain DEF IssuerCall, IsCall, CertLists
      <3> QED
        BY <2>2, <3>2 DEF ChainStep
    <2> QED
      BY <1>6, <2>1, <2>2 DEF StartDocument, Resolve, IssuerCall
  <1>7. CASE Trust
    <2>1. stage = "trust"
      BY <1>7 DEF Trust
    <2>2. CASE \E reason : Refuse(reason)
      BY <1>2, <2>2
    <2>3. CASE \E outcome : Conclude(outcome)
      BY <1>4, <2>1, <2>3
    <2>4. CASE NeedsSignerSearch /\ VerifyChain(SignerCall)
      <3>1. /\ IsJob(job) /\ BeforeDocuments(job) = "ok" /\ doc \in 1..Len(Docs)
            /\ BeforeTrust = "ok" /\ AnchorsFor(Role) # Absent
        BY <2>1 DEF VerifierInv, JobInv, DocInv
      <3>2. IsCall(SignerCall)
        BY <2>4, <3>1, TypedChain, TypedSigner DEF SignerCall, IsCall, CertLists
      <3> QED
        BY <2>4, <3>2 DEF ChainStep
    <2> QED
      BY <1>7, <2>2, <2>3, <2>4 DEF Trust, Resolve, SignerCall
  <1>8. CASE StatusSigner
    BY <1>4, <1>8 DEF StatusSigner
  <1>9. CASE Search \/ ListSigner
    BY <1>1, <1>9 DEF Search, ListSigner, ChainStep
  <1>10. CASE Deliver
    BY <1>10 DEF Deliver, ChainInit
  <1>11. CASE UNCHANGED verifierVars
    BY <1>1, <1>11 DEF verifierVars
  <1> QED
    BY <1>5, <1>6, <1>7, <1>8, <1>9, <1>10, <1>11 DEF VerifierNext, VerifierStep

LEMMA NoPathYet == ChainInit => PathMeetsConstraints /\ SearchInv
  BY InitSearch DEF ChainInit, NoResult, PathMeetsConstraints

\* What holds of a search in all its steps holds of the searches of a call.
LEMMA CallsSearchWell == VerifierSpec => [](PathMeetsConstraints /\ SearchInv)
PROOF
  <1>1. VerifierInit => PathMeetsConstraints /\ SearchInv
    BY NoPathYet DEF VerifierInit
  <1>2. ASSUME VerifierInv, PathMeetsConstraints /\ SearchInv, [VerifierNext]_verifierVars
        PROVE  (PathMeetsConstraints /\ SearchInv)'
    <2>1. ChainInv
      BY <1>2 DEF VerifierInv
    <2>2. CASE ChainStep
      BY <1>2, <2>1, <2>2, ConstraintsKept, SearchKept
    <2>3. CASE ChainInit'
      <3>1. (ChainInit => PathMeetsConstraints /\ SearchInv)'
        BY NoPathYet, PTL
      <3> QED
        BY <2>3, <3>1
    <2> QED
      BY <1>2, <2>2, <2>3, SearchesStep
  <1> QED
    BY <1>1, <1>2, VerifierInvariance, PTL DEF VerifierSpec

(* Every path a call rests on, its issuers', its status signers' and its list signer's, leads from
   an anchor to the leaf and meets the constraints stated along it: no search is handed a chain or
   anchors verify_chain could not judge (resolve_chain, enforce_path_constraints). *)
THEOREM VerifierPathIsValid == VerifierSpec => []PathIsValid
PROOF
  <1>1. PathIsLinked /\ PathMeetsConstraints => PathIsValid
    BY DEF PathIsValid
  <1> QED
    BY <1>1, VerifierPathIsLinked, CallsSearchWell, PTL

(* A search of a call, whichever its purpose, ends at an anchor exactly if a route leads to one,
   unless its budget ran out (walk, resolve_chain). *)
THEOREM VerifierSearchIsExhaustive == VerifierSpec => []SearchIsExhaustive
PROOF
  <1>1. SearchInv => SearchIsExhaustive
    BY DEF SearchInv
  <1> QED
    BY <1>1, CallsSearchWell, PTL

(* The reason a search of a call is refused for is one that a certificate within its reach was
   turned down for, and "no issuer" only where there was none such: one search leaves no reason to
   the next (record_more_specific, resolve_chain). *)
THEOREM VerifierReasonIsKept == VerifierSpec => []ReasonIsKept
PROOF
  <1>1. SearchInv => ReasonIsKept
    BY DEF SearchInv
  <1> QED
    BY <1>1, CallsSearchWell, PTL

(* No document passes on a status in doubt (resolve_status_outcome, verify_status_list_token). *)
THEOREM StatusStaysKnown == VerifierSpec => StatusIsKnown
PROOF
  <1>1. VerifierInv /\ [VerifierNext]_verifierVars => [Passes => IsOfKnownStatus]_verifierVars
    BY KnownStatus
  <1> QED
    BY <1>1, VerifierInvariance, PTL DEF VerifierSpec, StatusIsKnown

(* No document of any presentation passes short of its bar: issuer, dates, digests, holder
   (verify_issuer_signed, verify_value_digests, verify_device_binding, check_holder_binding). *)
THEOREM DocumentsMeetTheBar == VerifierSpec => DocumentMeetsBar
PROOF
  <1>1. VerifierInv /\ [VerifierNext]_verifierVars => [Passes => MeetsBar]_verifierVars
    BY PassedBar
  <1> QED
    BY <1>1, VerifierInvariance, PTL DEF VerifierSpec, DocumentMeetsBar

(* What is accepted is sound in every document, not only in the last one looked at: when a call
   is over and its verdict is valid, each document of the response meets its bar, issuer,
   dates, digests and holder (verify_inner, which stops at the first refusal). *)
THEOREM AcceptedIsSound == VerifierSpec => [](verdict.valid => \A n \in DOMAIN Docs : IsSound(Docs[n]))
PROOF
  <1>1. VerifierInit => PassedInv
    BY NoneHasPassed DEF VerifierInit
  <1>2. VerifierInv /\ PassedInv /\ [VerifierNext]_verifierVars => PassedInv'
    <2> SUFFICES ASSUME VerifierInv, PassedInv, [VerifierNext]_verifierVars PROVE PassedInv'
      OBVIOUS
    <2>1. ASSUME NEW j \in Jobs, Verify(j) PROVE PassedInv'
      <3>1. claimed' = <<>> /\ shown' = {}
        BY <2>1 DEF Verify, VerifierInv, IdleInv
      <3> QED
        BY <3>1 DEF PassedInv
    <2>2. CASE VerifierStep
      BY <2>2, PassedStep
    <2>3. CASE Deliver
      <3>1. claimed' = <<>> /\ shown' = {}
        BY <2>3 DEF Deliver
      <3> QED
        BY <3>1 DEF PassedInv
    <2>4. CASE UNCHANGED verifierVars
      BY <2>4, PassedKept DEF verifierVars
    <2> QED
      BY <2>1, <2>2, <2>3, <2>4 DEF VerifierNext
  <1>3. VerifierInv /\ PassedInv => (verdict.valid => \A n \in DOMAIN Docs : IsSound(Docs[n]))
    BY AcceptedDocuments
  <1> QED
    BY <1>1, <1>2, <1>3, VerifierInvariance, PTL DEF VerifierSpec
==============================================================================
