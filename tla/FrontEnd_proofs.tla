--------------------------- MODULE FrontEnd_proofs ---------------------------
(* Theorems about the front end of FrontEnd and TapePlayer, and their        *)
(* proofs.                                                                   *)
EXTENDS FrontEnd, SequenceTheorems, WellFoundedInduction, TLAPS

-----------------------------------------------------------------------------
(* Arithmetic of a change of clock.                                        *)

Clocks == {Hz48, Hz128}

LEMMA ClockFacts ==
  /\ Clocks \subseteq Nat /\ Hz48 \in Clocks /\ Hz128 \in Clocks
  /\ Hz48 > 1 /\ Hz48 < Hz128 /\ 2 * Hz128 < 3 * Hz48
  /\ Hz48 \div 2 \in Nat /\ Hz48 = 2 * (Hz48 \div 2)
  /\ Hz128 \div 2 \in Nat
  /\ 2 * (Hz128 \div 2) <= Hz128 /\ Hz128 <= 2 * (Hz128 \div 2) + 1
BY ClockAssumption DEF Clocks

LEMMA Division ==
  ASSUME NEW a \in Nat, NEW b \in Nat, b > 0
  PROVE  a \div b \in Nat /\ b * (a \div b) <= a /\ a < b * (a \div b) + b
OBVIOUS

\* Products of naturals order as their factors do.
LEMMA Ordered ==
  ASSUME NEW a \in Nat, NEW b \in Nat, NEW c \in Nat, c > 0
  PROVE  /\ b * a \in Nat /\ b * c = c * b
         /\ a < b <=> c * a < c * b
         /\ a < b <=> c * a + c <= c * b
         /\ c * (a + 1) = c * a + c
<1>1. a < b => c * a + c <= c * b
  <2>1. SUFFICES ASSUME a < b PROVE c * a + c <= c * b
    OBVIOUS
  <2>2. c * (a + 1) = c * a + c /\ b - (a + 1) \in Nat
    BY <2>1
  <2>3. c * (b - (a + 1)) >= 0 /\ c * b = c * (a + 1) + c * (b - (a + 1))
    BY <2>2
  <2> QED BY <2>2, <2>3
<1>2. ~(a < b) => c * b <= c * a
  <2>1. SUFFICES ASSUME ~(a < b) PROVE c * b <= c * a
    OBVIOUS
  <2>2. c * (a - b) >= 0 /\ c * a = c * b + c * (a - b)
    BY <2>1
  <2> QED BY <2>2
<1>3. c * a \in Nat /\ c * b \in Nat /\ b * a \in Nat
  OBVIOUS
<1> QED BY <1>1, <1>2, <1>3

\* How many ticks of clock hz a pulse, or a pause, of n T-states of the file
\* may last.  In the clock of a 48K a pulse is exact; a pause has been rounded
\* up, and back once.
RightPulse(n, t, hz) ==
  /\ t \in Nat
  /\ 2 * (t * Hz48 - n * hz) <= Hz48 /\ 2 * (t * Hz48 - n * hz) >= -Hz48
RightPause(n, t, hz) ==
  /\ t \in Nat
  /\ \/ hz = Hz48 /\ t \in {n, n + 1}
     \/ hz = Hz128 /\ t * Hz48 - n * hz \in 0 .. Hz48 - 1
     \/ hz = Hz128 /\ \E s \in {n, n + 1} : RightPulse(s, t, hz)

RightLength(s, hz) ==
  IF s.pause THEN RightPause(s.nominal, s.ticks, hz)
             ELSE RightPulse(s.nominal, s.ticks, hz)

LEMMA PulseExact ==
  ASSUME NEW n \in Nat, NEW t \in Nat
  PROVE  RightPulse(n, t, Hz48) <=> t = n
<1>1. t < n <=> Hz48 * t + Hz48 <= Hz48 * n
  BY Ordered, ClockFacts
<1>2. n < t <=> Hz48 * n + Hz48 <= Hz48 * t
  BY Ordered, ClockFacts
<1>3. t * Hz48 = Hz48 * t /\ n * Hz48 = Hz48 * n /\ Hz48 * t \in Nat /\ Hz48 * n \in Nat
  BY Ordered, ClockFacts
<1> DEFINE x == Hz48 * t
           y == Hz48 * n
<1>4. RightPulse(n, t, Hz48) <=> 2 * (x - y) <= Hz48 /\ 2 * (x - y) >= -Hz48
  BY <1>3 DEF RightPulse
<1>5. t = n => x = y
  OBVIOUS
<1>6. /\ t < n <=> x + Hz48 <= y
      /\ n < t <=> y + Hz48 <= x
      /\ x \in Nat /\ y \in Nat
  BY <1>1, <1>2, <1>3
<1> HIDE DEF x, y
<1> QED BY <1>4, <1>5, <1>6, ClockFacts

LEMMA PulseDecoded ==
  ASSUME NEW n \in Nat, n > 0, NEW hz \in Clocks
  PROVE  RightPulse(n, PulseTicks(n, hz), hz)
<1> DEFINE h == Hz48 \div 2
           y == n * hz
           a == y + h - 1
           q == a \div Hz48
           x == Hz48 * q
<1>1. y \in Nat /\ y >= Hz48
  <2>1. hz \in Nat /\ hz >= Hz48
    BY ClockFacts DEF Clocks
  <2>2. n * hz \in Nat /\ hz * (n - 1) >= 0 /\ n * hz = hz * (n - 1) + hz
    BY <2>1
  <2> QED BY <2>1, <2>2, ClockFacts
<1>2. h \in Nat /\ Hz48 = 2 * h /\ Hz48 > 1 /\ Hz48 \in Nat
  BY ClockFacts
<1>3. a \in Nat
  <2> HIDE DEF y, h
  <2> QED BY <1>1, <1>2
<1>4. q \in Nat /\ x <= a /\ a < x + Hz48 /\ x \in Nat
  <2> HIDE DEF a
  <2> QED BY <1>2, <1>3, Division
<1>5. q # 0
  <2>1. q = 0 => x = 0
    BY <1>2
  <2> HIDE DEF x, q, y, h
  <2> QED BY <1>1, <1>2, <1>4, <2>1
<1>6. PulseTicks(n, hz) = q
  BY <1>5 DEF PulseTicks
<1>7. q * Hz48 = x
  BY <1>2, <1>4
<1>8. RightPulse(n, q, hz) <=> 2 * (x - y) <= Hz48 /\ 2 * (x - y) >= -Hz48
  BY <1>4, <1>7 DEF RightPulse
<1> HIDE DEF x, q, y, h
<1> QED BY <1>1, <1>2, <1>4, <1>6, <1>8

LEMMA PauseDecoded ==
  ASSUME NEW n \in Nat, NEW hz \in Clocks
  PROVE  RightPause(n, PauseTicks(n, hz), hz)
<1> DEFINE y == n * hz
           a == y + Hz48 - 1
           q == a \div Hz48
           x == Hz48 * q
<1>1. hz \in Nat /\ Hz48 \in Nat /\ Hz48 > 1 /\ hz \in {Hz48, Hz128}
  BY ClockFacts DEF Clocks
<1>2. y \in Nat
  BY <1>1
<1>3. a \in Nat
  <2> HIDE DEF y
  <2> QED BY <1>1, <1>2
<1>4. q \in Nat /\ x <= a /\ a < x + Hz48 /\ x \in Nat /\ x = q * Hz48
  <2>1. q \in Nat /\ x <= a /\ a < x + Hz48
    <3> HIDE DEF a
    <3> QED BY <1>1, <1>3, Division
  <2>2. x \in Nat /\ x = q * Hz48
    <3> HIDE DEF q
    <3> QED BY <1>1, <2>1
  <2> QED BY <2>1, <2>2
<1>5. PauseTicks(n, hz) = q
  BY DEF PauseTicks
<1>6. x - y \in 0 .. Hz48 - 1
  <2> HIDE DEF x, y, q
  <2> QED BY <1>1, <1>2, <1>4
<1>7. CASE hz = Hz128
  BY <1>4, <1>5, <1>6, <1>7 DEF RightPause
<1>8. CASE hz = Hz48
  <2>1. y = Hz48 * n
    BY <1>1, <1>8
  <2>2. n < q <=> Hz48 * n + Hz48 <= Hz48 * q
    BY <1>1, <1>4, Ordered
  <2>3. q < n <=> Hz48 * q + Hz48 <= Hz48 * n
    BY <1>1, <1>4, Ordered
  <2>4. /\ n < q <=> y + Hz48 <= x
        /\ q < n <=> x + Hz48 <= y
    BY <2>1, <2>2, <2>3
  <2>5. q = n
    <3> HIDE DEF x, y, q
    <3> QED BY <1>1, <1>2, <1>4, <1>6, <2>4
  <2> QED BY <1>5, <1>8, <2>5 DEF RightPause
<1> QED BY <1>1, <1>7, <1>8

\* Rounding to the nearest: what tape_rewind computes, and how far it is off.
LEMMA Rounded ==
  ASSUME NEW t \in Nat, NEW hz \in Clocks, NEW p \in Clocks
  PROVE  LET r == Scaled(t, hz, p)
         IN  /\ r \in Nat /\ (t = 0 => r = 0) /\ (t > 0 => r > 0)
             /\ 2 * (r * p - t * hz) <= p /\ 2 * (r * p - t * hz) >= -p
<1> DEFINE h == p \div 2
           y == t * hz
           a == y + h
           q == a \div p
           x == p * q
<1>1. /\ hz \in Nat /\ p \in Nat /\ p > 0
      /\ h \in Nat /\ 2 * h <= p /\ p <= 2 * h + 1
  BY ClockFacts DEF Clocks
<1>2. y \in Nat /\ (t = 0 => y = 0)
  BY <1>1
<1>3. a \in Nat
  <2> HIDE DEF y, h
  <2> QED BY <1>1, <1>2
<1>4. q \in Nat /\ x <= a /\ a < x + p
  <2> HIDE DEF a
  <2> QED BY <1>1, <1>3, Division
<1>5. x \in Nat /\ x = q * p
  <2> HIDE DEF q
  <2> QED BY <1>1, <1>4
<1>6. Scaled(t, hz, p) = IF t = 0 THEN 0 ELSE IF q = 0 THEN 1 ELSE q
  BY DEF Scaled
<1>7. 2 * (x - y) <= p /\ 2 * (x - y) >= -p
  <2> HIDE DEF x, y, q, h
  <2> QED BY <1>1, <1>2, <1>4, <1>5
<1>8. t > 0 => q > 0
  <2>1. hz + h >= p
    BY ClockFacts DEF Clocks
  <2>2. t > 0 => y >= hz
    <3>1. SUFFICES ASSUME t > 0 PROVE y >= hz
      OBVIOUS
    <3>2. hz * (t - 1) >= 0 /\ y = hz * (t - 1) + hz
      BY <1>1, <3>1
    <3> QED BY <1>1, <3>2
  <2>3. q = 0 => x = 0
    BY <1>1
  <2> HIDE DEF x, y, q, h
  <2> QED BY <1>1, <1>2, <1>4, <2>1, <2>2, <2>3
<1>9. Scaled(t, hz, p) = q
  <2>1. CASE t = 0
    <3>1. y = 0 /\ a = h
      BY <1>1, <1>2, <2>1
    <3>2. q = 0
      <4> HIDE DEF q
      <4>1. x <= h /\ (q > 0 => x >= p)
        <5>1. q > 0 => p * (q - 1) >= 0 /\ x = p * (q - 1) + p
          BY <1>1, <1>4
        <5> QED BY <1>1, <1>4, <3>1, <5>1
      <4> QED BY <1>1, <1>4, <4>1
    <3> QED BY <1>6, <2>1, <3>2
  <2>2. CASE t > 0
    BY <1>4, <1>6, <1>8, <2>2
  <2> QED BY <2>1, <2>2
<1>10. q * p = x /\ t * hz = y
  BY <1>5
<1>11. t = 0 => q = 0
  BY <1>6, <1>9
<1> HIDE DEF x, y, q
<1> QED BY <1>4, <1>7, <1>8, <1>9, <1>10, <1>11

LEMMA PulseScaled ==
  ASSUME NEW n \in Nat, NEW t, NEW hz \in Clocks, NEW p \in Clocks, p # hz,
         RightPulse(n, t, p)
  PROVE  RightPulse(n, Scaled(t, hz, p), hz)
<1> DEFINE r == Scaled(t, hz, p)
<1>1. t \in Nat
  BY DEF RightPulse
<1>2. /\ r \in Nat
      /\ 2 * (r * p - t * hz) <= p /\ 2 * (r * p - t * hz) >= -p
  BY <1>1, Rounded
<1>3. \/ p = Hz48 /\ hz = Hz128
      \/ p = Hz128 /\ hz = Hz48
  BY DEF Clocks
<1>4. CASE p = Hz48 /\ hz = Hz128
  <2>1. t = n
    BY <1>1, <1>4, PulseExact
  <2> QED BY <1>2, <1>4, <2>1 DEF RightPulse
<1>5. CASE p = Hz128 /\ hz = Hz48
  <2> DEFINE x == r * Hz128
             y == t * Hz48
             z == n * Hz128
  <2>1. 2 * (x - y) <= Hz128 /\ 2 * (x - y) >= -Hz128
    BY <1>2, <1>5
  <2>2. 2 * (y - z) <= Hz48 /\ 2 * (y - z) >= -Hz48
    BY <1>5 DEF RightPulse
  <2>3. x \in Nat /\ y \in Nat /\ z \in Nat
    BY <1>1, <1>2, ClockFacts
  <2>4. r < n <=> x + Hz128 <= z
    <3>1. r < n <=> Hz128 * r + Hz128 <= Hz128 * n
      BY <1>2, Ordered, ClockFacts
    <3>2. x = Hz128 * r /\ z = Hz128 * n
      BY <1>2, ClockFacts
    <3> QED BY <3>1, <3>2
  <2>5. n < r <=> z + Hz128 <= x
    <3>1. n < r <=> Hz128 * n + Hz128 <= Hz128 * r
      BY <1>2, Ordered, ClockFacts
    <3>2. x = Hz128 * r /\ z = Hz128 * n
      BY <1>2, ClockFacts
    <3> QED BY <3>1, <3>2
  <2>6. r = n
    <3> HIDE DEF x, y, z, r
    <3> QED BY <1>2, <2>1, <2>2, <2>3, <2>4, <2>5, ClockFacts
  <2> QED BY <1>2, <1>5, <2>6, PulseExact
<1> QED BY <1>3, <1>4, <1>5

LEMMA PauseScaled ==
  ASSUME NEW n \in Nat, NEW t, NEW hz \in Clocks, NEW p \in Clocks, p # hz,
         RightPause(n, t, p)
  PROVE  RightPause(n, Scaled(t, hz, p), hz)
<1> DEFINE r == Scaled(t, hz, p)
<1>1. t \in Nat
  BY DEF RightPause
<1>2. /\ r \in Nat
      /\ 2 * (r * p - t * hz) <= p /\ 2 * (r * p - t * hz) >= -p
  BY <1>1, Rounded
<1>3. \/ p = Hz48 /\ hz = Hz128
      \/ p = Hz128 /\ hz = Hz48
  BY DEF Clocks
<1>4. CASE p = Hz48 /\ hz = Hz128
  <2>1. t \in {n, n + 1}
    BY <1>4, ClockFacts DEF RightPause
  <2>2. RightPulse(t, r, hz)
    BY <1>2, <1>4 DEF RightPulse
  <2>3. \E s \in {n, n + 1} : RightPulse(s, r, hz)
    BY <2>1, <2>2
  <2> QED BY <1>2, <1>4, <2>3 DEF RightPause
<1>5. CASE p = Hz128 /\ hz = Hz48
  <2>1. CASE t * Hz48 - n * Hz128 \in 0 .. Hz48 - 1
    <3> DEFINE x == r * Hz128
               y == t * Hz48
               z == n * Hz128
    <3>1. 2 * (x - y) <= Hz128 /\ 2 * (x - y) >= -Hz128
      BY <1>2, <1>5
    <3>2. 0 <= y - z /\ y - z < Hz48
      BY <1>1, <2>1, ClockFacts
    <3>3. x \in Nat /\ y \in Nat /\ z \in Nat
      BY <1>1, <1>2, ClockFacts
    <3>4. r < n <=> x + Hz128 <= z
      <4>1. r < n <=> Hz128 * r + Hz128 <= Hz128 * n
        BY <1>2, Ordered, ClockFacts
      <4>2. x = Hz128 * r /\ z = Hz128 * n
        BY <1>2, ClockFacts
      <4> QED BY <4>1, <4>2
    <3>5. n + 1 < r <=> z + Hz128 + Hz128 <= x
      <4>1. n + 1 < r <=> Hz128 * (n + 1) + Hz128 <= Hz128 * r
        BY <1>2, Ordered, ClockFacts
      <4>2. x = Hz128 * r /\ Hz128 * (n + 1) = z + Hz128
        BY <1>2, ClockFacts
      <4> QED BY <4>1, <4>2
    <3>6. r \in {n, n + 1}
      <4> HIDE DEF x, y, z, r
      <4> QED BY <1>2, <3>1, <3>2, <3>3, <3>4, <3>5, ClockFacts
    <3> QED BY <1>2, <1>5, <3>6 DEF RightPause
  <2>2. CASE \E s \in {n, n + 1} : RightPulse(s, t, Hz128)
    <3>1. PICK s \in {n, n + 1} : RightPulse(s, t, Hz128)
      BY <2>2
    <3>2. s \in Nat
      OBVIOUS
    <3>3. RightPulse(s, r, hz)
      BY <1>5, <3>1, <3>2, PulseScaled
    <3>4. r = s
      BY <1>2, <1>5, <3>2, <3>3, PulseExact
    <3> QED BY <1>2, <1>5, <3>4 DEF RightPause
  <2> QED BY <1>5, <2>1, <2>2, ClockFacts DEF RightPause
<1> QED BY <1>3, <1>4, <1>5

\* What PulsesKept says of one segment.
LEMMA LengthKept ==
  ASSUME NEW n \in Nat, NEW t, NEW hz \in Clocks, RightPause(n, t, hz)
  PROVE  t * Hz48 - n * hz < 2 * Hz48 /\ t * Hz48 - n * hz > -(2 * Hz48)
<1>1. t \in Nat
  BY DEF RightPause
<1>2. CASE hz = Hz48 /\ t \in {n, n + 1}
  <2>1. t * Hz48 - n * Hz48 \in {0, Hz48}
    BY <1>2, ClockFacts
  <2> QED BY <1>2, <2>1, ClockFacts
<1>3. CASE hz = Hz128 /\ t * Hz48 - n * hz \in 0 .. Hz48 - 1
  BY <1>1, <1>3, ClockFacts
<1>4. CASE hz = Hz128 /\ \E s \in {n, n + 1} : RightPulse(s, t, hz)
  <2>1. PICK s \in {n, n + 1} : RightPulse(s, t, hz)
    BY <1>4
  <2> DEFINE x == t * Hz48
             y == n * Hz128
             z == s * Hz128
  <2>2. 2 * (x - z) <= Hz48 /\ 2 * (x - z) >= -Hz48
    BY <1>4, <2>1 DEF RightPulse
  <2>3. z \in {y, y + Hz128}
    BY ClockFacts
  <2>4. x \in Nat /\ y \in Nat
    BY <1>1, ClockFacts
  <2>5. x - y < 2 * Hz48 /\ x - y > -(2 * Hz48)
    <3> HIDE DEF x, y, z
    <3> QED BY <2>2, <2>3, <2>4, ClockFacts
  <2> QED BY <1>4, <2>5
<1> QED BY <1>2, <1>3, <1>4 DEF RightPause

-----------------------------------------------------------------------------
(* The tape.                                                               *)

Segments == [nominal : Nat, pause : BOOLEAN, stop : StopModes, ticks : Nat]
Tapes ==
  [inserted : BOOLEAN, playing : BOOLEAN, segments : Seq(Segments),
   blocks : Seq(Nat), block : Nat, index : Nat, end : Nat,
   hz : Clocks \union {0}, stop48 : BOOLEAN, target : Targets]

\* The position is on the tape, a block that has been taken is one of its
\* blocks, blocks end on the tape, and every segment has its length.
IsTape(p) ==
  /\ p \in Tapes
  /\ p.index <= Len(p.segments) /\ (p.playing => p.index < Len(p.segments))
  /\ p.block <= Len(p.blocks)
  /\ \A i \in DOMAIN p.blocks : p.blocks[i] <= Len(p.segments)
  /\ \A i \in DOMAIN p.segments :
       p.hz \in Clocks /\ RightLength(p.segments[i], p.hz)

LEMMA LeastIn ==
  ASSUME NEW S \in SUBSET Nat, S # {}
  PROVE  Min(S) \in S /\ \A y \in S : Min(S) <= y
<1> DEFINE Less == {ss \in Nat \X Nat : ss[1] < ss[2]}
<1>1. IsWellFoundedOn(Less, Nat)
  BY NatLessThanWellFounded, Zenon DEF OpToRel
<1>2. \A x, y \in S : x < y => <<x, y>> \in Less
  OBVIOUS
<1> HIDE DEF Less
<1>3. PICK x \in S : \A y \in S : ~(<<y, x>> \in Less)
  BY <1>1, WFMin
<1>4. \A y \in S : x <= y
  <2> TAKE y \in S
  <2>1. ~(y < x) /\ x \in Nat /\ y \in Nat
    BY <1>2, <1>3
  <2> QED BY <2>1
<1> QED BY <1>4 DEF Min

LEMMA GreatestIn ==
  ASSUME NEW n \in Nat, NEW S \in SUBSET (0 .. n), S # {}
  PROVE  Max(S) \in S /\ \A y \in S : y <= Max(S)
<1> DEFINE R == {n - x : x \in S}
<1>1. R \in SUBSET Nat /\ R # {}
  <2>1. \A x \in S : x \in Nat /\ x <= n /\ n - x \in Nat
    OBVIOUS
  <2>2. PICK x \in S : TRUE
    OBVIOUS
  <2>3. n - x \in R
    OBVIOUS
  <2> QED BY <2>1, <2>3
<1>2. Min(R) \in R /\ \A y \in R : Min(R) <= y
  BY <1>1, LeastIn
<1>3. PICK x \in S : Min(R) = n - x
  BY <1>2
<1>4. \A y \in S : n - y \in R
  OBVIOUS
<1> HIDE DEF R
<1>5. \A y \in S : x >= y
  BY <1>2, <1>3, <1>4
<1> QED BY <1>5 DEF Max


LEMMA TicksNat ==
  ASSUME NEW p \in Tapes, NEW i \in 0 .. Len(p.segments) - 1
  PROVE  TicksOf(p, i) \in Nat
<1>1. p.segments \in Seq(Segments) /\ i + 1 \in 1 .. Len(p.segments)
  BY DEF Tapes
<1>2. p.segments[i + 1] \in Segments
  BY <1>1, ElementOfSeq
<1> QED BY <1>2 DEF TicksOf, Segments

\* The recursion of Ends defines a function.
LEMMA EndsExist ==
  ASSUME NEW p \in Tapes
  PROVE  \E f : f = [i \in p.index .. Len(p.segments) - 1 |->
                      IF i = p.index THEN p.end ELSE f[i - 1] + TicksOf(p, i)]
<1> DEFINE a == p.index
           b == Len(p.segments) - 1
           e == p.end
           T == [i \in Nat |-> TicksOf(p, i)]
<1>0. a \in Nat /\ b \in Int /\ \A i \in a .. b : T[i] = TicksOf(p, i)
  <2>1. p.segments \in Seq(Segments) /\ p.index \in Nat
    BY DEF Tapes
  <2> QED BY <2>1
<1> HIDE DEF a, b, e, T
<1> DEFINE Sum(f, n) ==
             f = [i \in a .. (a + n) |-> IF i = a THEN e ELSE f[i - 1] + T[i]]
           Bad == {n \in Nat : ~ \E f : Sum(f, n)}
<1>1. Bad = {}
  <2>1. SUFFICES ASSUME Bad # {} PROVE FALSE
    OBVIOUS
  <2> DEFINE n == Min(Bad)
  <2>2. n \in Bad /\ \A y \in Bad : n <= y
    BY <2>1, LeastIn
  <2>3. n \in Nat /\ ~ \E f : Sum(f, n)
    BY <2>2
  <2> HIDE DEF n
  <2>4. CASE n = 0
    <3> DEFINE f == [i \in a .. a |-> e]
    <3>1. a .. (a + 0) = {a} /\ a .. a = {a}
      BY <1>0
    <3>2. Sum(f, 0)
      BY <3>1
    <3> HIDE DEF Sum
    <3> QED BY <2>3, <2>4, <3>2
  <2>5. CASE n # 0
    <3>1. n - 1 \in Nat /\ n - 1 \notin Bad
      <4> HIDE DEF Bad
      <4>1. n - 1 \in Nat /\ ~(n <= n - 1)
        BY <2>3, <2>5
      <4> QED BY <2>2, <4>1
    <3>2. PICK f : Sum(f, n - 1)
      BY <3>1
    <3>3. f = [i \in a .. (a + n - 1) |-> IF i = a THEN e ELSE f[i - 1] + T[i]]
      <4>1. a + (n - 1) = a + n - 1
        BY <2>3
      <4> QED BY <3>2, <4>1
    <3> DEFINE g == [i \in a .. (a + n) |->
                       IF i = a + n THEN f[a + n - 1] + T[a + n] ELSE f[i]]
    <3>4. \A i \in a .. (a + n) :
            g[i] = IF i = a THEN e ELSE g[i - 1] + T[i]
      <4> TAKE i \in a .. (a + n)
      <4>1. CASE i = a
        <5>1. i # a + n /\ i \in a .. (a + n - 1)
          BY <2>3, <2>5, <4>1
        <5>2. g[i] = f[i]
          BY <5>1
        <5>3. f[i] = e
          BY <3>3, <4>1, <5>1
        <5> QED BY <4>1, <5>2, <5>3
      <4>2. CASE i # a /\ i = a + n
        <5>1. g[i] = f[a + n - 1] + T[a + n]
          BY <4>2
        <5>2. i - 1 = a + n - 1 /\ i - 1 # a + n /\ i - 1 \in a .. (a + n)
          BY <1>0, <2>3, <2>5, <4>2
        <5>3. g[i - 1] = f[i - 1]
          BY <5>2
        <5> QED BY <4>2, <5>1, <5>2, <5>3
      <4>3. CASE i # a /\ i # a + n
        <5>1. i \in a .. (a + n - 1) /\ i - 1 \in a .. (a + n) /\ i - 1 # a + n
          BY <1>0, <2>3, <4>3
        <5>2. g[i] = f[i] /\ g[i - 1] = f[i - 1]
          BY <4>3, <5>1
        <5>3. f[i] = f[i - 1] + T[i]
          BY <3>3, <4>3, <5>1
        <5> QED BY <4>3, <5>2, <5>3
      <4> QED BY <4>1, <4>2, <4>3
    <3>5. Sum(g, n)
      <4>1. g = [i \in a .. (a + n) |-> g[i]]
        OBVIOUS
      <4> HIDE DEF g
      <4> QED BY <3>4, <4>1
    <3> HIDE DEF g, Sum
    <3> QED BY <2>3, <3>5
  <2> QED BY <2>4, <2>5
<1>2. \E f : f = [i \in a .. b |-> IF i = a THEN e ELSE f[i - 1] + TicksOf(p, i)]
  <2>1. CASE a <= b
    <3>1. b - a \in Nat /\ a + (b - a) = b
      BY <1>0, <2>1
    <3>2. PICK f : Sum(f, b - a)
      BY <1>1, <3>1
    <3>3. f = [i \in a .. b |-> IF i = a THEN e ELSE f[i - 1] + T[i]]
      BY <3>1, <3>2
    <3>4. f = [i \in a .. b |-> IF i = a THEN e ELSE f[i - 1] + TicksOf(p, i)]
      BY <1>0, <3>3
    <3> QED BY <3>4
  <2>2. CASE b < a
    <3>1. a .. b = {}
      BY <1>0, <2>2
    <3> DEFINE f == [i \in {} |-> e]
    <3>2. f = [i \in a .. b |-> IF i = a THEN e ELSE f[i - 1] + TicksOf(p, i)]
      BY <3>1
    <3> HIDE DEF f
    <3> QED BY <3>2
  <2> QED BY <1>0, <2>1, <2>2
<1> QED BY <1>2 DEF a, b, e

\* The recursion of Ends is what it says, and its values are ticks.
LEMMA EndsAre ==
  ASSUME NEW p \in Tapes
  PROVE  /\ DOMAIN Ends(p) = p.index .. Len(p.segments) - 1
         /\ \A i \in DOMAIN Ends(p) :
              /\ Ends(p)[i] = IF i = p.index THEN p.end
                              ELSE Ends(p)[i - 1] + TicksOf(p, i)
              /\ Ends(p)[i] \in Nat
<1> DEFINE a == p.index
           b == Len(p.segments) - 1
           Is(f) == f = [i \in a .. b |-> IF i = a THEN p.end
                                          ELSE f[i - 1] + TicksOf(p, i)]
<1>1. a \in Nat /\ b \in Int /\ p.end \in Nat
  <2>1. p.segments \in Seq(Segments) /\ p.index \in Nat /\ p.end \in Nat
    BY DEF Tapes
  <2> QED BY <2>1
<1>3. \E f : Is(f)
  BY EndsExist, Zenon
<1>4. Ends(p) = CHOOSE f : Is(f)
  BY DEF Ends
<1>5. Is(Ends(p))
  BY <1>3, <1>4
<1> DEFINE E == Ends(p)
<1>6. /\ DOMAIN E = a .. b
      /\ \A i \in a .. b : E[i] = IF i = a THEN p.end ELSE E[i - 1] + TicksOf(p, i)
  <2> HIDE DEF E, a, b
  <2>1. Is(E)
    BY <1>5 DEF E
  <2> QED BY <2>1
<1>7. \A i \in a .. b : TicksOf(p, i) \in Nat
  BY <1>1, TicksNat
<1> HIDE DEF E, a, b
<1>8. \A i \in a .. b : E[i] \in Nat
  <2> DEFINE Bad == {i \in a .. b : E[i] \notin Nat}
             n == Min(Bad)
  <2>1. SUFFICES ASSUME Bad # {} PROVE FALSE
    OBVIOUS
  <2>2. Bad \in SUBSET Nat
    BY <1>1
  <2>3. n \in Bad /\ \A y \in Bad : n <= y
    <3> HIDE DEF Bad
    <3> QED BY <2>1, <2>2, LeastIn
  <2>4. n \in a .. b /\ E[n] \notin Nat
    BY <2>3
  <2> HIDE DEF n
  <2>5. n # a
    BY <1>1, <1>6, <2>4
  <2>6. n - 1 \in a .. b
    BY <1>1, <2>4, <2>5
  <2>7. n - 1 \notin Bad
    <3> HIDE DEF Bad
    <3>1. ~(n <= n - 1)
      BY <1>1, <2>4
    <3> QED BY <2>3, <3>1
  <2>8. E[n - 1] \in Nat
    BY <2>6, <2>7
  <2> QED BY <1>6, <1>7, <2>4, <2>5, <2>8
<1> QED BY <1>6, <1>8 DEF E, a, b

LEMMA NoTapeIs == IsTape(NoTape)
<1>1. NoTape \in Tapes
  <2>1. <<>> \in Seq(Segments) /\ <<>> \in Seq(Nat) /\ 0 \in Nat /\ 0 \in Clocks \union {0}
    OBVIOUS
  <2>2. "unknown" \in Targets
    BY DEF Targets
  <2> QED BY <2>1, <2>2, Zenon DEF NoTape, Tapes
<1>2. Len(<<>>) = 0 /\ DOMAIN <<>> = {}
  OBVIOUS
<1> QED BY <1>1, <1>2 DEF IsTape, NoTape

LEMMA DecodedIs ==
  ASSUME NEW image, IsImage(image), NEW hz \in Clocks
  PROVE  /\ IsTape(Decoded(image, hz))
         /\ Decoded(image, hz).inserted /\ ~Decoded(image, hz).playing
<1> DEFINE d == Decoded(image, hz)
           T == [i \in DOMAIN image.segments |->
                   [nominal |-> image.segments[i].nominal,
                    pause |-> image.segments[i].pause,
                    stop |-> image.segments[i].stop,
                    ticks |-> IF image.segments[i].nominal = 0 THEN 0
                              ELSE IF image.segments[i].pause
                              THEN PauseTicks(image.segments[i].nominal, hz)
                              ELSE PulseTicks(image.segments[i].nominal, hz)]]
           Raw == [nominal : Nat, pause : BOOLEAN, stop : StopModes]
<1>1. d = [NoTape EXCEPT !.inserted = TRUE, !.hz = hz, !.target = image.target,
                         !.blocks = image.blocks, !.segments = T]
  BY DEF Decoded
<1>2. /\ d.inserted = TRUE /\ d.playing = FALSE /\ d.hz = hz /\ d.segments = T
      /\ d.blocks = image.blocks /\ d.block = 0 /\ d.index = 0
  <2> HIDE DEF T
  <2> QED BY <1>1 DEF NoTape
<1>3. \A i \in DOMAIN image.segments : image.segments[i] \in Raw
  <2>1. image.segments \in Seq(Raw)
    BY DEF IsImage, Images
  <2>2. \A i \in 1 .. Len(image.segments) : image.segments[i] \in Raw
    BY <2>1, ElementOfSeq
  <2>3. DOMAIN image.segments = 1 .. Len(image.segments)
    BY <2>1
  <2> QED BY <2>2, <2>3
<1>4. \A i \in DOMAIN image.segments : T[i] \in Segments /\ RightLength(T[i], hz)
  <2> TAKE i \in DOMAIN image.segments
  <2> DEFINE s == image.segments[i]
             n == s.nominal
             t == IF n = 0 THEN 0
                  ELSE IF s.pause THEN PauseTicks(n, hz) ELSE PulseTicks(n, hz)
  <2>1. n \in Nat /\ s.pause \in BOOLEAN /\ s.stop \in StopModes
    BY <1>3
  <2>2. T[i] = [nominal |-> n, pause |-> s.pause, stop |-> s.stop, ticks |-> t]
    OBVIOUS
  <2>3. /\ t \in Nat
        /\ s.pause => RightPause(n, t, hz)
        /\ ~s.pause => RightPulse(n, t, hz)
    <3>1. CASE n = 0
      <4>1. t = 0
        BY <3>1
      <4>2. RightPulse(0, 0, hz) /\ RightPause(0, 0, hz)
        BY ClockFacts DEF RightPulse, RightPause, Clocks
      <4> HIDE DEF n, t, s
      <4> QED BY <3>1, <4>1, <4>2
    <3>2. CASE n > 0 /\ s.pause
      <4>1. RightPause(n, PauseTicks(n, hz), hz) /\ t = PauseTicks(n, hz)
        BY <2>1, <3>2, PauseDecoded
      <4> QED BY <3>2, <4>1 DEF RightPause
    <3>3. CASE n > 0 /\ ~s.pause
      <4>1. RightPulse(n, PulseTicks(n, hz), hz) /\ t = PulseTicks(n, hz)
        BY <2>1, <3>3, PulseDecoded
      <4> QED BY <3>3, <4>1 DEF RightPulse
    <3> QED BY <2>1, <3>1, <3>2, <3>3
  <2> HIDE DEF t, s, T
  <2>4. T[i] \in Segments
    BY <2>1, <2>2, <2>3 DEF Segments
  <2>5. RightLength(T[i], hz)
    BY <2>2, <2>3 DEF RightLength
  <2> QED BY <2>4, <2>5
<1>5. image.segments \in Seq(Raw) /\ image.blocks \in Seq(Nat) /\ image.target \in Targets
  BY DEF IsImage, Images
<1>6. DOMAIN T = DOMAIN image.segments /\ DOMAIN T = 1 .. Len(image.segments)
  BY <1>5
<1> HIDE DEF T
<1>7. T \in Seq(Segments) /\ Len(T) = Len(image.segments)
  <2>1. T \in [1 .. Len(image.segments) -> Segments]
    <3>1. T = [i \in DOMAIN T |-> T[i]]
      BY DEF T
    <3> QED BY <1>4, <1>6, <3>1
  <2>2. Len(image.segments) \in Nat
    BY <1>5
  <2> QED BY <2>1, <2>2
<1>8. \A i \in DOMAIN image.blocks : image.blocks[i] <= Len(T) /\ image.blocks[i] \in Nat
  <2>1. \A i \in 1 .. Len(image.blocks) : image.blocks[i] \in Nat
    BY <1>5, ElementOfSeq
  <2>2. DOMAIN image.blocks = 1 .. Len(image.blocks)
    BY <1>5
  <2> QED BY <1>7, <2>1, <2>2 DEF IsImage
<1>9. image.blocks \in Seq(Nat) /\ Len(image.blocks) \in Nat
  BY <1>5
<1>10. NoTape \in Tapes
  BY NoTapeIs DEF IsTape
<1>11. d \in Tapes
  BY <1>1, <1>5, <1>7, <1>9, <1>10, Zenon DEF Tapes
<1>12. Len(T) \in Nat
  BY <1>7
<1> HIDE DEF d
<1>13. \A i \in DOMAIN d.segments : d.hz \in Clocks /\ RightLength(d.segments[i], d.hz)
  BY <1>2, <1>4, <1>6
<1>14. \A i \in DOMAIN d.blocks : d.blocks[i] <= Len(d.segments)
  BY <1>2, <1>8
<1> QED BY <1>2, <1>9, <1>11, <1>12, <1>13, <1>14 DEF IsTape, d

\* The next edge is at most one segment away.
Due(p, tick) == p.playing => p.end <= tick + TicksOf(p, p.index)

\* What playing does not change.
SameTape(p, q) == q.inserted = p.inserted /\ q.hz = p.hz /\ q.stop48 = p.stop48

LEMMA TapeTypes ==
  ASSUME NEW p, IsTape(p)
  PROVE  /\ p \in Tapes /\ p.segments \in Seq(Segments) /\ p.blocks \in Seq(Nat)
         /\ Len(p.segments) \in Nat /\ Len(p.blocks) \in Nat
         /\ DOMAIN p.segments = 1 .. Len(p.segments)
         /\ DOMAIN p.blocks = 1 .. Len(p.blocks)
         /\ p.block \in Nat /\ p.index \in Nat /\ p.end \in Nat
         /\ p.inserted \in BOOLEAN /\ p.playing \in BOOLEAN /\ p.stop48 \in BOOLEAN
<1>1. p.segments \in Seq(Segments) /\ p.blocks \in Seq(Nat) /\ p \in Tapes
  BY DEF IsTape, Tapes
<1>2. /\ p.block \in Nat /\ p.index \in Nat /\ p.end \in Nat
      /\ p.inserted \in BOOLEAN /\ p.playing \in BOOLEAN /\ p.stop48 \in BOOLEAN
  BY <1>1 DEF Tapes
<1> QED BY <1>1, <1>2

LEMMA RewindIs ==
  ASSUME NEW p, IsTape(p), NEW hz \in Clocks
  PROVE  LET q == TapeRewind(p, hz)
         IN  /\ IsTape(q) /\ q.hz = hz /\ q.playing = FALSE
             /\ q.inserted = p.inserted /\ q.stop48 = p.stop48
<1> DEFINE R == [i \in DOMAIN p.segments |->
                   [p.segments[i] EXCEPT !.ticks = Scaled(@, hz, p.hz)]]
           S == IF p.hz > 0 /\ p.hz # hz THEN R ELSE p.segments
           q == [p EXCEPT !.segments = S, !.hz = hz, !.block = 0, !.index = 0,
                          !.end = 0, !.playing = FALSE]
<1>1. TapeRewind(p, hz) = q
  BY Zenon DEF TapeRewind
<1>2. /\ p \in Tapes /\ p.segments \in Seq(Segments) /\ p.blocks \in Seq(Nat)
      /\ Len(p.segments) \in Nat /\ Len(p.blocks) \in Nat
      /\ DOMAIN p.segments = 1 .. Len(p.segments)
  BY TapeTypes
<1>3. \A i \in DOMAIN p.segments :
        /\ p.segments[i] \in Segments /\ p.hz \in Clocks
        /\ RightLength(p.segments[i], p.hz)
  BY <1>2, ElementOfSeq DEF IsTape
<1>4. \A i \in DOMAIN p.segments : p.hz # hz => R[i] \in Segments /\ RightLength(R[i], hz)
  <2> TAKE i \in DOMAIN p.segments
  <2>1. SUFFICES ASSUME p.hz # hz PROVE R[i] \in Segments /\ RightLength(R[i], hz)
    OBVIOUS
  <2> DEFINE s == p.segments[i]
             t == Scaled(s.ticks, hz, p.hz)
             e == [s EXCEPT !.ticks = t]
  <2>2. s \in Segments /\ p.hz \in Clocks /\ RightLength(s, p.hz)
    BY <1>3
  <2>3. R[i] = e
    OBVIOUS
  <2>4. s.nominal \in Nat /\ s.pause \in BOOLEAN /\ s.ticks \in Nat
    BY <2>2 DEF Segments
  <2>5. t \in Nat
    BY <2>2, <2>4, Rounded
  <2>6. e \in Segments
    BY <2>2, <2>5, Zenon DEF Segments
  <2>7. e.nominal = s.nominal /\ e.pause = s.pause /\ e.ticks = t
    BY <2>2 DEF Segments
  <2>8. CASE s.pause
    <3>1. RightPause(s.nominal, s.ticks, p.hz)
      BY <2>2, <2>8 DEF RightLength
    <3>2. RightPause(s.nominal, t, hz)
      BY <2>1, <2>2, <2>4, <3>1, PauseScaled
    <3> HIDE DEF e, t, s
    <3> QED BY <2>3, <2>6, <2>7, <2>8, <3>2 DEF RightLength
  <2>9. CASE ~s.pause
    <3>1. RightPulse(s.nominal, s.ticks, p.hz)
      BY <2>2, <2>9 DEF RightLength
    <3>2. RightPulse(s.nominal, t, hz)
      BY <2>1, <2>2, <2>4, <3>1, PulseScaled
    <3> HIDE DEF e, t, s
    <3> QED BY <2>3, <2>6, <2>7, <2>9, <3>1, <3>2 DEF RightLength
  <2> QED BY <2>4, <2>8, <2>9
<1>5. DOMAIN R = DOMAIN p.segments
  OBVIOUS
<1> HIDE DEF R
<1>6. /\ S \in Seq(Segments) /\ Len(S) = Len(p.segments)
      /\ DOMAIN S = DOMAIN p.segments
      /\ \A i \in DOMAIN S : RightLength(S[i], hz)
  <2>1. CASE p.hz > 0 /\ p.hz # hz
    <3>1. R \in [1 .. Len(p.segments) -> Segments]
      <4>1. R = [i \in DOMAIN R |-> R[i]]
        BY DEF R
      <4> QED BY <1>2, <1>4, <1>5, <2>1, <4>1
    <3>2. R \in Seq(Segments) /\ Len(R) = Len(p.segments)
      BY <1>2, <3>1
    <3> QED BY <1>4, <1>5, <2>1, <3>2
  <2>2. CASE ~(p.hz > 0 /\ p.hz # hz)
    <3>1. \A i \in DOMAIN p.segments : p.hz = hz
      BY <1>3, <2>2, ClockFacts DEF Clocks
    <3>2. S = p.segments
      BY <2>2
    <3> HIDE DEF S
    <3> QED BY <1>2, <1>3, <3>1, <3>2
  <2> QED BY <2>1, <2>2
<1> HIDE DEF S
<1>7. q \in Tapes
  <2>1. 0 \in Nat /\ hz \in Clocks \union {0}
    OBVIOUS
  <2> QED BY <1>2, <1>6, <2>1, Zenon DEF Tapes
<1>8. /\ q.segments = S /\ q.hz = hz /\ q.block = 0 /\ q.index = 0
      /\ q.playing = FALSE /\ q.blocks = p.blocks
      /\ q.inserted = p.inserted /\ q.stop48 = p.stop48
  BY <1>2 DEF Tapes
<1>9. \A i \in DOMAIN p.blocks : p.blocks[i] <= Len(S)
  BY <1>6 DEF IsTape
<1> HIDE DEF q
<1>10. IsTape(q)
  BY <1>2, <1>6, <1>7, <1>8, <1>9 DEF IsTape
<1> QED BY <1>1, <1>8, <1>10

LEMMA StopModeIs ==
  ASSUME NEW p, IsTape(p), NEW b \in BOOLEAN
  PROVE  LET q == SetStopMode(p, b)
         IN  /\ IsTape(q) /\ q.hz = p.hz /\ q.inserted = p.inserted
             /\ q.playing = p.playing /\ q.stop48 = b /\ q.end = p.end
             /\ q.index = p.index /\ q.segments = p.segments
<1> DEFINE q == [p EXCEPT !.stop48 = b]
<1>1. SetStopMode(p, b) = q
  BY Zenon DEF SetStopMode
<1>2. p \in Tapes
  BY TapeTypes
<1>3. q \in Tapes
  BY <1>2, Zenon DEF Tapes
<1>4. /\ q.hz = p.hz /\ q.inserted = p.inserted /\ q.block = p.block
      /\ q.blocks = p.blocks /\ q.playing = p.playing /\ q.stop48 = b
      /\ q.end = p.end /\ q.index = p.index /\ q.segments = p.segments
  BY <1>2 DEF Tapes
<1> HIDE DEF q
<1>5. IsTape(q)
  BY <1>3, <1>4 DEF IsTape
<1> QED BY <1>1, <1>4, <1>5

LEMMA StopIs ==
  ASSUME NEW p, IsTape(p)
  PROVE  LET q == TapeStop(p)
         IN  IsTape(q) /\ SameTape(p, q) /\ q.playing = FALSE
<1> DEFINE q == [p EXCEPT !.playing = FALSE]
<1>1. TapeStop(p) = q
  BY Zenon DEF TapeStop
<1>2. p \in Tapes
  BY TapeTypes
<1>3. q \in Tapes
  BY <1>2, Zenon DEF Tapes
<1>4. /\ q.hz = p.hz /\ q.inserted = p.inserted /\ q.block = p.block
      /\ q.blocks = p.blocks /\ q.playing = FALSE /\ q.stop48 = p.stop48
      /\ q.index = p.index /\ q.segments = p.segments
  BY <1>2 DEF Tapes
<1> HIDE DEF q
<1>5. IsTape(q)
  BY <1>3, <1>4 DEF IsTape
<1> QED BY <1>1, <1>4, <1>5 DEF SameTape

LEMMA StartIs ==
  ASSUME NEW p, IsTape(p), NEW tick \in Nat
  PROVE  LET q == TapeStart(p, tick)
         IN  /\ IsTape(q) /\ SameTape(p, q)
             /\ Due(p, tick) \/ HasTape(p) => Due(q, tick)
<1> DEFINE over  == p.index >= Len(p.segments)
           index == IF over THEN 0 ELSE p.index
           end   == tick + TicksOf(p, index)
           q == [p EXCEPT !.index = index, !.block = IF over THEN 0 ELSE p.block,
                          !.playing = TRUE, !.end = end]
<1>1. CASE ~HasTape(p)
  BY <1>1 DEF TapeStart, SameTape
<1>2. CASE HasTape(p)
  <2>1. TapeStart(p, tick) = q
    BY <1>2, Zenon DEF TapeStart
  <2>2. /\ p \in Tapes /\ Len(p.segments) \in Nat /\ p.index \in Nat /\ p.block \in Nat
        /\ p.segments \in Seq(Segments) /\ Len(p.blocks) \in Nat
    BY TapeTypes
  <2>3. Len(p.segments) > 0
    BY <1>2, <2>2, EmptySeq DEF HasTape
  <2>4. index \in 0 .. Len(p.segments) - 1 /\ index \in Nat
    BY <2>2, <2>3
  <2>5. TicksOf(p, index) \in Nat
    BY <2>2, <2>4, TicksNat
  <2> HIDE DEF index
  <2>6. end \in Nat
    BY <2>5
  <2> HIDE DEF end
  <2>7. (IF over THEN 0 ELSE p.block) \in Nat
    BY <2>2
  <2>8. q \in Tapes
    BY <2>2, <2>4, <2>6, <2>7, Zenon DEF Tapes
  <2>9. /\ q.hz = p.hz /\ q.inserted = p.inserted
        /\ q.block = (IF over THEN 0 ELSE p.block)
        /\ q.blocks = p.blocks /\ q.playing = TRUE /\ q.stop48 = p.stop48
        /\ q.index = index /\ q.segments = p.segments /\ q.end = end
    BY <2>2 DEF Tapes
  <2> HIDE DEF q, over
  <2>10. q.block <= Len(p.blocks)
    BY <2>2, <2>9 DEF IsTape
  <2>11. IsTape(q)
    BY <2>2, <2>4, <2>8, <2>9, <2>10 DEF IsTape
  <2>12. Due(q, tick)
    BY <2>5, <2>9 DEF Due, end, TicksOf
  <2> QED BY <2>1, <2>9, <2>11, <2>12 DEF SameTape
<1> QED BY <1>1, <1>2

LEMMA InputIs ==
  ASSUME NEW p, IsTape(p), NEW tick \in Nat
  PROVE  LET q == InputLevel(p, tick)
         IN  /\ IsTape(q) /\ SameTape(p, q)
             /\ Due(p, tick) => Due(q, tick)
<1> DEFINE ends == Ends(p)
           passed == {i \in DOMAIN ends : tick >= ends[i]}
           stops  == {i \in passed : StopsAfter(p, i)}
           last == Len(p.segments) - 1
           q == InputLevel(p, tick)
<1>1. /\ p \in Tapes /\ Len(p.segments) \in Nat /\ p.index \in Nat /\ p.block \in Nat
      /\ p.segments \in Seq(Segments) /\ Len(p.blocks) \in Nat
  BY TapeTypes
<1>2. /\ DOMAIN ends = p.index .. last
      /\ \A i \in p.index .. last :
           /\ ends[i] = IF i = p.index THEN p.end ELSE ends[i - 1] + TicksOf(p, i)
           /\ ends[i] \in Nat
  BY <1>1, EndsAre
<1> HIDE DEF ends
<1>3. passed \subseteq p.index .. last /\ stops \subseteq passed
  BY <1>2
<1>4. \A i \in p.index .. last : i \in 0 .. last /\ i \in Nat /\ i < Len(p.segments)
  BY <1>1
<1>5. CASE q = p
  BY <1>5 DEF SameTape
<1>6. CASE q # p
  <2>1. HasTape(p) /\ p.playing /\ passed # {}
    BY <1>6 DEF InputLevel, ends
  <2>2. q = IF stops # {}
            THEN [p EXCEPT !.playing = FALSE, !.index = Min(stops) + 1,
                           !.end = ends[Min(stops)]]
            ELSE [p EXCEPT !.index = Max(passed) + 1,
                           !.end = ends[Max(passed) + 1]]
    BY <2>1, Zenon DEF InputLevel, ends
  <2>3. CASE stops # {}
    <3> DEFINE m == Min(stops)
               e == ends[m]
               r == [p EXCEPT !.playing = FALSE, !.index = m + 1, !.end = e]
    <3>1. stops \in SUBSET Nat
      BY <1>3, <1>4
    <3>2. m \in stops
      <4> HIDE DEF stops
      <4> QED BY <2>3, <3>1, LeastIn
    <3> HIDE DEF m
    <3>3. m \in p.index .. last /\ m \in Nat /\ m < Len(p.segments)
      BY <1>3, <1>4, <3>2
    <3>4. e \in Nat /\ m + 1 \in Nat
      BY <1>2, <3>3
    <3> HIDE DEF e
    <3>5. q = r
      BY <2>2, <2>3, Zenon DEF m, e
    <3>6. r \in Tapes
      BY <1>1, <3>4, Zenon DEF Tapes
    <3>7. /\ r.hz = p.hz /\ r.inserted = p.inserted /\ r.block = p.block
          /\ r.blocks = p.blocks /\ r.playing = FALSE /\ r.stop48 = p.stop48
          /\ r.index = m + 1 /\ r.segments = p.segments
      BY <1>1 DEF Tapes
    <3> HIDE DEF r
    <3>8. IsTape(r)
      BY <1>1, <3>3, <3>6, <3>7 DEF IsTape
    <3>9. SameTape(p, r) /\ Due(r, tick)
      BY <3>7 DEF SameTape, Due
    <3> QED BY <3>5, <3>8, <3>9
  <2>4. CASE stops = {}
    <3> DEFINE m == Max(passed)
               e == ends[m + 1]
               r == [p EXCEPT !.index = m + 1, !.end = e]
    <3>1. Len(p.segments) > 0
      BY <1>1, <2>1, EmptySeq DEF HasTape
    <3>2. last \in Nat /\ passed \in SUBSET (0 .. last)
      BY <1>1, <1>3, <1>4, <3>1
    <3>3. m \in passed
      <4> HIDE DEF passed, last
      <4> QED BY <2>1, <3>2, GreatestIn
    <3> HIDE DEF m
    <3>4. m \in p.index .. last /\ m \in Nat /\ m < Len(p.segments) /\ tick >= ends[m]
      BY <1>3, <1>4, <3>3
    <3>5. m # last
      <4>1. SUFFICES ASSUME m = last PROVE FALSE
        OBVIOUS
      <4>2. m + 1 = Len(p.segments)
        BY <1>1, <4>1
      <4>3. StopsAfter(p, m)
        BY <4>2 DEF StopsAfter
      <4> QED BY <2>4, <3>3, <4>3
    <3>6. m + 1 \in p.index .. last /\ m + 1 \in Nat /\ m + 1 < Len(p.segments)
      BY <1>1, <3>4, <3>5
    <3>7. e \in Nat
      BY <1>2, <3>6
    <3>8. e = ends[m] + TicksOf(p, m + 1)
      <4>1. m + 1 # p.index /\ (m + 1) - 1 = m
        BY <1>1, <3>4
      <4> QED BY <1>2, <3>6, <4>1
    <3>9. TicksOf(p, m + 1) \in Nat /\ ends[m] \in Nat
      <4>1. m + 1 \in 0 .. Len(p.segments) - 1
        BY <1>1, <3>6
      <4> QED BY <1>1, <1>2, <3>4, <4>1, TicksNat
    <3> HIDE DEF e
    <3>10. q = r
      BY <2>2, <2>4, Zenon DEF m, e
    <3>11. r \in Tapes
      BY <1>1, <3>6, <3>7, Zenon DEF Tapes
    <3>12. /\ r.hz = p.hz /\ r.inserted = p.inserted /\ r.block = p.block
           /\ r.blocks = p.blocks /\ r.playing = p.playing /\ r.stop48 = p.stop48
           /\ r.index = m + 1 /\ r.segments = p.segments /\ r.end = e
      BY <1>1 DEF Tapes
    <3> HIDE DEF r
    <3>13. IsTape(r)
      BY <1>1, <3>6, <3>11, <3>12 DEF IsTape
    <3>14. Due(r, tick)
      <4>1. TicksOf(r, r.index) = TicksOf(p, m + 1)
        BY <3>12 DEF TicksOf
      <4> QED BY <3>4, <3>8, <3>9, <3>12, <4>1 DEF Due
    <3>15. SameTape(p, r)
      BY <3>12 DEF SameTape
    <3> QED BY <3>10, <3>13, <3>14, <3>15
  <2> QED BY <2>3, <2>4
<1> QED BY <1>5, <1>6

LEMMA NextBlockIs ==
  ASSUME NEW p, IsTape(p)
  PROVE  NextBlock(p) \in 0 .. Len(p.blocks)
<1> DEFINE ahead == {b \in p.block .. (Len(p.blocks) - 1) : p.blocks[b + 1] > p.index}
<1>1. p.block \in Nat /\ Len(p.blocks) \in Nat
  BY TapeTypes
<1>2. ahead \in SUBSET Nat
  BY <1>1
<1>3. ahead # {} => Min(ahead) \in ahead
  <2> HIDE DEF ahead
  <2> QED BY <1>2, LeastIn
<1>4. NextBlock(p) = IF ahead = {} THEN Len(p.blocks) ELSE Min(ahead)
  BY DEF NextBlock
<1>5. CASE ahead = {}
  BY <1>1, <1>4, <1>5
<1>6. CASE ahead # {}
  <2> DEFINE m == Min(ahead)
  <2>1. m \in p.block .. (Len(p.blocks) - 1)
    BY <1>3, <1>6
  <2>2. NextBlock(p) = m
    BY <1>4, <1>6
  <2> HIDE DEF m
  <2> QED BY <1>1, <2>1, <2>2
<1> QED BY <1>5, <1>6

LEMMA SkipIs ==
  ASSUME NEW p, IsTape(p)
  PROVE  LET q == SkipPlayed(p)
         IN  /\ IsTape(q) /\ SameTape(p, q)
             /\ \A tick : Due(p, tick) => Due(q, tick)
<1> DEFINE q == [p EXCEPT !.block = NextBlock(p)]
<1>1. SkipPlayed(p) = q
  BY Zenon DEF SkipPlayed
<1>2. p \in Tapes /\ Len(p.blocks) \in Nat
  BY TapeTypes
<1>3. NextBlock(p) \in Nat /\ NextBlock(p) <= Len(p.blocks)
  BY <1>2, NextBlockIs
<1>4. q \in Tapes
  BY <1>2, <1>3, Zenon DEF Tapes
<1>5. /\ q.hz = p.hz /\ q.inserted = p.inserted /\ q.block = NextBlock(p)
      /\ q.blocks = p.blocks /\ q.playing = p.playing /\ q.stop48 = p.stop48
      /\ q.index = p.index /\ q.segments = p.segments /\ q.end = p.end
  BY <1>2 DEF Tapes
<1> HIDE DEF q
<1>6. IsTape(q)
  BY <1>3, <1>4, <1>5 DEF IsTape
<1>7. ASSUME NEW tick, Due(p, tick) PROVE Due(q, tick)
  BY <1>5, <1>7 DEF Due, TicksOf
<1> QED BY <1>1, <1>5, <1>6, <1>7 DEF SameTape

LEMMA FastLoadIs ==
  ASSUME NEW p, IsTape(p), CanFastLoad(p), NEW tick \in Nat
  PROVE  LET q == FastLoad(p, tick)
         IN  IsTape(q) /\ SameTape(p, q) /\ Due(q, tick)
<1> DEFINE n == NextBlock(p)
           resume == p.blocks[n + 1]
           more   == resume < Len(p.segments)
           end    == IF more THEN tick + TicksOf(p, resume) ELSE 0
           q == [p EXCEPT !.block = n + 1, !.index = resume, !.playing = more,
                          !.end = end]
<1>1. FastLoad(p, tick) = q
  BY Zenon DEF FastLoad
<1>2. /\ p \in Tapes /\ Len(p.blocks) \in Nat /\ Len(p.segments) \in Nat
      /\ DOMAIN p.blocks = 1 .. Len(p.blocks) /\ p.blocks \in Seq(Nat)
  BY TapeTypes
<1>3. n \in Nat /\ n + 1 \in 1 .. Len(p.blocks)
  <2>1. n \in 0 .. Len(p.blocks) /\ n < Len(p.blocks)
    BY NextBlockIs DEF CanFastLoad
  <2> QED BY <1>2, <2>1
<1> HIDE DEF n
<1>4. resume \in Nat /\ resume <= Len(p.segments)
  <2>1. resume \in Nat
    BY <1>2, <1>3, ElementOfSeq
  <2>2. resume <= Len(p.segments)
    BY <1>2, <1>3 DEF IsTape
  <2> QED BY <2>1, <2>2
<1> HIDE DEF resume
<1>5. more => TicksOf(p, resume) \in Nat
  BY <1>2, <1>4, TicksNat
<1>6. end \in Nat /\ n + 1 \in Nat /\ more \in BOOLEAN
  BY <1>3, <1>5
<1>7. q \in Tapes
  <2> HIDE DEF end, more
  <2> QED BY <1>2, <1>4, <1>6, Zenon DEF Tapes
<1>8. /\ q.hz = p.hz /\ q.inserted = p.inserted /\ q.block = n + 1
      /\ q.blocks = p.blocks /\ q.playing = more /\ q.stop48 = p.stop48
      /\ q.index = resume /\ q.segments = p.segments /\ q.end = end
  BY <1>2 DEF Tapes
<1> HIDE DEF q
<1>9. /\ more => q.playing = TRUE /\ q.end = tick + TicksOf(p, resume)
      /\ ~more => q.playing = FALSE
      /\ more <=> resume < Len(p.segments)
  <2>1. q.playing = more /\ more \in BOOLEAN
    BY <1>6, <1>8
  <2>2. q.end = IF more THEN tick + TicksOf(p, resume) ELSE 0
    BY <1>8
  <2>3. more <=> resume < Len(p.segments)
    OBVIOUS
  <2> HIDE DEF more
  <2> QED BY <2>1, <2>2, <2>3, Zenon
<1> HIDE DEF more
<1>10. q.playing => resume < Len(p.segments)
  BY <1>9, Zenon
<1>11. IsTape(q)
  <2>1. q.index <= Len(q.segments) /\ q.block <= Len(q.blocks)
    BY <1>2, <1>3, <1>4, <1>8
  <2>2. /\ \A i \in DOMAIN q.blocks : q.blocks[i] <= Len(q.segments)
        /\ \A i \in DOMAIN q.segments :
             q.hz \in Clocks /\ RightLength(q.segments[i], q.hz)
    BY <1>8, Zenon DEF IsTape
  <2> QED BY <1>7, <1>8, <1>10, <2>1, <2>2, Zenon DEF IsTape
<1>12. Due(q, tick)
  <2>1. TicksOf(q, q.index) = TicksOf(p, resume)
    BY <1>8 DEF TicksOf
  <2>2. more => q.end <= tick + TicksOf(q, q.index)
    BY <1>5, <1>9, <2>1
  <2> QED BY <1>9, <2>2, Zenon DEF Due
<1> QED BY <1>1, <1>8, <1>11, <1>12 DEF SameTape

-----------------------------------------------------------------------------
(* The application.                                                        *)

UserCodes == UNION {u.codes : u \in Uses}
Codes == UserCodes \union {"j", "quote", "enter"}
Texts == {<<>>, Basic, Menu}
Ticks == 0 .. TickModulus - 1
Checkpoints == [model : Models, tick : Ticks, keys : SUBSET Codes]

Apps ==
  [kind : Kinds, model : Models, tick : Ticks, keys : [Kinds -> SUBSET Codes],
   held : [HostKeys -> Codes \union {None}], text : Texts, position : Nat,
   cooldown : 0 .. BootFrames, hold : 0 .. HoldFrames,
   active : Codes \union {None}, pending : BOOLEAN, armed : BOOLEAN,
   seen : BOOLEAN, idle : 0 .. IdleFrames - 1, tape : Tapes,
   autoload : BOOLEAN, fast : BOOLEAN, ring : Seq(Checkpoints),
   wait : 1 .. CaptureFrames]

\* What PendingIsTyped says of an application.
Waits(a) ==
  a.pending => a.tape.inserted /\ (a.position < Len(a.text) \/ a.active # None)

IsApp(a) ==
  /\ a \in Apps /\ IsTape(a.tape)
  /\ a.position <= Len(a.text) /\ Len(a.ring) <= Slots
  /\ Waits(a)

\* What KeysReleased and TapeInStep say of an application.
Released(a) ==
  \A kind \in Kinds :
    a.keys[kind] \subseteq
      IF kind = a.kind THEN HeldCodes(a) \union {a.active} ELSE {}
InStep(a) ==
  a.tape.inserted =>
    /\ a.tape.hz = Clock(a.model)
    /\ a.tape.stop48 <=> a.model = "48K"
    /\ Due(a.tape, a.tick)

Steady(a, b) == (Released(a) => Released(b)) /\ (InStep(a) => InStep(b))

\* What is the same before and after most operators.
SameMachine(a, b) ==
  b.kind = a.kind /\ b.model = a.model /\ b.tick = a.tick /\ b.tape = a.tape
SameKeys(a, b) ==
  b.kind = a.kind /\ b.keys = a.keys /\ b.held = a.held /\ b.active = a.active
SameTyping(a, b) ==
  /\ b.pending = a.pending /\ b.text = a.text /\ b.position = a.position
  /\ b.active = a.active

LEMMA Frames ==
  /\ BootFrames \in Nat /\ HoldFrames \in Nat /\ CooldownFrames \in 0 .. BootFrames
  /\ FrameTicks \in Nat /\ TickModulus \in Nat /\ TickModulus > 0
  /\ IdleFrames \in Nat /\ IdleFrames > 0
  /\ CaptureFrames \in Nat /\ CaptureFrames > 0 /\ Slots \in Nat /\ Slots > 0
  /\ Ticks \subseteq Nat /\ 0 \in Ticks /\ 0 \in 0 .. BootFrames
  /\ 0 \in 0 .. HoldFrames /\ 0 \in 0 .. IdleFrames - 1 /\ 1 \in 1 .. CaptureFrames
  /\ BootFrames \in 0 .. BootFrames /\ HoldFrames \in 0 .. HoldFrames
  /\ CaptureFrames \in 1 .. CaptureFrames
BY FramesAssumption DEF Ticks

LEMMA CodeFacts ==
  /\ None \notin Codes /\ {"j", "quote", "enter"} \subseteq Codes
  /\ \A u \in Uses : u.codes \subseteq Codes
<1>1. \A u \in Uses : None \notin u.codes
  BY UsesAssumption
<1>2. None \notin {"j", "quote", "enter"}
  BY DEF None
<1>3. None \notin UserCodes
  BY <1>1, Zenon DEF UserCodes
<1>4. \A u \in Uses : u.codes \subseteq UserCodes
  BY Zenon DEF UserCodes
<1> QED BY <1>2, <1>3, <1>4 DEF Codes

LEMMA TextFacts ==
  /\ Len(<<>>) = 0 /\ Len(Basic) = 4 /\ Len(Menu) = 1
  /\ Basic # <<>> /\ Menu # <<>>
  /\ \A i \in 1 .. 4 : Basic[i] \in Codes
  /\ \A i \in 1 .. 1 : Menu[i] \in Codes
<1>1. Len(<<>>) = 0 /\ Len(Basic) = 4 /\ Len(Menu) = 1
  BY DEF Basic, Menu
<1>2. \A i \in 1 .. 4 : Basic[i] \in {"j", "quote", "enter"}
  BY DEF Basic
<1>3. \A i \in 1 .. 1 : Menu[i] \in {"j", "quote", "enter"}
  BY DEF Menu
<1> QED BY <1>1, <1>2, <1>3, CodeFacts

LEMMA ClockType ==
  /\ \A model : Clock(model) \in Clocks
  /\ {"48K", "128K", "plus3"} \subseteq Models
BY UsesAssumption DEF Clock, Clocks

LEMMA TextLength ==
  ASSUME NEW text \in Texts
  PROVE  Len(text) \in Nat /\ \A i \in 1 .. Len(text) : text[i] \in Codes
BY TextFacts DEF Texts

LEMMA AppTypes ==
  ASSUME NEW a, IsApp(a)
  PROVE  /\ a \in Apps /\ IsTape(a.tape) /\ a.tape \in Tapes
         /\ a.kind \in Kinds /\ a.model \in Models /\ a.tick \in Ticks /\ a.tick \in Nat
         /\ a.keys \in [Kinds -> SUBSET Codes]
         /\ a.held \in [HostKeys -> Codes \union {None}]
         /\ a.text \in Texts /\ Len(a.text) \in Nat
         /\ a.position \in Nat /\ a.position <= Len(a.text)
         /\ a.active \in Codes \union {None}
         /\ a.ring \in Seq(Checkpoints) /\ Len(a.ring) \in Nat /\ Len(a.ring) <= Slots
         /\ a.pending \in BOOLEAN /\ a.fast \in BOOLEAN /\ a.armed \in BOOLEAN
         /\ a.autoload \in BOOLEAN /\ a.seen \in BOOLEAN
<1>1. a \in Apps /\ IsTape(a.tape) /\ a.position <= Len(a.text) /\ Len(a.ring) <= Slots
  BY DEF IsApp
<1>2. /\ a.tape \in Tapes
      /\ a.kind \in Kinds /\ a.model \in Models /\ a.tick \in Ticks
      /\ a.keys \in [Kinds -> SUBSET Codes]
      /\ a.held \in [HostKeys -> Codes \union {None}]
      /\ a.text \in Texts /\ a.position \in Nat /\ a.active \in Codes \union {None}
      /\ a.ring \in Seq(Checkpoints)
      /\ a.pending \in BOOLEAN /\ a.fast \in BOOLEAN /\ a.armed \in BOOLEAN
      /\ a.autoload \in BOOLEAN /\ a.seen \in BOOLEAN
  BY <1>1 DEF Apps
<1>3. Len(a.ring) \in Nat
  BY <1>2
<1> QED BY <1>1, <1>2, <1>3, TextLength, Frames

LEMMA AppCounts ==
  ASSUME NEW a, IsApp(a)
  PROVE  /\ a.cooldown \in 0 .. BootFrames /\ a.hold \in 0 .. HoldFrames
         /\ a.idle \in 0 .. IdleFrames - 1 /\ a.wait \in 1 .. CaptureFrames
BY DEF IsApp, Apps

\* Keys of the machine that runs change only as the operators below say.
LEMMA MachineKept ==
  ASSUME NEW a, NEW b, SameMachine(a, b)
  PROVE  InStep(a) => InStep(b)
BY DEF SameMachine, InStep

LEMMA KeysKept ==
  ASSUME NEW a, NEW b, SameKeys(a, b)
  PROVE  Released(a) => Released(b)
BY DEF SameKeys, Released, HeldCodes

-----------------------------------------------------------------------------
(* Keys and typing.                                                        *)

LEMMA KeyUpIs ==
  ASSUME NEW a, IsApp(a), NEW code
  PROVE  LET b == KeyUp(a, code)
         IN  /\ IsApp(b) /\ SameMachine(a, b) /\ SameTyping(a, b)
             /\ b.held = a.held /\ b.keys = [a.keys EXCEPT ![a.kind] = @ \ {code}]
<1> DEFINE keys == [a.keys EXCEPT ![a.kind] = @ \ {code}]
           b == [a EXCEPT !.keys = keys]
<1>1. KeyUp(a, code) = b
  BY Zenon DEF KeyUp
<1>2. a \in Apps /\ a.kind \in Kinds /\ a.keys \in [Kinds -> SUBSET Codes]
  BY AppTypes
<1>3. keys \in [Kinds -> SUBSET Codes]
  BY <1>2
<1> HIDE DEF keys
<1>4. b \in Apps
  BY <1>2, <1>3, Zenon DEF Apps
<1>5. /\ SameMachine(a, b) /\ SameTyping(a, b) /\ b.held = a.held /\ b.keys = keys
      /\ b.ring = a.ring
  BY <1>2 DEF Apps, SameMachine, SameTyping
<1> HIDE DEF b
<1>6. IsApp(b)
  BY <1>4, <1>5, Zenon DEF IsApp, Waits, SameMachine, SameTyping
<1> QED BY <1>1, <1>5, <1>6 DEF keys

LEMMA KeyDownIs ==
  ASSUME NEW a, IsApp(a), NEW code \in Codes
  PROVE  LET b == KeyDown(a, code)
         IN  /\ IsApp(b) /\ SameMachine(a, b) /\ SameTyping(a, b)
             /\ b.held = a.held
             /\ b.keys = [a.keys EXCEPT ![a.kind] = @ \union {code}]
<1> DEFINE keys == [a.keys EXCEPT ![a.kind] = @ \union {code}]
           b == [a EXCEPT !.keys = keys]
<1>1. KeyDown(a, code) = b
  BY Zenon DEF KeyDown
<1>2. a \in Apps /\ a.kind \in Kinds /\ a.keys \in [Kinds -> SUBSET Codes]
  BY AppTypes
<1>3. keys \in [Kinds -> SUBSET Codes]
  BY <1>2
<1> HIDE DEF keys
<1>4. b \in Apps
  BY <1>2, <1>3, Zenon DEF Apps
<1>5. /\ SameMachine(a, b) /\ SameTyping(a, b) /\ b.held = a.held /\ b.keys = keys
      /\ b.ring = a.ring
  BY <1>2 DEF Apps, SameMachine, SameTyping
<1> HIDE DEF b
<1>6. IsApp(b)
  BY <1>4, <1>5, Zenon DEF IsApp, Waits, SameMachine, SameTyping
<1> QED BY <1>1, <1>5, <1>6 DEF keys

LEMMA ReleaseAllKeysIs ==
  ASSUME NEW a, IsApp(a)
  PROVE  LET b == ReleaseAllKeys(a)
         IN  /\ IsApp(b) /\ SameMachine(a, b) /\ SameTyping(a, b)
             /\ b.autoload = a.autoload
             /\ Released(a) => Released(b)
<1> DEFINE keys == [a.keys EXCEPT ![a.kind] = @ \ HeldCodes(a)]
           held == [k \in HostKeys |-> None]
           b == [a EXCEPT !.keys = keys, !.held = held]
<1>1. ReleaseAllKeys(a) = b
  BY Zenon DEF ReleaseAllKeys
<1>2. a \in Apps /\ a.kind \in Kinds /\ a.keys \in [Kinds -> SUBSET Codes]
  BY AppTypes
<1>3. keys \in [Kinds -> SUBSET Codes] /\ held \in [HostKeys -> Codes \union {None}]
  BY <1>2
<1>4. b \in Apps
  <2> HIDE DEF keys, held
  <2> QED BY <1>2, <1>3, Zenon DEF Apps
<1>5. /\ SameMachine(a, b) /\ SameTyping(a, b) /\ b.held = held /\ b.keys = keys
      /\ b.ring = a.ring /\ b.autoload = a.autoload
  <2> HIDE DEF keys, held
  <2> QED BY <1>2 DEF Apps, SameMachine, SameTyping
<1> HIDE DEF b
<1>6. IsApp(b)
  BY <1>4, <1>5, Zenon DEF IsApp, Waits, SameMachine, SameTyping
<1>7. ASSUME Released(a) PROVE Released(b)
  <2>1. b.active = a.active /\ b.kind = a.kind
    BY <1>5 DEF SameTyping, SameMachine
  <2>2. SUFFICES ASSUME NEW kind \in Kinds
                 PROVE  b.keys[kind] \subseteq
                          IF kind = b.kind THEN HeldCodes(b) \union {b.active} ELSE {}
    BY DEF Released
  <2>3. a.keys[kind] \subseteq
          IF kind = a.kind THEN HeldCodes(a) \union {a.active} ELSE {}
    BY <1>7 DEF Released
  <2>4. b.keys[kind] = IF kind = a.kind THEN a.keys[kind] \ HeldCodes(a) ELSE a.keys[kind]
    BY <1>2, <1>5
  <2> QED BY <2>1, <2>3, <2>4
<1> QED BY <1>1, <1>5, <1>6, <1>7

LEMMA AutotypeClearIs ==
  ASSUME NEW a, IsApp(a)
  PROVE  LET b == AutotypeClear(a)
         IN  /\ IsApp(b) /\ SameMachine(a, b)
             /\ b.pending = FALSE /\ b.active = None /\ b.text = <<>>
             /\ b.position = 0 /\ b.autoload = a.autoload
             /\ Released(a) => Released(b)
<1> DEFINE c == KeyUp(a, a.active)
           b == [c EXCEPT !.text = <<>>, !.position = 0, !.cooldown = 0,
                          !.hold = 0, !.active = None, !.pending = FALSE]
<1>1. AutotypeClear(a) = b
  BY Zenon DEF AutotypeClear
<1>2. /\ IsApp(c) /\ SameMachine(a, c) /\ c.held = a.held
      /\ c.keys = [a.keys EXCEPT ![a.kind] = @ \ {a.active}]
      /\ c.autoload = a.autoload
  <2>1. c.autoload = a.autoload
    BY AppTypes DEF KeyUp, Apps
  <2> QED BY <2>1, KeyUpIs
<1> HIDE DEF c
<1>3. c \in Apps /\ a.kind \in Kinds /\ a.keys \in [Kinds -> SUBSET Codes]
  BY <1>2, AppTypes
<1>4. b \in Apps
  <2>1. <<>> \in Texts /\ None \in Codes \union {None}
    BY DEF Texts
  <2> QED BY <1>3, <2>1, Frames, Zenon DEF Apps
<1>5. /\ SameMachine(c, b) /\ b.held = c.held /\ b.keys = c.keys /\ b.ring = c.ring
      /\ b.pending = FALSE /\ b.active = None /\ b.text = <<>> /\ b.position = 0
      /\ b.autoload = c.autoload
  BY <1>3 DEF Apps, SameMachine
<1> HIDE DEF b
<1>6. IsApp(b)
  BY <1>2, <1>4, <1>5, TextFacts DEF IsApp, Waits, SameMachine
<1>7. SameMachine(a, b)
  BY <1>2, <1>5 DEF SameMachine
<1>8. ASSUME Released(a) PROVE Released(b)
  <2>1. HeldCodes(b) = HeldCodes(a) /\ b.kind = a.kind
    BY <1>2, <1>5, <1>7 DEF HeldCodes, SameMachine
  <2>2. SUFFICES ASSUME NEW kind \in Kinds
                 PROVE  b.keys[kind] \subseteq
                          IF kind = b.kind THEN HeldCodes(b) \union {b.active} ELSE {}
    BY DEF Released
  <2>3. a.keys[kind] \subseteq
          IF kind = a.kind THEN HeldCodes(a) \union {a.active} ELSE {}
    BY <1>8 DEF Released
  <2>4. b.keys[kind] = IF kind = a.kind THEN a.keys[kind] \ {a.active} ELSE a.keys[kind]
    BY <1>2, <1>3, <1>5
  <2> QED BY <2>1, <2>3, <2>4
<1> QED BY <1>1, <1>2, <1>5, <1>6, <1>7, <1>8

\* Both, as every change of machine begins: no key of the running machine is
\* left down.
Silent(a) == \A kind \in Kinds : a.keys[kind] = {}

LEMMA QuietIs ==
  ASSUME NEW a, IsApp(a)
  PROVE  LET b == ReleaseAllKeys(AutotypeClear(a))
         IN  /\ IsApp(b) /\ SameMachine(a, b)
             /\ b.pending = FALSE /\ b.active = None /\ b.text = <<>>
             /\ b.position = 0 /\ b.autoload = a.autoload
             /\ Released(a) => Released(b) /\ Silent(b)
<1> DEFINE c == AutotypeClear(a)
           b == ReleaseAllKeys(c)
<1>1. /\ IsApp(c) /\ SameMachine(a, c) /\ c.pending = FALSE /\ c.active = None
      /\ c.text = <<>> /\ c.position = 0 /\ c.autoload = a.autoload
      /\ Released(a) => Released(c)
  BY AutotypeClearIs
<1> HIDE DEF c
<1>2. /\ IsApp(b) /\ SameMachine(c, b) /\ SameTyping(c, b) /\ b.autoload = c.autoload
      /\ Released(c) => Released(b)
  BY <1>1, ReleaseAllKeysIs
<1>3. ASSUME Released(c) PROVE Silent(b)
  <2>1. c \in Apps /\ c.kind \in Kinds /\ c.keys \in [Kinds -> SUBSET Codes]
    BY <1>1, AppTypes
  <2>2. b.keys = [c.keys EXCEPT ![c.kind] = @ \ HeldCodes(c)]
    BY <2>1 DEF ReleaseAllKeys, Apps
  <2>3. SUFFICES ASSUME NEW kind \in Kinds PROVE b.keys[kind] = {}
    BY DEF Silent
  <2>4. c.keys[kind] \subseteq
          IF kind = c.kind THEN HeldCodes(c) \union {c.active} ELSE {}
    BY <1>3 DEF Released
  <2>5. c.keys[kind] \subseteq Codes
    BY <2>1
  <2>6. None \notin c.keys[kind]
    BY <2>5, CodeFacts
  <2>7. b.keys[kind] = IF kind = c.kind THEN c.keys[kind] \ HeldCodes(c) ELSE c.keys[kind]
    BY <2>1, <2>2
  <2> QED BY <1>1, <2>4, <2>6, <2>7
<1> HIDE DEF b
<1>4. SameMachine(a, b)
  BY <1>1, <1>2 DEF SameMachine
<1> QED BY <1>1, <1>2, <1>3, <1>4 DEF SameTyping, b, c

LEMMA StartAutotypeIs ==
  ASSUME NEW a, IsApp(a), NEW text \in Texts
  PROVE  LET b == StartAutotype(a, text)
         IN  /\ IsApp(b) /\ SameMachine(a, b)
             /\ b.pending = FALSE /\ b.active = None /\ b.text = text
             /\ b.position = 0
             /\ Released(a) => Released(b)
<1> DEFINE c == ReleaseAllKeys(a)
           d == AutotypeClear(c)
           b == [d EXCEPT !.text = text]
<1>1. StartAutotype(a, text) = b
  BY Zenon DEF StartAutotype
<1>2. IsApp(c) /\ SameMachine(a, c) /\ (Released(a) => Released(c))
  BY ReleaseAllKeysIs
<1> HIDE DEF c
<1>3. /\ IsApp(d) /\ SameMachine(c, d) /\ d.pending = FALSE /\ d.active = None
      /\ d.position = 0 /\ (Released(c) => Released(d))
  BY <1>2, AutotypeClearIs
<1> HIDE DEF d
<1>4. d \in Apps
  BY <1>3, AppTypes
<1>5. b \in Apps
  BY <1>4, Zenon DEF Apps
<1>6. /\ SameMachine(d, b) /\ SameKeys(d, b) /\ b.pending = d.pending
      /\ b.text = text /\ b.position = d.position /\ b.ring = d.ring
      /\ b.active = d.active
  BY <1>4 DEF Apps, SameMachine, SameKeys
<1> HIDE DEF b
<1>7. IsApp(b)
  <2>1. Len(text) \in Nat
    BY TextLength
  <2> QED BY <1>3, <1>5, <1>6, <2>1 DEF IsApp, Waits, SameMachine
<1>8. SameMachine(a, b) /\ (Released(d) => Released(b))
  BY <1>2, <1>3, <1>6, KeysKept DEF SameMachine
<1> QED BY <1>1, <1>2, <1>3, <1>6, <1>7, <1>8

LEMMA SetHeld ==
  ASSUME NEW a, IsApp(a), NEW k \in HostKeys, NEW code \in Codes \union {None}
  PROVE  LET b == [a EXCEPT !.held[k] = code]
         IN  /\ IsApp(b) /\ SameMachine(a, b) /\ SameTyping(a, b)
             /\ b.keys = a.keys /\ b.held = [a.held EXCEPT ![k] = code]
<1> DEFINE held == [a.held EXCEPT ![k] = code]
           b == [a EXCEPT !.held = held]
<1>1. [a EXCEPT !.held[k] = code] = b
  OBVIOUS
<1>2. a \in Apps /\ a.held \in [HostKeys -> Codes \union {None}]
  BY AppTypes
<1>3. held \in [HostKeys -> Codes \union {None}]
  BY <1>2
<1> HIDE DEF held
<1>4. b \in Apps
  BY <1>2, <1>3, Zenon DEF Apps
<1>5. /\ SameMachine(a, b) /\ SameTyping(a, b) /\ b.held = held /\ b.keys = a.keys
      /\ b.ring = a.ring
  BY <1>2 DEF Apps, SameMachine, SameTyping
<1> HIDE DEF b
<1>6. IsApp(b)
  BY <1>4, <1>5, Zenon DEF IsApp, Waits, SameMachine, SameTyping
<1> QED BY <1>1, <1>5, <1>6 DEF held

LEMMA HostKeyDownIs ==
  ASSUME NEW a, IsApp(a), NEW k \in HostKeys, NEW code \in Codes
  PROVE  LET b == HostKeyDown(a, k, code)
         IN  IsApp(b) /\ Steady(a, b)
<1> DEFINE other == a.held[k] \notin {None, code}
           c == IF other THEN KeyUp(a, a.held[k]) ELSE a
           d == [c EXCEPT !.held[k] = code]
           b == KeyDown(d, code)
<1>1. HostKeyDown(a, k, code) = b
  BY Zenon DEF HostKeyDown
<1>2. /\ a.kind \in Kinds /\ a.keys \in [Kinds -> SUBSET Codes]
      /\ a.held \in [HostKeys -> Codes \union {None}]
  BY AppTypes
<1>3. /\ IsApp(c) /\ SameMachine(a, c) /\ SameTyping(a, c) /\ c.held = a.held
      /\ c.keys = IF other THEN [a.keys EXCEPT ![a.kind] = @ \ {a.held[k]}] ELSE a.keys
  <2>1. CASE other
    <3> HIDE DEF other
    <3> QED BY <2>1, KeyUpIs
  <2>2. CASE ~other
    <3> HIDE DEF other
    <3> QED BY <2>2 DEF SameMachine, SameTyping
  <2> QED BY <2>1, <2>2
<1> HIDE DEF c
<1>4. /\ IsApp(d) /\ SameMachine(c, d) /\ SameTyping(c, d) /\ d.keys = c.keys
      /\ d.held = [c.held EXCEPT ![k] = code]
  BY <1>3, SetHeld
<1> HIDE DEF d
<1>5. /\ IsApp(b) /\ SameMachine(d, b) /\ SameTyping(d, b) /\ b.held = d.held
      /\ b.keys = [d.keys EXCEPT ![d.kind] = @ \union {code}]
  BY <1>4, KeyDownIs
<1> HIDE DEF b
<1>6. SameMachine(a, b) /\ b.active = a.active /\ b.kind = a.kind /\ d.kind = a.kind
  BY <1>3, <1>4, <1>5 DEF SameMachine, SameTyping
<1>7. ASSUME Released(a) PROVE Released(b)
  <2>1. SUFFICES ASSUME NEW kind \in Kinds, NEW x \in b.keys[kind]
                 PROVE  x \in IF kind = b.kind THEN HeldCodes(b) \union {b.active} ELSE {}
    BY DEF Released
  <2>2. a.keys[kind] \subseteq
          IF kind = a.kind THEN HeldCodes(a) \union {a.active} ELSE {}
    BY <1>7 DEF Released
  <2>3. b.held = [a.held EXCEPT ![k] = code]
    BY <1>3, <1>4, <1>5
  <2>4. code \in HeldCodes(b)
    <3>1. b.held[k] = code /\ code # None
      BY <1>2, <2>3, CodeFacts
    <3> QED BY <3>1 DEF HeldCodes
  <2>5. CASE kind # a.kind
    <3>1. b.keys[kind] = a.keys[kind]
      BY <1>2, <1>3, <1>4, <1>5, <1>6, <2>5
    <3> QED BY <2>2, <2>5, <3>1
  <2>6. CASE kind = a.kind
    <3>1. x = code \/ (x \in a.keys[kind] /\ (other => x # a.held[k]))
      BY <1>2, <1>3, <1>4, <1>5, <1>6, <2>6
    <3>2. ASSUME x # code, x \in HeldCodes(a) PROVE x \in HeldCodes(b)
      <4>1. PICK j \in HostKeys : x = a.held[j] /\ x # None
        BY <3>2 DEF HeldCodes
      <4>2. j # k
        BY <3>1, <3>2, <4>1
      <4>3. b.held[j] = x
        BY <1>2, <2>3, <4>1, <4>2
      <4> QED BY <4>1, <4>3 DEF HeldCodes
    <3> QED BY <1>6, <2>2, <2>4, <2>6, <3>1, <3>2
  <2> QED BY <2>5, <2>6
<1> QED BY <1>1, <1>5, <1>6, <1>7, MachineKept DEF Steady

LEMMA HostKeyUpIs ==
  ASSUME NEW a, IsApp(a), NEW k \in HostKeys
  PROVE  LET b == HostKeyUp(a, k)
         IN  IsApp(b) /\ Steady(a, b)
<1> DEFINE c == KeyUp(a, a.held[k])
           b == [c EXCEPT !.held[k] = None]
<1>1. HostKeyUp(a, k) = b
  BY Zenon DEF HostKeyUp
<1>2. /\ a.kind \in Kinds /\ a.keys \in [Kinds -> SUBSET Codes]
      /\ a.held \in [HostKeys -> Codes \union {None}]
  BY AppTypes
<1>3. /\ IsApp(c) /\ SameMachine(a, c) /\ SameTyping(a, c) /\ c.held = a.held
      /\ c.keys = [a.keys EXCEPT ![a.kind] = @ \ {a.held[k]}]
  BY KeyUpIs
<1> HIDE DEF c
<1>4. /\ IsApp(b) /\ SameMachine(c, b) /\ SameTyping(c, b) /\ b.keys = c.keys
      /\ b.held = [c.held EXCEPT ![k] = None]
  BY <1>3, SetHeld
<1> HIDE DEF b
<1>5. SameMachine(a, b) /\ b.active = a.active /\ b.kind = a.kind
  BY <1>3, <1>4 DEF SameMachine, SameTyping
<1>6. ASSUME Released(a) PROVE Released(b)
  <2>1. SUFFICES ASSUME NEW kind \in Kinds, NEW x \in b.keys[kind]
                 PROVE  x \in IF kind = b.kind THEN HeldCodes(b) \union {b.active} ELSE {}
    BY DEF Released
  <2>2. a.keys[kind] \subseteq
          IF kind = a.kind THEN HeldCodes(a) \union {a.active} ELSE {}
    BY <1>6 DEF Released
  <2>3. b.held = [a.held EXCEPT ![k] = None]
    BY <1>3, <1>4
  <2>4. CASE kind # a.kind
    <3>1. b.keys[kind] = a.keys[kind]
      BY <1>2, <1>3, <1>4, <2>4
    <3> QED BY <2>2, <2>4, <3>1
  <2>5. CASE kind = a.kind
    <3>1. x \in a.keys[kind] /\ x # a.held[k]
      BY <1>2, <1>3, <1>4, <2>5
    <3>2. ASSUME x \in HeldCodes(a) PROVE x \in HeldCodes(b)
      <4>1. PICK j \in HostKeys : x = a.held[j] /\ x # None
        BY <3>2 DEF HeldCodes
      <4>2. b.held[j] = x
        BY <1>2, <2>3, <3>1, <4>1
      <4> QED BY <4>1, <4>2 DEF HeldCodes
    <3> QED BY <1>5, <2>2, <2>5, <3>1, <3>2
  <2> QED BY <2>4, <2>5
<1> QED BY <1>1, <1>4, <1>5, <1>6, MachineKept DEF Steady

-----------------------------------------------------------------------------
(* The tape in the application.                                            *)

\* What the operators on the tape leave alone.
SameApp(a, b) ==
  /\ SameKeys(a, b) /\ SameTyping(a, b)
  /\ b.model = a.model /\ b.tick = a.tick
  /\ b.fast = a.fast /\ b.autoload = a.autoload /\ b.ring = a.ring

LEMMA SetTape ==
  ASSUME NEW a, IsApp(a), NEW p, IsTape(p), a.tape.inserted => p.inserted
  PROVE  LET b == [a EXCEPT !.tape = p]
         IN  /\ IsApp(b) /\ SameApp(a, b) /\ b.tape = p
             /\ b.armed = a.armed /\ b.seen = a.seen /\ b.idle = a.idle
<1> DEFINE b == [a EXCEPT !.tape = p]
<1>1. a \in Apps /\ p \in Tapes /\ a.pending \in BOOLEAN
  BY AppTypes, TapeTypes
<1>2. b \in Apps
  BY <1>1, Zenon DEF Apps
<1>3. /\ SameApp(a, b) /\ b.tape = p /\ b.kind = a.kind
      /\ b.armed = a.armed /\ b.seen = a.seen /\ b.idle = a.idle
  BY <1>1 DEF Apps, SameApp, SameKeys, SameTyping
<1> HIDE DEF b
<1>4. IsApp(b)
  BY <1>2, <1>3 DEF IsApp, Waits, SameApp, SameTyping
<1> QED BY <1>3, <1>4 DEF b

LEMMA SyncStopModeIs ==
  ASSUME NEW a, IsApp(a)
  PROVE  LET b == SyncStopMode(a)
         IN  /\ IsApp(b) /\ SameApp(a, b)
             /\ b.tape.inserted = a.tape.inserted /\ b.tape.hz = a.tape.hz
             /\ b.tape.playing = a.tape.playing
             /\ b.tape.stop48 <=> a.model = "48K"
             /\ b.tape.end = a.tape.end /\ b.tape.index = a.tape.index
             /\ b.tape.segments = a.tape.segments
<1> DEFINE m == a.model = "48K"
           p == SetStopMode(a.tape, m)
           b == [a EXCEPT !.tape = p]
<1>1. SyncStopMode(a) = b
  BY Zenon DEF SyncStopMode
<1>2. m \in BOOLEAN
  OBVIOUS
<1>3. IsTape(a.tape)
  BY AppTypes
<1>4. /\ IsTape(p) /\ p.hz = a.tape.hz /\ p.inserted = a.tape.inserted
      /\ p.playing = a.tape.playing /\ p.stop48 = m /\ p.end = a.tape.end
      /\ p.index = a.tape.index /\ p.segments = a.tape.segments
  <2> HIDE DEF m
  <2> QED BY <1>2, <1>3, StopModeIs
<1>5. p.stop48 <=> a.model = "48K"
  BY <1>4, Zenon
<1> HIDE DEF p, m
<1>6. IsApp(b) /\ SameApp(a, b) /\ b.tape = p
  BY <1>4, SetTape
<1> HIDE DEF b
<1> QED BY <1>1, <1>4, <1>5, <1>6

LEMMA RewindTapeIs ==
  ASSUME NEW a, IsApp(a)
  PROVE  LET b == RewindTape(a)
         IN  /\ IsApp(b) /\ SameApp(a, b)
             /\ b.tape.inserted = a.tape.inserted
             /\ b.tape.hz = Clock(a.model) /\ b.tape.playing = FALSE
             /\ b.tape.stop48 = a.tape.stop48
<1> DEFINE p == TapeRewind(a.tape, Clock(a.model))
           b == [a EXCEPT !.tape = p]
<1>1. RewindTape(a) = b
  BY Zenon DEF RewindTape
<1>2. IsTape(a.tape) /\ Clock(a.model) \in Clocks
  BY AppTypes, ClockType
<1>3. /\ IsTape(p) /\ p.hz = Clock(a.model) /\ p.playing = FALSE
      /\ p.inserted = a.tape.inserted /\ p.stop48 = a.tape.stop48
  BY <1>2, RewindIs
<1> HIDE DEF p
<1>4. IsApp(b) /\ SameApp(a, b) /\ b.tape = p
  BY <1>3, SetTape
<1> HIDE DEF b
<1> QED BY <1>1, <1>3, <1>4

\* A tape that is rewound after its stop mode was set is in step, whatever it
\* was before.
LEMMA RewoundIs ==
  ASSUME NEW a, IsApp(a)
  PROVE  LET b == RewindTape(SyncStopMode(a))
         IN  /\ IsApp(b) /\ SameApp(a, b)
             /\ b.tape.inserted = a.tape.inserted /\ b.tape.playing = FALSE
             /\ InStep(b)
<1> DEFINE c == SyncStopMode(a)
           b == RewindTape(c)
<1>1. /\ IsApp(c) /\ SameApp(a, c) /\ c.tape.inserted = a.tape.inserted
      /\ c.tape.stop48 <=> a.model = "48K"
  BY SyncStopModeIs
<1> HIDE DEF c
<1>2. /\ IsApp(b) /\ SameApp(c, b) /\ b.tape.inserted = c.tape.inserted
      /\ b.tape.hz = Clock(c.model) /\ b.tape.playing = FALSE
      /\ b.tape.stop48 = c.tape.stop48
  BY <1>1, RewindTapeIs
<1> HIDE DEF b
<1>3. SameApp(a, b)
  BY <1>1, <1>2 DEF SameApp, SameKeys, SameTyping
<1>4. InStep(b)
  <2>1. b.model = a.model /\ c.model = a.model
    BY <1>1, <1>2 DEF SameApp
  <2>2. b.tape.stop48 <=> b.model = "48K"
    BY <1>1, <1>2, <2>1
  <2> QED BY <1>2, <2>1, <2>2 DEF InStep, Due
<1> QED BY <1>1, <1>2, <1>3, <1>4 DEF b, c

\* A tape that is stopped stays in step.
LEMMA StoppedIs ==
  ASSUME NEW a, IsApp(a)
  PROVE  LET b == [a EXCEPT !.tape = TapeStop(@)]
         IN  /\ IsApp(b) /\ SameApp(a, b) /\ SameTape(a.tape, b.tape)
             /\ b.tape.playing = FALSE
             /\ InStep(a) => InStep(b)
<1> DEFINE p == TapeStop(a.tape)
           b == [a EXCEPT !.tape = p]
<1>1. [a EXCEPT !.tape = TapeStop(@)] = b
  OBVIOUS
<1>2. IsTape(a.tape)
  BY AppTypes
<1>3. IsTape(p) /\ SameTape(a.tape, p) /\ p.playing = FALSE
  BY <1>2, StopIs
<1> HIDE DEF p
<1>4. IsApp(b) /\ SameApp(a, b) /\ b.tape = p
  BY <1>3, SetTape DEF SameTape
<1> HIDE DEF b
<1>5. InStep(a) => InStep(b)
  BY <1>3, <1>4 DEF InStep, Due, SameTape, SameApp
<1> QED BY <1>1, <1>3, <1>4, <1>5

LEMMA SteadyTape ==
  ASSUME NEW a, NEW b, SameKeys(a, b), InStep(a) => InStep(b)
  PROVE  Steady(a, b)
BY KeysKept DEF Steady

LEMMA SteadyChain ==
  ASSUME NEW a, NEW b, NEW c, Steady(a, b), Steady(b, c)
  PROVE  Steady(a, c)
BY DEF Steady

LEMMA StopTapeIs ==
  ASSUME NEW a, IsApp(a)
  PROVE  LET b == StopTape(a)
         IN  /\ IsApp(b) /\ Steady(a, b) /\ SameKeys(a, b)
             /\ b.model = a.model /\ b.tick = a.tick
             /\ b.tape.inserted = a.tape.inserted /\ b.tape.playing = FALSE
             /\ b.autoload = a.autoload
<1> DEFINE p == TapeStop(a.tape)
           b == [a EXCEPT !.pending = FALSE, !.tape = p, !.armed = FALSE,
                          !.seen = FALSE, !.idle = 0]
<1>1. StopTape(a) = b
  BY Zenon DEF StopTape
<1>2. a \in Apps /\ IsTape(a.tape)
  BY AppTypes
<1>3. IsTape(p) /\ SameTape(a.tape, p) /\ p.playing = FALSE
  BY <1>2, StopIs
<1> HIDE DEF p
<1>4. p \in Tapes
  BY <1>3, TapeTypes
<1>5. b \in Apps
  BY <1>2, <1>4, Frames, Zenon DEF Apps
<1>6. /\ b.tape = p /\ b.kind = a.kind /\ b.pending = FALSE /\ SameKeys(a, b)
      /\ b.model = a.model /\ b.tick = a.tick /\ b.autoload = a.autoload
      /\ b.position = a.position /\ b.text = a.text /\ b.ring = a.ring
  BY <1>2 DEF Apps, SameKeys
<1> HIDE DEF b
<1>7. IsApp(b)
  BY <1>3, <1>5, <1>6 DEF IsApp, Waits
<1>8. InStep(a) => InStep(b)
  BY <1>3, <1>6 DEF InStep, Due, SameTape
<1> QED BY <1>1, <1>3, <1>6, <1>7, <1>8, SteadyTape DEF SameTape

LEMMA StartPlaybackIs ==
  ASSUME NEW a, IsApp(a)
  PROVE  LET b == StartPlayback(a)
         IN  /\ IsApp(b) /\ SameKeys(a, b) /\ b.tick = a.tick
             /\ InStep(a) => InStep(b)
<1> DEFINE p == TapeStart(a.tape, a.tick)
           armed == a.fast /\ p.playing
           b == [a EXCEPT !.tape = p, !.armed = armed, !.seen = FALSE, !.idle = 0]
<1>1. StartPlayback(a) = b
  BY Zenon DEF StartPlayback
<1>2. a \in Apps /\ IsTape(a.tape) /\ a.tick \in Nat
  BY AppTypes
<1>3. /\ IsTape(p) /\ SameTape(a.tape, p)
      /\ Due(a.tape, a.tick) => Due(p, a.tick)
  BY <1>2, StartIs
<1> HIDE DEF p
<1>4. p \in Tapes /\ armed \in BOOLEAN
  BY <1>3, TapeTypes
<1> HIDE DEF armed
<1>5. b \in Apps
  BY <1>2, <1>4, Frames, Zenon DEF Apps
<1>6. /\ b.tape = p /\ b.kind = a.kind /\ b.pending = a.pending /\ SameKeys(a, b)
      /\ b.model = a.model /\ b.tick = a.tick /\ b.active = a.active
      /\ b.position = a.position /\ b.text = a.text /\ b.ring = a.ring
  BY <1>2 DEF Apps, SameKeys
<1> HIDE DEF b
<1>7. IsApp(b)
  BY <1>3, <1>5, <1>6 DEF IsApp, Waits, SameTape
<1>8. InStep(a) => InStep(b)
  BY <1>3, <1>6 DEF InStep, SameTape
<1> QED BY <1>1, <1>6, <1>7, <1>8

LEMMA NotPending ==
  ASSUME NEW a, IsApp(a)
  PROVE  LET b == [a EXCEPT !.pending = FALSE]
         IN  /\ IsApp(b) /\ SameMachine(a, b) /\ SameKeys(a, b)
             /\ b.text = a.text /\ b.position = a.position
<1> DEFINE b == [a EXCEPT !.pending = FALSE]
<1>1. a \in Apps
  BY AppTypes
<1>2. b \in Apps
  BY <1>1, Zenon DEF Apps
<1>3. /\ SameMachine(a, b) /\ SameKeys(a, b) /\ b.pending = FALSE
      /\ b.text = a.text /\ b.position = a.position /\ b.ring = a.ring
  BY <1>1 DEF Apps, SameMachine, SameKeys
<1> HIDE DEF b
<1>4. IsApp(b)
  BY <1>2, <1>3 DEF IsApp, Waits, SameMachine
<1> QED BY <1>3, <1>4 DEF b

LEMMA PlayTapeIs ==
  ASSUME NEW a, IsApp(a)
  PROVE  IsApp(PlayTape(a)) /\ Steady(a, PlayTape(a))
<1>1. CASE ~HasTape(a.tape)
  BY <1>1 DEF PlayTape, Steady
<1>2. CASE HasTape(a.tape)
  <2> DEFINE c == [a EXCEPT !.pending = FALSE]
             d == SyncStopMode(c)
             b == StartPlayback(d)
  <2>1. PlayTape(a) = b
    BY <1>2, Zenon DEF PlayTape
  <2>2. IsApp(c) /\ SameMachine(a, c) /\ SameKeys(a, c)
    BY NotPending
  <2> HIDE DEF c
  <2>3. /\ IsApp(d) /\ SameApp(c, d)
        /\ d.tape.inserted = c.tape.inserted /\ d.tape.hz = c.tape.hz
        /\ d.tape.playing = c.tape.playing
        /\ d.tape.stop48 <=> c.model = "48K"
        /\ d.tape.end = c.tape.end /\ d.tape.index = c.tape.index
        /\ d.tape.segments = c.tape.segments
    BY <2>2, SyncStopModeIs
  <2> HIDE DEF d
  <2>4. IsApp(b) /\ SameKeys(d, b) /\ (InStep(d) => InStep(b))
    BY <2>3, StartPlaybackIs
  <2>5. InStep(c) => InStep(d)
    BY <2>3 DEF InStep, Due, TicksOf, SameApp
  <2>6. InStep(a) => InStep(c)
    BY <2>2, MachineKept
  <2>7. SameKeys(a, b)
    BY <2>2, <2>3, <2>4 DEF SameKeys, SameApp
  <2> HIDE DEF b
  <2> QED BY <2>1, <2>4, <2>5, <2>6, <2>7, SteadyTape
<1> QED BY <1>1, <1>2

LEMMA ToggleFastIs ==
  ASSUME NEW a, IsApp(a)
  PROVE  IsApp(ToggleFast(a)) /\ Steady(a, ToggleFast(a))
<1> DEFINE fast == ~a.fast
           armed == ~a.fast /\ a.tape.playing
           b == [a EXCEPT !.fast = fast, !.armed = armed, !.seen = FALSE, !.idle = 0]
<1>1. ToggleFast(a) = b
  BY Zenon DEF ToggleFast
<1>2. a \in Apps /\ fast \in BOOLEAN /\ armed \in BOOLEAN
  BY AppTypes
<1> HIDE DEF fast, armed
<1>3. b \in Apps
  BY <1>2, Frames, Zenon DEF Apps
<1>4. /\ SameMachine(a, b) /\ SameKeys(a, b) /\ b.pending = a.pending
      /\ b.text = a.text /\ b.position = a.position /\ b.ring = a.ring
      /\ b.active = a.active
  BY <1>2 DEF Apps, SameMachine, SameKeys
<1> HIDE DEF b
<1>5. IsApp(b)
  BY <1>3, <1>4 DEF IsApp, Waits, SameMachine
<1> QED BY <1>1, <1>4, <1>5, MachineKept, SteadyTape

-----------------------------------------------------------------------------
(* Changes of machine.                                                     *)

LEMMA LoadModelRomsIs ==
  ASSUME NEW a, IsApp(a), NEW model \in Models
  PROVE  LET b == LoadModelRoms(a, model)
         IN  /\ IsApp(b) /\ SameTyping(a, b) /\ b.tape = a.tape /\ b.model = model
             /\ b.kind = a.kind /\ b.tick = 0 /\ b.autoload = a.autoload
             /\ b.held = a.held /\ b.keys = [a.keys EXCEPT !["classic"] = {}]
             /\ Released(a) => Released(b)
             /\ Silent(a) => Silent(b)
<1> DEFINE keys == [a.keys EXCEPT !["classic"] = {}]
           b == [a EXCEPT !.model = model, !.tick = 0, !.keys = keys]
<1>1. LoadModelRoms(a, model) = b
  BY Zenon DEF LoadModelRoms
<1>2. a \in Apps /\ a.keys \in [Kinds -> SUBSET Codes]
  BY AppTypes
<1>3. keys \in [Kinds -> SUBSET Codes]
  BY <1>2
<1>4. \A kind \in Kinds : keys[kind] = IF kind = "classic" THEN {} ELSE a.keys[kind]
  BY <1>2
<1> HIDE DEF keys
<1>5. b \in Apps
  BY <1>2, <1>3, Frames, Zenon DEF Apps
<1>6. /\ SameTyping(a, b) /\ b.tape = a.tape /\ b.model = model /\ b.kind = a.kind
      /\ b.tick = 0 /\ b.autoload = a.autoload /\ b.keys = keys /\ b.held = a.held
      /\ b.ring = a.ring
  BY <1>2 DEF Apps, SameTyping
<1> HIDE DEF b
<1>7. IsApp(b)
  BY <1>5, <1>6 DEF IsApp, Waits, SameTyping
<1>8. HeldCodes(b) = HeldCodes(a) /\ b.active = a.active
  BY <1>6 DEF HeldCodes, SameTyping
<1>9. Released(a) => Released(b)
  BY <1>4, <1>6, <1>8 DEF Released
<1>10. Silent(a) => Silent(b)
  BY <1>4, <1>6 DEF Silent
<1> QED BY <1>1, <1>6, <1>7, <1>9, <1>10 DEF keys

LEMMA SilentReleased ==
  ASSUME NEW a, Silent(a)
  PROVE  Released(a)
BY DEF Silent, Released

LEMMA SetKind ==
  ASSUME NEW a, IsApp(a), NEW kind \in Kinds
  PROVE  LET b == [a EXCEPT !.kind = kind]
         IN  /\ IsApp(b) /\ SameTyping(a, b) /\ b.tape = a.tape /\ b.model = a.model
             /\ b.kind = kind /\ b.tick = a.tick /\ b.keys = a.keys
             /\ InStep(a) => InStep(b)
<1> DEFINE b == [a EXCEPT !.kind = kind]
<1>1. a \in Apps
  BY AppTypes
<1>2. b \in Apps
  BY <1>1, Zenon DEF Apps
<1>3. /\ SameTyping(a, b) /\ b.tape = a.tape /\ b.model = a.model
      /\ b.kind = kind /\ b.tick = a.tick /\ b.keys = a.keys /\ b.ring = a.ring
  BY <1>1 DEF Apps, SameTyping
<1> HIDE DEF b
<1>4. IsApp(b)
  BY <1>2, <1>3 DEF IsApp, Waits, SameTyping
<1>5. InStep(a) => InStep(b)
  BY <1>3 DEF InStep
<1> QED BY <1>3, <1>4, <1>5 DEF b

\* The beginning of every change of machine.
Stopped(a) == [ReleaseAllKeys(AutotypeClear(a)) EXCEPT !.tape = TapeStop(@)]

LEMMA StoppedFacts ==
  ASSUME NEW a, IsApp(a)
  PROVE  LET b == Stopped(a)
         IN  /\ IsApp(b) /\ Steady(a, b)
             /\ b.kind = a.kind /\ b.model = a.model /\ b.tick = a.tick
             /\ b.tape.playing = FALSE /\ b.tape.inserted = a.tape.inserted
             /\ Released(a) => Silent(b)
<1> DEFINE c == ReleaseAllKeys(AutotypeClear(a))
           b == [c EXCEPT !.tape = TapeStop(@)]
<1>1. /\ IsApp(c) /\ SameMachine(a, c)
      /\ Released(a) => Released(c) /\ Silent(c)
  BY QuietIs
<1> HIDE DEF c
<1>2. /\ IsApp(b) /\ SameApp(c, b) /\ SameTape(c.tape, b.tape)
      /\ b.tape.playing = FALSE
      /\ InStep(c) => InStep(b)
  BY <1>1, StoppedIs
<1> HIDE DEF b
<1>3. Released(c) => Released(b)
  BY <1>2, KeysKept DEF SameApp
<1>4. Silent(c) => Silent(b)
  BY <1>2 DEF SameApp, SameKeys, Silent
<1>5. InStep(a) => InStep(c)
  BY <1>1, MachineKept
<1>6. /\ b.kind = a.kind /\ b.model = a.model /\ b.tick = a.tick
      /\ b.tape.inserted = a.tape.inserted
  BY <1>1, <1>2 DEF SameMachine, SameApp, SameKeys, SameTape
<1>7. Stopped(a) = b
  BY Zenon DEF Stopped, b, c
<1> QED BY <1>1, <1>2, <1>3, <1>4, <1>5, <1>6, <1>7 DEF Steady

LEMMA SwitchModelIs ==
  ASSUME NEW a, IsApp(a), NEW model \in Models, NEW roms
  PROVE  LET b == SwitchModel(a, model, roms)
         IN  IsApp(b) /\ Steady(a, b)
<1> DEFINE s == Stopped(a)
           l == LoadModelRoms(s, model)
           k == [l EXCEPT !.kind = "classic"]
           b == RewindTape(SyncStopMode(k))
<1>1. SwitchModel(a, model, roms) =
        IF a.kind = "classic" /\ a.model = model THEN a
        ELSE IF ~roms THEN s ELSE b
  BY Zenon DEF SwitchModel, Stopped
<1>2. /\ IsApp(s) /\ Steady(a, s)
      /\ Released(a) => Silent(s)
  BY StoppedFacts
<1> HIDE DEF s
<1>3. /\ IsApp(l)
      /\ Silent(s) => Silent(l)
  BY <1>2, LoadModelRomsIs
<1> HIDE DEF l
<1>4. IsApp(k) /\ k.keys = l.keys
  BY <1>3, SetKind DEF Kinds
<1>5. Silent(l) => Silent(k)
  BY <1>4 DEF Silent
<1> HIDE DEF k
<1>6. IsApp(b) /\ SameApp(k, b) /\ InStep(b)
  BY <1>4, RewoundIs
<1> HIDE DEF b
<1>7. Released(k) => Released(b)
  BY <1>6, KeysKept DEF SameApp
<1>8. Steady(a, b)
  BY <1>2, <1>3, <1>5, <1>6, <1>7, SilentReleased DEF Steady
<1>9. Steady(a, a)
  BY DEF Steady
<1> QED BY <1>1, <1>2, <1>6, <1>8, <1>9

LEMMA LeaveNextIs ==
  ASSUME NEW a, IsApp(a), NEW roms
  PROVE  LET b == LeaveNext(a, roms)
         IN  IsApp(b) /\ Steady(a, b)
<1>1. a.model \in Models
  BY AppTypes
<1> QED BY <1>1, SwitchModelIs DEF LeaveNext, Steady

LEMMA ActivateNextIs ==
  ASSUME NEW a, IsApp(a)
  PROVE  IsApp(ActivateNext(a)) /\ Steady(a, ActivateNext(a))
<1> DEFINE s == Stopped(a)
           b == [s EXCEPT !.kind = "next"]
<1>1. ActivateNext(a) = b
  <2> DEFINE c == ReleaseAllKeys(AutotypeClear(a))
  <2>1. ActivateNext(a) = [c EXCEPT !.tape = TapeStop(@), !.kind = "next"]
    BY Zenon DEF ActivateNext
  <2>2. s = [c EXCEPT !.tape = TapeStop(@)]
    BY Zenon DEF Stopped
  <2>3. c \in Apps
    BY QuietIs, AppTypes
  <2> HIDE DEF c, s
  <2> QED BY <2>1, <2>2, <2>3 DEF Apps
<1>2. /\ IsApp(s) /\ Steady(a, s)
      /\ Released(a) => Silent(s)
  BY StoppedFacts
<1> HIDE DEF s
<1>3. /\ IsApp(b) /\ b.keys = s.keys
      /\ InStep(s) => InStep(b)
  BY <1>2, SetKind DEF Kinds
<1> HIDE DEF b
<1>4. Silent(s) => Silent(b)
  BY <1>3 DEF Silent
<1> QED BY <1>1, <1>2, <1>3, <1>4, SilentReleased DEF Steady

LEMMA NoRing ==
  ASSUME NEW a, IsApp(a)
  PROVE  LET b == [a EXCEPT !.ring = <<>>, !.wait = 1]
         IN  IsApp(b) /\ SameMachine(a, b) /\ SameKeys(a, b) /\ Steady(a, b)
<1> DEFINE b == [a EXCEPT !.ring = <<>>, !.wait = 1]
<1>1. a \in Apps /\ <<>> \in Seq(Checkpoints) /\ Len(<<>>) = 0
  BY AppTypes
<1>2. b \in Apps
  BY <1>1, Frames, Zenon DEF Apps
<1>3. /\ SameMachine(a, b) /\ SameKeys(a, b) /\ SameTyping(a, b) /\ b.ring = <<>>
  BY <1>1 DEF Apps, SameMachine, SameKeys, SameTyping
<1> HIDE DEF b
<1>4. IsApp(b)
  BY <1>1, <1>2, <1>3, Frames DEF IsApp, Waits, SameMachine, SameTyping
<1>5. Steady(a, b)
  BY <1>3, SteadyTape, MachineKept
<1> QED BY <1>3, <1>4, <1>5 DEF b

LEMMA Restarted ==
  ASSUME NEW a, IsApp(a)
  PROVE  LET b == [a EXCEPT !.cooldown = BootFrames, !.ring = <<>>, !.wait = 1]
         IN  IsApp(b) /\ SameMachine(a, b) /\ SameKeys(a, b) /\ Steady(a, b)
<1> DEFINE b == [a EXCEPT !.cooldown = BootFrames, !.ring = <<>>, !.wait = 1]
<1>1. a \in Apps /\ <<>> \in Seq(Checkpoints) /\ Len(<<>>) = 0
  BY AppTypes
<1>2. b \in Apps
  BY <1>1, Frames, Zenon DEF Apps
<1>3. /\ SameMachine(a, b) /\ SameKeys(a, b) /\ SameTyping(a, b) /\ b.ring = <<>>
  BY <1>1 DEF Apps, SameMachine, SameKeys, SameTyping
<1> HIDE DEF b
<1>4. IsApp(b)
  BY <1>1, <1>2, <1>3, Frames DEF IsApp, Waits, SameMachine, SameTyping
<1>5. Steady(a, b)
  BY <1>3, SteadyTape, MachineKept
<1> QED BY <1>3, <1>4, <1>5 DEF b

LEMMA MenuResetIs ==
  ASSUME NEW a, IsApp(a)
  PROVE  IsApp(MenuReset(a)) /\ Steady(a, MenuReset(a))
<1> DEFINE s == Stopped(a)
           r == RewindTape(s)
           b == [r EXCEPT !.ring = <<>>, !.wait = 1]
<1>1. MenuReset(a) = IF a.kind = "next" THEN s ELSE b
  BY Zenon DEF MenuReset, Stopped
<1>2. IsApp(s) /\ Steady(a, s)
  BY StoppedFacts
<1> HIDE DEF s
<1>3. /\ IsApp(r) /\ SameApp(s, r) /\ r.tape.inserted = s.tape.inserted
      /\ r.tape.hz = Clock(s.model) /\ r.tape.playing = FALSE
      /\ r.tape.stop48 = s.tape.stop48
  BY <1>2, RewindTapeIs
<1> HIDE DEF r
<1>4. InStep(s) => InStep(r)
  BY <1>3 DEF InStep, Due, SameApp
<1>5. Steady(s, r)
  BY <1>3, <1>4, SteadyTape DEF SameApp
<1>6. IsApp(b) /\ Steady(r, b)
  BY <1>3, NoRing, Zenon
<1> HIDE DEF b
<1>7. Steady(a, b)
  BY <1>2, <1>5, <1>6 DEF Steady
<1> QED BY <1>1, <1>2, <1>6, <1>7

LEMMA InsertDiskIs ==
  ASSUME NEW a, IsApp(a), NEW roms
  PROVE  IsApp(InsertDisk(a, roms)) /\ Steady(a, InsertDisk(a, roms))
<1> DEFINE c == ReleaseAllKeys(AutotypeClear(a))
           s == StopTape(c)
           l == IF a.model = "plus3" THEN s ELSE LoadModelRoms(s, "plus3")
           r == RewindTape(SyncStopMode(l))
           t == StartAutotype(r, Menu)
           b == [t EXCEPT !.cooldown = BootFrames, !.ring = <<>>, !.wait = 1]
<1>1. InsertDisk(a, roms) = IF a.model # "plus3" /\ ~roms THEN s ELSE b
  BY Zenon DEF InsertDisk
<1>2. /\ IsApp(c) /\ SameMachine(a, c)
      /\ Released(a) => Released(c) /\ Silent(c)
  BY QuietIs
<1> HIDE DEF c
<1>3. IsApp(s) /\ Steady(c, s)
  BY <1>2, StopTapeIs
<1> HIDE DEF s
<1>4. /\ IsApp(l)
      /\ Released(s) => Released(l)
  <2>1. CASE a.model = "plus3"
    BY <1>3, <2>1
  <2>2. CASE a.model # "plus3"
    <3>1. "plus3" \in Models
      BY ClockType
    <3> QED BY <1>3, <2>2, <3>1, LoadModelRomsIs
  <2> QED BY <2>1, <2>2
<1> HIDE DEF l
<1>5. IsApp(r) /\ SameApp(l, r) /\ InStep(r)
  BY <1>4, RewoundIs
<1> HIDE DEF r
<1>6. /\ IsApp(t) /\ SameMachine(r, t)
      /\ Released(r) => Released(t)
  BY <1>5, StartAutotypeIs DEF Texts
<1> HIDE DEF t
<1>7. IsApp(b) /\ Steady(t, b)
  BY <1>6, Restarted, Zenon
<1> HIDE DEF b
<1>8. Released(l) => Released(r)
  BY <1>5, KeysKept DEF SameApp
<1>9. InStep(t) /\ (InStep(a) => InStep(c))
  BY <1>2, <1>5, <1>6, MachineKept
<1>10. Steady(a, s) /\ Steady(a, b)
  BY <1>2, <1>3, <1>4, <1>6, <1>7, <1>8, <1>9 DEF Steady
<1> QED BY <1>1, <1>3, <1>7, <1>10

LEMMA InsertCartridgeIs ==
  ASSUME NEW a, IsApp(a), NEW roms
  PROVE  /\ IsApp(InsertCartridge(a, roms))
         /\ Released(a) => Released(InsertCartridge(a, roms))
<1>1. "48K" \in Models
  BY ClockType
<1> QED BY <1>1, LoadModelRomsIs DEF InsertCartridge

-----------------------------------------------------------------------------
(* The ends of loads.                                                      *)

LEMMA BeginAutoloadIs ==
  ASSUME NEW a, IsApp(a), a.tape.inserted
  PROVE  LET b == BeginAutoload(a)
         IN  /\ IsApp(b) /\ InStep(b)
             /\ Released(a) => Released(b)
<1> DEFINE c == ReleaseAllKeys(AutotypeClear(a))
           r == RewindTape(SyncStopMode(c))
           text == IF a.model = "48K" THEN Basic ELSE Menu
           t == StartAutotype(r, text)
           b == [t EXCEPT !.pending = TRUE, !.cooldown = BootFrames]
<1>1. BeginAutoload(a) = b
  BY Zenon DEF BeginAutoload
<1>2. /\ IsApp(c) /\ SameMachine(a, c)
      /\ Released(a) => Released(c)
  BY QuietIs
<1> HIDE DEF c
<1>3. /\ IsApp(r) /\ SameApp(c, r) /\ InStep(r) /\ r.tape.inserted = c.tape.inserted
  BY <1>2, RewoundIs
<1> HIDE DEF r
<1>4. text \in Texts /\ Len(text) > 0
  BY TextFacts DEF Texts
<1> HIDE DEF text
<1>5. /\ IsApp(t) /\ SameMachine(r, t) /\ t.text = text /\ t.position = 0
      /\ t.active = None
      /\ Released(r) => Released(t)
  BY <1>3, <1>4, StartAutotypeIs
<1> HIDE DEF t
<1>6. t \in Apps
  BY <1>5, AppTypes
<1>7. b \in Apps
  BY <1>6, Frames, Zenon DEF Apps
<1>8. /\ SameMachine(t, b) /\ SameKeys(t, b) /\ b.text = t.text /\ b.ring = t.ring
      /\ b.position = t.position
  BY <1>6 DEF Apps, SameMachine, SameKeys
<1> HIDE DEF b
<1>9. b.tape.inserted
  BY <1>2, <1>3, <1>5, <1>8 DEF SameMachine
<1>10. IsApp(b)
  BY <1>4, <1>5, <1>7, <1>8, <1>9 DEF IsApp, Waits, SameMachine
<1>11. Released(c) => Released(r)
  BY <1>3, KeysKept DEF SameApp
<1> QED BY <1>1, <1>2, <1>3, <1>5, <1>8, <1>10, <1>11, KeysKept, MachineKept

LEMMA ApplyLoadedTapeIs ==
  ASSUME NEW a, IsApp(a), NEW job, IsImage(job.image), job.hz \in Clocks, NEW roms
  PROVE  LET b == ApplyLoadedTape(a, job, roms)
         IN  IsApp(b) /\ Steady(a, b)
<1> DEFINE model == AutoloadModel(a, job)
           m == IF model = a.model THEN a ELSE LoadModelRoms(a, model)
           p == Decoded(job.image, job.hz)
           d == [m EXCEPT !.tape = p]
           s == StopTape(d)
           t == IF a.autoload THEN BeginAutoload(s) ELSE RewindTape(SyncStopMode(s))
           b == [t EXCEPT !.ring = <<>>, !.wait = 1]
<1>1. ApplyLoadedTape(a, job, roms) = IF model # a.model /\ ~roms THEN a ELSE b
  BY Zenon DEF ApplyLoadedTape
<1>2. model \in Models
  BY AppTypes, ClockType DEF AutoloadModel
<1> HIDE DEF model
<1>3. /\ IsApp(m)
      /\ Released(a) => Released(m)
  BY <1>2, LoadModelRomsIs
<1> HIDE DEF m
<1>4. IsTape(p) /\ p.inserted
  BY DecodedIs
<1> HIDE DEF p
<1>5. IsApp(d) /\ SameApp(m, d) /\ d.tape = p
  BY <1>3, <1>4, SetTape
<1> HIDE DEF d
<1>6. IsApp(s) /\ Steady(d, s) /\ s.tape.inserted
  BY <1>4, <1>5, StopTapeIs
<1> HIDE DEF s
<1>7. /\ IsApp(t) /\ InStep(t)
      /\ Released(s) => Released(t)
  <2>1. CASE a.autoload
    BY <1>6, <2>1, BeginAutoloadIs
  <2>2. CASE ~a.autoload
    <3> DEFINE r == RewindTape(SyncStopMode(s))
    <3>1. IsApp(r) /\ SameApp(s, r) /\ InStep(r)
      BY <1>6, RewoundIs
    <3> HIDE DEF r
    <3>2. t = r
      BY <2>2 DEF r
    <3> HIDE DEF t
    <3> QED BY <3>1, <3>2, KeysKept DEF SameApp
  <2> QED BY <2>1, <2>2
<1> HIDE DEF t
<1>8. IsApp(b) /\ Steady(t, b)
  BY <1>7, NoRing, Zenon
<1> HIDE DEF b
<1>9. Released(m) => Released(d)
  BY <1>5, KeysKept DEF SameApp
<1>10. Steady(a, a) /\ Steady(a, b)
  BY <1>3, <1>6, <1>7, <1>8, <1>9 DEF Steady
<1> QED BY <1>1, <1>8, <1>10

LEMMA SetTick ==
  ASSUME NEW a, IsApp(a), NEW tick \in Ticks
  PROVE  LET b == [a EXCEPT !.tick = tick]
         IN  /\ IsApp(b) /\ SameKeys(a, b) /\ b.tape = a.tape /\ b.model = a.model
             /\ b.tick = tick
<1> DEFINE b == [a EXCEPT !.tick = tick]
<1>1. a \in Apps
  BY AppTypes
<1>2. b \in Apps
  BY <1>1, Zenon DEF Apps
<1>3. /\ SameKeys(a, b) /\ SameTyping(a, b) /\ b.tape = a.tape /\ b.model = a.model
      /\ b.tick = tick /\ b.ring = a.ring
  BY <1>1 DEF Apps, SameKeys, SameTyping
<1> HIDE DEF b
<1>4. IsApp(b)
  BY <1>2, <1>3 DEF IsApp, Waits, SameTyping
<1> QED BY <1>3, <1>4 DEF b

LEMMA SetClassicKeys ==
  ASSUME NEW a, IsApp(a), NEW set \in SUBSET Codes
  PROVE  LET b == [a EXCEPT !.keys["classic"] = set]
         IN  IsApp(b) /\ SameMachine(a, b)
<1> DEFINE keys == [a.keys EXCEPT !["classic"] = set]
           b == [a EXCEPT !.keys = keys]
<1>1. [a EXCEPT !.keys["classic"] = set] = b
  OBVIOUS
<1>2. a \in Apps /\ a.keys \in [Kinds -> SUBSET Codes]
  BY AppTypes
<1>3. keys \in [Kinds -> SUBSET Codes]
  BY <1>2
<1> HIDE DEF keys
<1>4. b \in Apps
  BY <1>2, <1>3, Zenon DEF Apps
<1>5. SameMachine(a, b) /\ SameTyping(a, b) /\ b.ring = a.ring
  BY <1>2 DEF Apps, SameMachine, SameTyping
<1> HIDE DEF b
<1>6. IsApp(b)
  BY <1>4, <1>5 DEF IsApp, Waits, SameMachine, SameTyping
<1> QED BY <1>1, <1>5, <1>6

\* A snapshot keeps the tape in step, and the keys released unless it fails
\* after it has changed the machine.
LEMMA ApplyLoadedSnapshotIs ==
  ASSUME NEW a, IsApp(a), NEW job, job.model \in Models, NEW roms, NEW decodes
  PROVE  LET b == ApplyLoadedSnapshot(a, job, roms, decodes)
         IN  /\ IsApp(b)
             /\ InStep(a) => InStep(b)
             /\ \/ Released(a) => Released(b)
                \/ job.model # a.model /\ b.model = a.model
<1> DEFINE changed == job.model # a.model
           s == Stopped(a)
           m == IF changed THEN LoadModelRoms(s, job.model) ELSE s
           k == [s EXCEPT !.keys["classic"] = a.keys["classic"]]
           putBack == SyncStopMode(k)
           tick == IF job.timed THEN 0 ELSE m.tick
           n == [m EXCEPT !.tick = tick]
           loaded == SyncStopMode(n)
           e == IF changed THEN RewindTape(loaded) ELSE loaded
           b == [e EXCEPT !.ring = <<>>, !.wait = 1]
<1>1. ApplyLoadedSnapshot(a, job, roms, decodes) =
        IF changed /\ ~roms THEN s
        ELSE IF ~decodes THEN (IF changed THEN putBack ELSE s) ELSE b
  BY Zenon DEF ApplyLoadedSnapshot, Stopped
<1> HIDE DEF changed
<1>2. /\ IsApp(s) /\ Steady(a, s) /\ s.model = a.model
      /\ s.tape.playing = FALSE /\ s.tape.inserted = a.tape.inserted
  BY StoppedFacts
<1> HIDE DEF s
<1>3. /\ IsApp(m) /\ m.tape.playing = FALSE
      /\ ~changed => m = s
      /\ Released(s) => Released(m)
  BY <1>2, LoadModelRomsIs
<1> HIDE DEF m
<1>4. IsApp(k) /\ SameMachine(s, k)
  <2>1. a.keys["classic"] \in SUBSET Codes
    BY AppTypes DEF Kinds
  <2> QED BY <1>2, <2>1, SetClassicKeys
<1> HIDE DEF k
<1>5. IsApp(putBack) /\ putBack.model = a.model /\ (InStep(s) => InStep(putBack))
  <2>1. /\ IsApp(putBack) /\ SameApp(k, putBack)
        /\ putBack.tape.inserted = k.tape.inserted /\ putBack.tape.hz = k.tape.hz
        /\ putBack.tape.playing = k.tape.playing
        /\ putBack.tape.stop48 <=> k.model = "48K"
    BY <1>4, SyncStopModeIs
  <2> HIDE DEF putBack
  <2>2. putBack.model = a.model
    BY <1>2, <1>4, <2>1 DEF SameApp, SameMachine
  <2>3. InStep(s) => InStep(putBack)
    BY <1>2, <1>4, <2>1 DEF InStep, Due, SameApp, SameMachine
  <2> QED BY <2>1, <2>2, <2>3
<1> HIDE DEF putBack
<1>6. /\ IsApp(n) /\ SameKeys(m, n) /\ n.tape = m.tape /\ n.model = m.model
  <2>1. tick \in Ticks
    BY <1>3, AppTypes, Frames
  <2> HIDE DEF tick
  <2> QED BY <1>3, <2>1, SetTick
<1> HIDE DEF n
<1>7. /\ IsApp(loaded) /\ SameApp(n, loaded)
      /\ loaded.tape.inserted = n.tape.inserted /\ loaded.tape.hz = n.tape.hz
      /\ loaded.tape.playing = n.tape.playing
      /\ loaded.tape.stop48 <=> n.model = "48K"
  BY <1>6, SyncStopModeIs
<1>8. /\ IsApp(e) /\ SameKeys(n, e)
      /\ InStep(a) => InStep(e)
  <2>1. CASE changed
    <3> DEFINE r == RewindTape(loaded)
    <3>1. IsApp(r) /\ SameApp(n, r) /\ InStep(r)
      BY <1>6, RewoundIs
    <3> HIDE DEF r
    <3>2. e = r
      BY <2>1 DEF r
    <3> QED BY <3>1, <3>2 DEF SameApp
  <2>2. CASE ~changed
    <3>1. m = s
      BY <1>3, <2>2
    <3> HIDE DEF loaded
    <3>2. e = loaded
      BY <2>2
    <3>3. InStep(s) => InStep(loaded)
      BY <1>2, <1>6, <1>7, <3>1 DEF InStep, Due, SameApp
    <3> QED BY <1>2, <1>7, <3>2, <3>3 DEF SameApp, Steady
  <2> QED BY <2>1, <2>2
<1> HIDE DEF e
<1>9. IsApp(b) /\ Steady(e, b)
  BY <1>8, NoRing, Zenon
<1> HIDE DEF b
<1>10. Released(a) => Released(b)
  BY <1>2, <1>3, <1>6, <1>8, <1>9, KeysKept DEF Steady
<1>11. InStep(a) => InStep(b)
  BY <1>8, <1>9 DEF Steady
<1>12. InStep(a) => InStep(putBack)
  BY <1>2, <1>5 DEF Steady
<1>13. CASE changed /\ ~roms
  BY <1>1, <1>2, <1>13 DEF Steady
<1>14. CASE ~(changed /\ ~roms) /\ ~decodes /\ changed
  <2>1. ApplyLoadedSnapshot(a, job, roms, decodes) = putBack
    BY <1>1, <1>14
  <2>2. job.model # a.model
    BY <1>14 DEF changed
  <2> QED BY <1>5, <1>12, <2>1, <2>2
<1>15. CASE ~decodes /\ ~changed
  BY <1>1, <1>2, <1>15 DEF Steady
<1>16. CASE ~(changed /\ ~roms) /\ decodes
  BY <1>1, <1>9, <1>10, <1>11, <1>16
<1> QED BY <1>13, <1>14, <1>15, <1>16

-----------------------------------------------------------------------------
(* A frame of the classic machine.                                         *)

\* The key that is typed goes up and the rest of the text is typed, or ends.
LEMMA TypedKeyUp ==
  ASSUME NEW a, IsApp(a), NEW b \in Apps,
         b.keys = [a.keys EXCEPT ![a.kind] = @ \ {a.active}],
         b.held = a.held, b.kind = a.kind, b.active = None, Released(a)
  PROVE  Released(b)
<1>1. a.kind \in Kinds /\ a.keys \in [Kinds -> SUBSET Codes]
  BY AppTypes
<1>2. HeldCodes(b) = HeldCodes(a)
  BY DEF HeldCodes
<1>3. SUFFICES ASSUME NEW kind \in Kinds
               PROVE  b.keys[kind] \subseteq
                        IF kind = b.kind THEN HeldCodes(b) \union {b.active} ELSE {}
  BY DEF Released
<1>4. a.keys[kind] \subseteq
        IF kind = a.kind THEN HeldCodes(a) \union {a.active} ELSE {}
  BY DEF Released
<1>5. b.keys[kind] = IF kind = a.kind THEN a.keys[kind] \ {a.active} ELSE a.keys[kind]
  BY <1>1
<1> QED BY <1>2, <1>4, <1>5

LEMMA RunAutotypeIs ==
  ASSUME NEW a, IsApp(a)
  PROVE  LET b == RunAutotype(a)
         IN  IsApp(b) /\ Steady(a, b) /\ b.tick = a.tick
<1> DEFINE typed    == a.position = Len(a.text)
           c        == KeyUp(a, a.active)
           released == [c EXCEPT !.active = None, !.cooldown = CooldownFrames]
           ended    == [released EXCEPT !.text = <<>>, !.position = 0]
           waited   == [ended EXCEPT !.pending = FALSE]
           code     == a.text[a.position + 1]
           d        == KeyDown(a, code)
           pressed  == [d EXCEPT !.active = code, !.position = @ + 1,
                                 !.hold = HoldFrames]
           holding  == [a EXCEPT !.hold = @ - 1]
           cooling  == [a EXCEPT !.cooldown = @ - 1]
           b        == RunAutotype(a)
<1>1. b = IF a.active # None
          THEN IF a.hold > 0 THEN holding
               ELSE IF ~typed THEN released
               ELSE IF a.pending THEN StartPlayback(waited) ELSE ended
          ELSE IF a.cooldown > 0 THEN cooling
          ELSE IF typed THEN a ELSE pressed
  BY Zenon DEF RunAutotype
<1>0. SUFFICES IsApp(b) /\ Steady(a, b) /\ b.tick = a.tick
  OBVIOUS
<1> HIDE DEF b
<1>2. /\ a \in Apps /\ a.kind \in Kinds /\ a.keys \in [Kinds -> SUBSET Codes]
      /\ a.text \in Texts /\ Len(a.text) \in Nat /\ a.position \in Nat
      /\ a.position <= Len(a.text) /\ a.active \in Codes \union {None}
      /\ a.pending \in BOOLEAN /\ Waits(a) /\ IsTape(a.tape) /\ Len(a.ring) <= Slots
  BY AppTypes DEF IsApp
<1>3. a.cooldown \in 0 .. BootFrames /\ a.hold \in 0 .. HoldFrames
  BY AppCounts
<1>4. CASE a.active # None /\ a.hold > 0
  <2>1. a.hold - 1 \in 0 .. HoldFrames
    BY <1>3, <1>4, Frames
  <2>2. holding \in Apps
    BY <1>2, <2>1, Zenon DEF Apps
  <2>3. SameMachine(a, holding) /\ SameKeys(a, holding) /\ SameTyping(a, holding)
        /\ holding.ring = a.ring
    BY <1>2 DEF Apps, SameMachine, SameKeys, SameTyping
  <2>4. b = holding
    BY <1>1, <1>4
  <2> HIDE DEF holding
  <2>5. IsApp(holding)
    BY <1>2, <2>2, <2>3 DEF IsApp, Waits, SameMachine, SameTyping
  <2> QED BY <2>3, <2>4, <2>5, SteadyTape, MachineKept DEF SameMachine
<1>5. CASE a.active = None /\ a.cooldown > 0
  <2>1. a.cooldown - 1 \in 0 .. BootFrames
    BY <1>3, <1>5, Frames
  <2>2. cooling \in Apps
    BY <1>2, <2>1, Zenon DEF Apps
  <2>3. SameMachine(a, cooling) /\ SameKeys(a, cooling) /\ SameTyping(a, cooling)
        /\ cooling.ring = a.ring
    BY <1>2 DEF Apps, SameMachine, SameKeys, SameTyping
  <2>4. b = cooling
    BY <1>1, <1>5
  <2> HIDE DEF cooling
  <2>5. IsApp(cooling)
    BY <1>2, <2>2, <2>3 DEF IsApp, Waits, SameMachine, SameTyping
  <2> QED BY <2>3, <2>4, <2>5, SteadyTape, MachineKept DEF SameMachine
<1>6. CASE a.active = None /\ ~(a.cooldown > 0) /\ typed
  <2>1. b = a
    BY <1>1, <1>6
  <2> QED BY <2>1 DEF Steady
<1>7. CASE a.active = None /\ ~(a.cooldown > 0) /\ ~typed
  <2>1. b = pressed
    BY <1>1, <1>7
  <2>2. a.position + 1 \in 1 .. Len(a.text)
    BY <1>2, <1>7
  <2>3. code \in Codes /\ code # None
    BY <1>2, <2>2, TextLength, CodeFacts
  <2> HIDE DEF code
  <2>4. /\ IsApp(d) /\ SameMachine(a, d) /\ SameTyping(a, d) /\ d.held = a.held
        /\ d.keys = [a.keys EXCEPT ![a.kind] = @ \union {code}]
    BY <2>3, KeyDownIs
  <2> HIDE DEF d
  <2>5. d \in Apps /\ d.position = a.position
    BY <2>4, AppTypes DEF SameTyping
  <2>6. d.position + 1 \in Nat
    BY <1>2, <2>5
  <2>7. pressed \in Apps
    BY <2>3, <2>5, <2>6, Frames, Zenon DEF Apps
  <2>8. /\ SameMachine(d, pressed) /\ pressed.held = d.held /\ pressed.keys = d.keys
        /\ pressed.active = code /\ pressed.position = d.position + 1
        /\ pressed.text = d.text /\ pressed.ring = d.ring
        /\ pressed.pending = d.pending
    BY <2>5 DEF Apps, SameMachine
  <2> HIDE DEF pressed
  <2>9. /\ IsTape(d.tape) /\ Len(d.ring) <= Slots /\ d.text = a.text
        /\ d.pending = a.pending /\ d.tape = a.tape
    BY <2>4 DEF IsApp, SameTyping, SameMachine
  <2>10. IsApp(pressed)
    <3>1. pressed.position <= Len(pressed.text)
      BY <1>2, <2>2, <2>5, <2>8, <2>9
    <3>2. Waits(pressed)
      BY <1>2, <2>3, <2>8, <2>9 DEF Waits, SameMachine
    <3> QED BY <2>7, <2>8, <2>9, <3>1, <3>2 DEF IsApp, SameMachine
  <2>11. SameMachine(a, pressed)
    BY <2>4, <2>8 DEF SameMachine
  <2>12. ASSUME Released(a) PROVE Released(pressed)
    <3>1. HeldCodes(pressed) = HeldCodes(a) /\ pressed.kind = a.kind
      BY <2>4, <2>8, <2>11 DEF HeldCodes, SameMachine
    <3>2. SUFFICES ASSUME NEW kind \in Kinds
                   PROVE  pressed.keys[kind] \subseteq
                            IF kind = pressed.kind
                            THEN HeldCodes(pressed) \union {pressed.active} ELSE {}
      BY DEF Released
    <3>3. a.keys[kind] \subseteq
            IF kind = a.kind THEN HeldCodes(a) \union {a.active} ELSE {}
      BY <2>12 DEF Released
    <3>4. pressed.keys[kind] =
            IF kind = a.kind THEN a.keys[kind] \union {code} ELSE a.keys[kind]
      BY <1>2, <2>4, <2>8
    <3>5. None \notin a.keys[kind]
      BY <1>2, CodeFacts
    <3> QED BY <1>7, <2>8, <3>1, <3>3, <3>4, <3>5
  <2> QED BY <2>1, <2>10, <2>11, <2>12, MachineKept DEF Steady, SameMachine
<1>8. CASE a.active # None /\ ~(a.hold > 0)
  <2>1. /\ IsApp(c) /\ SameMachine(a, c) /\ SameTyping(a, c) /\ c.held = a.held
        /\ c.keys = [a.keys EXCEPT ![a.kind] = @ \ {a.active}]
    BY KeyUpIs
  <2> HIDE DEF c
  <2>2. /\ c \in Apps /\ IsTape(c.tape) /\ Len(c.ring) <= Slots
        /\ c.position = a.position /\ c.text = a.text /\ c.pending = a.pending
        /\ c.tape = a.tape
    BY <2>1, AppTypes DEF SameTyping, SameMachine
  <2>3. released \in Apps
    <3>1. None \in Codes \union {None}
      OBVIOUS
    <3> QED BY <2>2, <3>1, Frames, Zenon DEF Apps
  <2>4. /\ SameMachine(c, released) /\ released.held = c.held
        /\ released.keys = c.keys /\ released.active = None
        /\ released.position = c.position /\ released.text = c.text
        /\ released.ring = c.ring /\ released.pending = c.pending
    BY <2>2 DEF Apps, SameMachine
  <2> HIDE DEF released
  <2>5. SameMachine(a, released) /\ (Released(a) => Released(released))
    <3>1. SameMachine(a, released)
      BY <2>1, <2>4 DEF SameMachine
    <3>2. released.kind = a.kind
      BY <3>1 DEF SameMachine
    <3> QED BY <2>1, <2>3, <2>4, <3>1, <3>2, TypedKeyUp
  <2>6. CASE ~typed
    <3>1. b = released
      BY <1>1, <1>8, <2>6
    <3>2. a.position < Len(a.text)
      BY <1>2, <2>6
    <3>3. Waits(released)
      BY <1>2, <2>2, <2>4, <3>2 DEF Waits, SameMachine
    <3>4. IsApp(released)
      BY <1>2, <2>2, <2>3, <2>4, <3>3 DEF IsApp, SameMachine
    <3> QED BY <2>5, <3>1, <3>4, MachineKept DEF Steady, SameMachine
  <2>7. ended \in Apps
    <3>1. <<>> \in Texts
      BY DEF Texts
    <3> QED BY <2>3, <3>1, Frames, Zenon DEF Apps
  <2>8. /\ SameMachine(released, ended) /\ SameKeys(released, ended)
        /\ ended.text = <<>> /\ ended.position = 0 /\ ended.ring = released.ring
        /\ ended.pending = released.pending
    BY <2>3 DEF Apps, SameMachine, SameKeys
  <2> HIDE DEF ended
  <2>9. waited \in Apps
    BY <2>7, Zenon DEF Apps
  <2>10. /\ SameMachine(ended, waited) /\ SameKeys(ended, waited)
         /\ waited.text = ended.text /\ waited.position = ended.position
         /\ waited.ring = ended.ring /\ waited.pending = FALSE
    BY <2>7 DEF Apps, SameMachine, SameKeys
  <2> HIDE DEF waited
  <2>11. CASE typed /\ ~a.pending
    <3>1. b = ended
      BY <1>1, <1>8, <2>11
    <3>2. Waits(ended)
      BY <2>2, <2>4, <2>8, <2>11 DEF Waits
    <3>3. IsApp(ended)
      BY <2>2, <2>4, <2>7, <2>8, <3>2, TextFacts DEF IsApp, SameMachine
    <3>4. SameMachine(a, ended)
      BY <2>5, <2>8 DEF SameMachine
    <3> QED BY <2>5, <2>8, <3>1, <3>3, <3>4, MachineKept, KeysKept DEF Steady, SameMachine
  <2>12. CASE typed /\ a.pending
    <3>1. b = StartPlayback(waited)
      BY <1>1, <1>8, <2>12
    <3>2. IsApp(waited)
      BY <2>2, <2>4, <2>8, <2>9, <2>10, TextFacts DEF IsApp, Waits, SameMachine
    <3>3. SameMachine(a, waited)
      BY <2>5, <2>8, <2>10 DEF SameMachine
    <3>4. /\ IsApp(b) /\ SameKeys(waited, b) /\ b.tick = waited.tick
          /\ InStep(waited) => InStep(b)
      BY <3>1, <3>2, StartPlaybackIs
    <3>5. Released(a) => Released(b)
      BY <2>5, <2>8, <2>10, <3>4, KeysKept
    <3>6. InStep(a) => InStep(b)
      BY <3>3, <3>4, MachineKept
    <3> QED BY <3>3, <3>4, <3>5, <3>6 DEF Steady, SameMachine
  <2> QED BY <2>6, <2>11, <2>12
<1> QED BY <1>4, <1>5, <1>6, <1>7, <1>8

LEMMA FastLoadTrapIs ==
  ASSUME NEW a, IsApp(a), NEW load
  PROVE  LET b == FastLoadTrap(a, load)
         IN  IsApp(b) /\ SameKeys(a, b) /\ b.tick = a.tick /\ (InStep(a) => InStep(b))
<1> DEFINE b == FastLoadTrap(a, load)
<1>0. SUFFICES IsApp(b) /\ SameKeys(a, b) /\ b.tick = a.tick /\ (InStep(a) => InStep(b))
  OBVIOUS
<1>1. IsTape(a.tape) /\ a.tick \in Nat /\ a.fast \in BOOLEAN
  BY AppTypes
<1>2. CASE load = "no"
  <2>1. b = a
    BY <1>2 DEF FastLoadTrap
  <2> HIDE DEF b
  <2> QED BY <2>1 DEF SameKeys
<1>3. CASE load # "no" /\ load = "next" /\ CanFastLoad(a.tape)
  <2> DEFINE p == FastLoad(a.tape, a.tick)
             armed == a.fast /\ p.playing
             seen == TRUE
             c == [a EXCEPT !.tape = p, !.seen = seen, !.idle = 0, !.armed = armed]
  <2>1. b = c
    BY <1>3, Zenon DEF FastLoadTrap
  <2> HIDE DEF b
  <2>2. IsTape(p) /\ SameTape(a.tape, p) /\ Due(p, a.tick)
    BY <1>1, <1>3, FastLoadIs
  <2> HIDE DEF p
  <2>3. armed \in BOOLEAN /\ seen \in BOOLEAN /\ 0 \in 0 .. IdleFrames - 1
    BY <1>1, <2>2, TapeTypes, Frames
  <2> HIDE DEF armed, seen
  <2>4. a \in Apps /\ p \in Tapes
    BY <2>2, AppTypes, TapeTypes
  <2>5. c \in Apps
    BY <2>3, <2>4, Zenon DEF Apps
  <2>6. /\ SameKeys(a, c) /\ c.tick = a.tick /\ c.tape = p /\ c.model = a.model
        /\ SameTyping(a, c) /\ c.ring = a.ring
    BY <2>4 DEF Apps, SameKeys, SameTyping
  <2> HIDE DEF c
  <2>7. IsApp(c)
    BY <2>2, <2>5, <2>6 DEF IsApp, Waits, SameTyping, SameTape
  <2>8. InStep(a) => InStep(c)
    BY <2>2, <2>6 DEF InStep, SameTape
  <2> QED BY <2>1, <2>6, <2>7, <2>8
<1>4. CASE load # "no" /\ ~(load = "next" /\ CanFastLoad(a.tape))
  <2> DEFINE p == SkipPlayed(a.tape)
             c == [a EXCEPT !.tape = p]
  <2>1. b = c
    BY <1>4, Zenon DEF FastLoadTrap
  <2> HIDE DEF b
  <2>2. IsTape(p) /\ SameTape(a.tape, p) /\ (Due(a.tape, a.tick) => Due(p, a.tick))
    BY <1>1, SkipIs
  <2> HIDE DEF p
  <2>3. a.tape.inserted => p.inserted
    BY <2>2 DEF SameTape
  <2>4. IsApp(c) /\ SameApp(a, c) /\ c.tape = p
    BY <2>2, <2>3, SetTape
  <2> HIDE DEF c
  <2>5. InStep(a) => InStep(c)
    BY <2>2, <2>4 DEF InStep, SameApp, SameTape
  <2> QED BY <2>1, <2>4, <2>5 DEF SameApp
<1> QED BY <1>2, <1>3, <1>4

LEMMA DueLater ==
  ASSUME NEW p, IsTape(p), NEW now \in Nat, NEW later \in Nat, now <= later, Due(p, now)
  PROVE  Due(p, later)
<1>1. SUFFICES ASSUME p.playing PROVE p.end <= later + TicksOf(p, p.index)
  BY DEF Due
<1>2. /\ p \in Tapes /\ p.index \in Nat /\ Len(p.segments) \in Nat /\ p.end \in Nat
      /\ p.index < Len(p.segments)
  BY <1>1, TapeTypes DEF IsTape
<1>3. TicksOf(p, p.index) \in Nat
  <2>1. p.index \in 0 .. Len(p.segments) - 1
    BY <1>2
  <2> QED BY <1>2, <2>1, TicksNat
<1>4. p.end <= now + TicksOf(p, p.index)
  BY <1>1 DEF Due
<1> QED BY <1>2, <1>3, <1>4

\* A frame keeps the tape in step unless the tick counter wraps in it.
LEMMA RunFrameIs ==
  ASSUME NEW a, IsApp(a), NEW program
  PROVE  LET b == RunFrame(a, program)
         IN  /\ IsApp(b) /\ SameKeys(a, b)
             /\ InStep(a) /\ b.tick >= a.tick => InStep(b)
<1> DEFINE t == FastLoadTrap(a, program.load)
           tick == (a.tick + FrameTicks) % TickModulus
           seen == t.seen \/ (t.tape.playing /\ program.reads \in {"few", "many"})
           p == IF program.reads = "none" THEN t.tape ELSE InputLevel(t.tape, tick)
           b == [t EXCEPT !.tick = tick, !.seen = seen, !.tape = p]
<1>1. RunFrame(a, program) = b
  BY Zenon DEF RunFrame
<1>2. IsApp(t) /\ SameKeys(a, t) /\ t.tick = a.tick /\ (InStep(a) => InStep(t))
  BY FastLoadTrapIs
<1> HIDE DEF t
<1>3. a.tick \in Nat /\ t \in Apps /\ IsTape(t.tape) /\ t.seen \in BOOLEAN
  BY <1>2, AppTypes
<1>4. tick \in Ticks /\ tick \in Nat
  BY <1>3, Frames DEF Ticks
<1>5. seen \in BOOLEAN
  BY <1>2, AppTypes, TapeTypes
<1> HIDE DEF tick, seen
<1>6. /\ IsTape(p) /\ SameTape(t.tape, p)
      /\ Due(t.tape, tick) => Due(p, tick)
  BY <1>3, <1>4, InputIs DEF SameTape
<1> HIDE DEF p
<1>7. p \in Tapes
  BY <1>6, TapeTypes
<1>8. b \in Apps
  BY <1>3, <1>4, <1>5, <1>7, Zenon DEF Apps
<1>9. /\ SameKeys(t, b) /\ SameTyping(t, b) /\ b.ring = t.ring /\ b.tape = p
      /\ b.model = t.model /\ b.tick = tick
  BY <1>3 DEF Apps, SameKeys, SameTyping
<1> HIDE DEF b
<1>10. IsApp(b)
  BY <1>2, <1>6, <1>8, <1>9 DEF IsApp, Waits, SameTyping, SameTape
<1>11. ASSUME InStep(t), b.tick >= a.tick PROVE InStep(b)
  <2>1. Due(t.tape, a.tick) => Due(p, tick)
    BY <1>2, <1>3, <1>4, <1>6, <1>9, <1>11, DueLater
  <2> QED BY <1>2, <1>6, <1>9, <1>11, <2>1 DEF InStep, SameTape
<1>12. SameKeys(a, b)
  BY <1>2, <1>9 DEF SameKeys
<1> QED BY <1>1, <1>2, <1>10, <1>11, <1>12

LEMMA LoaderActivityIs ==
  ASSUME NEW a, IsApp(a), NEW many
  PROVE  LET b == LoaderActivity(a, many)
         IN  IsApp(b) /\ Steady(a, b) /\ b.tick = a.tick
<1> DEFINE idle == IF many THEN 0
                   ELSE IF a.seen /\ a.idle < IdleFrames THEN a.idle + 1 ELSE a.idle
           off == FALSE
           c == [a EXCEPT !.armed = off, !.idle = 0]
           d == [a EXCEPT !.idle = idle]
           b == LoaderActivity(a, many)
<1>1. b = IF ~a.armed THEN a
          ELSE IF ~a.tape.playing THEN c
          ELSE IF idle >= IdleFrames THEN StopTape(a) ELSE d
  BY Zenon DEF LoaderActivity
<1>0. SUFFICES IsApp(b) /\ Steady(a, b) /\ b.tick = a.tick
  OBVIOUS
<1> HIDE DEF b
<1>2. a \in Apps /\ a.idle \in 0 .. IdleFrames - 1 /\ off \in BOOLEAN
  BY AppTypes, AppCounts
<1>3. idle \in Nat
  BY <1>2, Frames
<1> HIDE DEF off, idle
<1>4. IsApp(c) /\ Steady(a, c) /\ c.tick = a.tick
  <2>1. c \in Apps
    BY <1>2, Frames, Zenon DEF Apps
  <2>2. /\ SameMachine(a, c) /\ SameKeys(a, c) /\ SameTyping(a, c) /\ c.ring = a.ring
    BY <1>2 DEF Apps, SameMachine, SameKeys, SameTyping
  <2> HIDE DEF c
  <2>3. IsApp(c)
    BY <2>1, <2>2 DEF IsApp, Waits, SameMachine, SameTyping
  <2> QED BY <2>2, <2>3, SteadyTape, MachineKept DEF SameMachine
<1>5. ASSUME ~(idle >= IdleFrames) PROVE IsApp(d) /\ Steady(a, d) /\ d.tick = a.tick
  <2>0. idle \in 0 .. IdleFrames - 1
    BY <1>3, <1>5, Frames
  <2>1. d \in Apps
    BY <1>2, <2>0, Zenon DEF Apps
  <2>2. /\ SameMachine(a, d) /\ SameKeys(a, d) /\ SameTyping(a, d) /\ d.ring = a.ring
    BY <1>2 DEF Apps, SameMachine, SameKeys, SameTyping
  <2> HIDE DEF d
  <2>3. IsApp(d)
    BY <2>1, <2>2 DEF IsApp, Waits, SameMachine, SameTyping
  <2> QED BY <2>2, <2>3, SteadyTape, MachineKept DEF SameMachine
<1>6. IsApp(StopTape(a)) /\ Steady(a, StopTape(a)) /\ StopTape(a).tick = a.tick
  BY StopTapeIs
<1>7. Steady(a, a)
  BY DEF Steady
<1> HIDE DEF c, d
<1> QED BY <1>1, <1>4, <1>5, <1>6, <1>7

\* Checkpoints do not concern the tape and the keys.
LEMMA SetRing ==
  ASSUME NEW a, IsApp(a), NEW ring \in Seq(Checkpoints), Len(ring) <= Slots,
         NEW wait \in 1 .. CaptureFrames
  PROVE  LET b == [a EXCEPT !.wait = wait, !.ring = ring]
         IN  IsApp(b) /\ Steady(a, b) /\ b.tick = a.tick
<1> DEFINE b == [a EXCEPT !.wait = wait, !.ring = ring]
<1>1. a \in Apps
  BY AppTypes
<1>2. b \in Apps
  BY <1>1, Zenon DEF Apps
<1>3. /\ SameMachine(a, b) /\ SameKeys(a, b) /\ SameTyping(a, b) /\ b.ring = ring
  BY <1>1 DEF Apps, SameMachine, SameKeys, SameTyping
<1> HIDE DEF b
<1>4. IsApp(b)
  BY <1>2, <1>3 DEF IsApp, Waits, SameMachine, SameTyping
<1>5. Steady(a, b) /\ b.tick = a.tick
  BY <1>3, SteadyTape, MachineKept DEF SameMachine
<1> QED BY <1>4, <1>5 DEF b

LEMMA RewindCaptureIs ==
  ASSUME NEW a, IsApp(a)
  PROVE  LET b == RewindCapture(a)
         IN  IsApp(b) /\ Steady(a, b) /\ b.tick = a.tick
<1> DEFINE full == Len(a.ring) = Slots
           kept == IF full THEN Tail(a.ring) ELSE a.ring
           wait == a.wait - 1
           ring == Append(kept, Checkpoint(a))
           c == [a EXCEPT !.wait = wait, !.ring = kept]
           d == [a EXCEPT !.wait = CaptureFrames, !.ring = ring]
           b == RewindCapture(a)
<1>1. b = IF ~use.history THEN a ELSE IF a.wait > 1 THEN c ELSE d
  BY Zenon DEF RewindCapture
<1>0. SUFFICES IsApp(b) /\ Steady(a, b) /\ b.tick = a.tick
  OBVIOUS
<1> HIDE DEF b
<1>2. /\ a \in Apps /\ a.wait \in 1 .. CaptureFrames /\ a.ring \in Seq(Checkpoints)
      /\ Len(a.ring) \in Nat /\ Len(a.ring) <= Slots
  BY AppTypes, AppCounts
<1>3. kept \in Seq(Checkpoints) /\ Len(kept) < Slots
  BY <1>2, Frames
<1>4. Checkpoint(a) \in Checkpoints
  <2>1. /\ a.model \in Models /\ a.tick \in Ticks /\ a.keys \in [Kinds -> SUBSET Codes]
    BY AppTypes
  <2>2. a.keys["classic"] \in SUBSET Codes
    BY <2>1 DEF Kinds
  <2> QED BY <2>1, <2>2, Zenon DEF Checkpoint, Checkpoints
<1> HIDE DEF kept
<1>5. ring \in Seq(Checkpoints) /\ Len(ring) <= Slots
  BY <1>3, <1>4, Frames
<1>6. CaptureFrames \in 1 .. CaptureFrames /\ (a.wait > 1 => wait \in 1 .. CaptureFrames)
  BY <1>2, Frames
<1>7. Len(kept) <= Slots
  BY <1>3, Frames
<1> HIDE DEF ring, wait
<1>8. a.wait > 1 => IsApp(c) /\ Steady(a, c) /\ c.tick = a.tick
  BY <1>3, <1>6, <1>7, SetRing, Zenon
<1>9. IsApp(d) /\ Steady(a, d) /\ d.tick = a.tick
  BY <1>5, <1>6, SetRing, Zenon
<1>10. Steady(a, a)
  BY DEF Steady
<1> HIDE DEF c, d
<1> QED BY <1>1, <1>8, <1>9, <1>10

LEMMA RestoreOldestIs ==
  ASSUME NEW a, IsApp(a)
  PROVE  IsApp(RestoreOldest(a))
<1> DEFINE oldest == a.ring[1]
           c == [a EXCEPT !.ring = <<>>, !.wait = 1]
           keys == [a.keys EXCEPT !["classic"] = oldest.keys]
           d == [a EXCEPT !.tick = oldest.tick, !.keys = keys,
                          !.ring = <<oldest>>, !.wait = CaptureFrames]
<1>1. RestoreOldest(a) = IF a.ring = <<>> THEN a
                         ELSE IF oldest.model # a.model THEN c
                         ELSE ReleaseAllKeys(d)
  <2> DEFINE e == [a EXCEPT !.tick = oldest.tick, !.keys["classic"] = oldest.keys,
                            !.ring = <<oldest>>, !.wait = CaptureFrames]
  <2>1. e = d
    OBVIOUS
  <2>2. RestoreOldest(a) = IF a.ring = <<>> THEN a
                           ELSE IF oldest.model # a.model THEN c
                           ELSE ReleaseAllKeys(e)
    BY Zenon DEF RestoreOldest
  <2> HIDE DEF c, d, e
  <2> QED BY <2>1, <2>2
<1>2. /\ a \in Apps /\ a.ring \in Seq(Checkpoints) /\ Len(a.ring) \in Nat
      /\ a.keys \in [Kinds -> SUBSET Codes]
  BY AppTypes
<1>3. IsApp(c)
  BY NoRing, Zenon
<1>4. ASSUME a.ring # <<>> PROVE IsApp(ReleaseAllKeys(d))
  <2>1. 1 \in 1 .. Len(a.ring)
    BY <1>2, <1>4, EmptySeq
  <2>2. oldest \in Checkpoints
    BY <1>2, <2>1, ElementOfSeq
  <2> HIDE DEF oldest
  <2>3. oldest.tick \in Ticks /\ oldest.keys \in SUBSET Codes
    BY <2>2 DEF Checkpoints
  <2>4. keys \in [Kinds -> SUBSET Codes]
    BY <1>2, <2>3
  <2>5. <<oldest>> \in Seq(Checkpoints) /\ Len(<<oldest>>) = 1
    BY <2>2
  <2> HIDE DEF keys
  <2>6. d \in Apps
    BY <1>2, <2>3, <2>4, <2>5, Frames, Zenon DEF Apps
  <2>7. SameTyping(a, d) /\ d.tape = a.tape /\ d.ring = <<oldest>>
    BY <1>2 DEF Apps, SameTyping
  <2> HIDE DEF d
  <2>8. IsApp(d)
    BY <2>5, <2>6, <2>7, Frames DEF IsApp, Waits, SameTyping
  <2> QED BY <2>8, ReleaseAllKeysIs
<1> HIDE DEF c, d
<1> QED BY <1>1, <1>3, <1>4

LEMMA WarpRequestedIs ==
  ASSUME NEW a, IsApp(a)
  PROVE  LET b == WarpRequested(a).app
         IN  IsApp(b) /\ Steady(a, b) /\ b.tick = a.tick
<1> DEFINE p == InputLevel(a.tape, a.tick)
           h == [a EXCEPT !.tape = p]
           b == WarpRequested(a).app
<1>1. b \in {a, h, StopTape(h)}
  BY DEF WarpRequested
<1>0. SUFFICES IsApp(b) /\ Steady(a, b) /\ b.tick = a.tick
  OBVIOUS
<1> HIDE DEF b
<1>2. IsTape(a.tape) /\ a.tick \in Nat
  BY AppTypes
<1>3. IsTape(p) /\ SameTape(a.tape, p) /\ (Due(a.tape, a.tick) => Due(p, a.tick))
  BY <1>2, InputIs
<1> HIDE DEF p
<1>4. a.tape.inserted => p.inserted
  BY <1>3 DEF SameTape
<1>5. IsApp(h) /\ SameApp(a, h) /\ h.tape = p
  BY <1>3, <1>4, SetTape
<1> HIDE DEF h
<1>6. InStep(a) => InStep(h)
  BY <1>3, <1>5 DEF InStep, SameApp, SameTape
<1>7. Steady(a, h) /\ h.tick = a.tick
  BY <1>5, <1>6, SteadyTape DEF SameApp
<1>8. IsApp(StopTape(h)) /\ Steady(h, StopTape(h)) /\ StopTape(h).tick = h.tick
  BY <1>5, StopTapeIs
<1>9. Steady(a, a) /\ Steady(a, StopTape(h))
  BY <1>7, <1>8 DEF Steady
<1> QED BY <1>1, <1>5, <1>7, <1>8, <1>9

\* A frame with its typing, its loader and its checkpoint.
LEMMA TickClassicIs ==
  ASSUME NEW a, IsApp(a), NEW program
  PROVE  LET b == TickClassic(a, program)
         IN  /\ IsApp(b)
             /\ Released(a) => Released(b)
             /\ InStep(a) /\ b.tick >= a.tick => InStep(b)
<1> DEFINE w == WarpRequested(a).app
           t == RunAutotype(w)
           r == RunFrame(t, program)
           many == ManyReads(t, program)
           c == RewindCapture(r)
           d == LoaderActivity(c, many)
           e == WarpRequested(d).app
           l == LoaderActivity(r, many)
           f == RewindCapture(l)
<1>1. TickClassic(a, program) = IF WarpRequested(a).warp
        THEN WarpRequested(LoaderActivity(RewindCapture(r), many)).app ELSE f
  BY Zenon DEF TickClassic
<1>2. IsApp(w) /\ Steady(a, w) /\ w.tick = a.tick
  BY WarpRequestedIs
<1>3. TickClassic(a, program) = e \/ TickClassic(a, program) = f
  BY <1>1, Zenon
<1> HIDE DEF w
<1>4. IsApp(t) /\ Steady(w, t) /\ t.tick = w.tick
  BY <1>2, RunAutotypeIs
<1> HIDE DEF t
<1>5. /\ IsApp(r) /\ SameKeys(t, r)
      /\ InStep(t) /\ r.tick >= t.tick => InStep(r)
  BY <1>4, RunFrameIs
<1> HIDE DEF r
<1>6. Released(t) => Released(r)
  BY <1>5, KeysKept
<1> HIDE DEF many
<1>7. IsApp(c) /\ Steady(r, c) /\ c.tick = r.tick
  BY <1>5, RewindCaptureIs
<1>8. IsApp(l) /\ Steady(r, l) /\ l.tick = r.tick
  BY <1>5, LoaderActivityIs
<1> HIDE DEF c, l
<1>9. IsApp(d) /\ Steady(c, d) /\ d.tick = c.tick
  BY <1>7, LoaderActivityIs
<1>10. IsApp(f) /\ Steady(l, f) /\ f.tick = l.tick
  BY <1>8, RewindCaptureIs
<1> HIDE DEF d, f
<1>11. IsApp(e) /\ Steady(d, e) /\ e.tick = d.tick
  BY <1>9, WarpRequestedIs
<1> HIDE DEF e
<1>12. Released(a) => Released(e) /\ Released(f)
  BY <1>2, <1>4, <1>6, <1>7, <1>8, <1>9, <1>10, <1>11 DEF Steady
<1>13. InStep(a) /\ e.tick >= a.tick => InStep(e)
  BY <1>2, <1>4, <1>5, <1>7, <1>9, <1>11 DEF Steady
<1>14. InStep(a) /\ f.tick >= a.tick => InStep(f)
  BY <1>2, <1>4, <1>5, <1>8, <1>10 DEF Steady
<1> QED BY <1>3, <1>10, <1>11, <1>12, <1>13, <1>14

-----------------------------------------------------------------------------
(* Loads in the background.                                                *)

TapeJobs ==
  [media : {"tape"}, image : {image \in Images : IsImage(image)},
   assume128 : BOOLEAN, hz : Clocks, asking : BOOLEAN]
SnapshotJobs ==
  [media : {"snapshot"}, model : Models, timed : BOOLEAN, asking : {FALSE}]
Jobs == TapeJobs \union SnapshotJobs
Messages == [job : Jobs, ok : BOOLEAN]

\* The strengthened invariant: the application is one, and a job, whether with
\* its thread or in the queue, is one that a handler can complete.
IInv ==
  /\ use \in Uses /\ IsApp(app) /\ open \in BOOLEAN
  /\ workers \in Seq(Jobs) /\ queue \in Seq(Messages)
  /\ Len(workers) <= 1 /\ Len(queue) <= 1
  /\ FlagsMatchJobs

\* The media of the jobs of FlagsMatchJobs.
Media(jobs) == {jobs[i].media : i \in DOMAIN jobs}
Posted(messages) == {messages[i].job.media : i \in DOMAIN messages}

LEMMA AtMostOne ==
  ASSUME NEW S, NEW s \in Seq(S), Len(s) <= 1
  PROVE  \/ s = <<>> /\ Len(s) = 0 /\ DOMAIN s = {}
         \/ /\ Len(s) = 1 /\ s[1] \in S /\ s = <<s[1]>>
            /\ DOMAIN s = {1} /\ Head(s) = s[1] /\ Tail(s) = <<>>
<1>1. Len(s) \in Nat /\ DOMAIN s = 1 .. Len(s)
  OBVIOUS
<1>2. CASE Len(s) = 0
  BY <1>1, <1>2, EmptySeq
<1>3. CASE Len(s) = 1
  <2>1. DOMAIN s = {1}
    BY <1>1, <1>3
  <2>2. s[1] \in S
    BY <1>3, ElementOfSeq
  <2>3. s = <<s[1]>>
    BY <1>3, <2>1, <2>2
  <2>4. Head(s) = s[1]
    BY <2>3
  <2>5. Tail(s) = <<>>
    <3>1. Tail(s) \in Seq(S) /\ Len(Tail(s)) = 0
      <4>1. s # <<>>
        BY <1>3
      <4> QED BY <1>3, <4>1, HeadTailProperties
    <3> QED BY <3>1, EmptySeq
  <2> QED BY <1>3, <2>1, <2>2, <2>3, <2>4, <2>5
<1> QED BY <1>1, <1>2, <1>3

LEMMA MediaOfOne ==
  /\ Media(<<>>) = {} /\ Posted(<<>>) = {}
  /\ \A w : Media(<<w>>) = {w.media}
  /\ \A m : Posted(<<m>>) = {m.job.media}
<1>1. DOMAIN <<>> = {}
  OBVIOUS
<1>2. \A w : DOMAIN <<w>> = {1} /\ <<w>>[1] = w
  OBVIOUS
<1> QED BY <1>1, <1>2 DEF Media, Posted

\* The flags, read from the sequences.
LEMMA Flags ==
  ASSUME IInv
  PROVE  /\ open => loading = Media(workers) \union Posted(queue)
         /\ open => \/ workers = <<>>
                    \/ queue = <<>>
BY DEF IInv, FlagsMatchJobs, Media, Posted

\* What most actions keep: the application goes on, and jobs are left alone.
LEMMA QuietStep ==
  ASSUME IInv, IsApp(app'), RestUnchanged
  PROVE  IInv'
BY DEF IInv, RestUnchanged, FlagsMatchJobs

LEMMA Mays ==
  /\ \A event : May(event) \subseteq BOOLEAN
  /\ Outcome \subseteq BOOLEAN
BY DEF May, Outcome

LEMMA StartLoadIs ==
  ASSUME IInv, open, NEW after, IsApp(after), NEW job \in Jobs, NEW threads,
         StartLoad(after, job, threads)
  PROVE  IInv' /\ open'
<1>1. app' = after /\ use' = use /\ open' = open /\ queue' = queue
  BY DEF StartLoad
<1>2. CASE ~(MayStart /\ threads)
  <2>1. loading' = loading /\ workers' = workers
    BY <1>2 DEF StartLoad
  <2>2. RestUnchanged
    BY <1>1, <2>1 DEF RestUnchanged
  <2> QED BY <1>1, <2>2, QuietStep
<1>3. CASE MayStart /\ threads
  <2>1. loading = {} /\ loading' = {job.media} /\ workers' = Append(workers, job)
    BY <1>3 DEF StartLoad, MayStart
  <2>2. workers = <<>> /\ queue = <<>>
    <3>1. /\ \A i \in DOMAIN workers : workers[i].media \in loading
          /\ \A i \in DOMAIN queue : queue[i].job.media \in loading
      BY DEF IInv, FlagsMatchJobs
    <3>2. DOMAIN workers = {} /\ DOMAIN queue = {}
      BY <2>1, <3>1
    <3>3. /\ workers \in Seq(Jobs) /\ Len(workers) <= 1
          /\ queue \in Seq(Messages) /\ Len(queue) <= 1
      BY DEF IInv
    <3> QED BY <3>2, <3>3, AtMostOne
  <2>3. workers' = <<job>>
    BY <2>1, <2>2
  <2>4. workers' \in Seq(Jobs) /\ Len(workers') = 1
    BY <2>3
  <2>5. queue' = <<>> /\ Len(queue') = 0
    BY <1>1, <2>2
  <2>6. Media(workers') = {job.media} /\ Posted(queue') = {}
    BY <2>3, <2>5, MediaOfOne
  <2>7. FlagsMatchJobs'
    BY <2>1, <2>4, <2>5, <2>6 DEF FlagsMatchJobs, Media, Posted
  <2> QED BY <1>1, <2>4, <2>5, <2>7 DEF IInv
<1> QED BY <1>2, <1>3

LEMMA ReachedIs ==
  ASSUME IsApp(app), NEW asks128, NEW first, NEW roms
  PROVE  LET b == Reached(asks128, first, roms).app
         IN  IsApp(b) /\ Steady(app, b)
<1> DEFINE s == IF asks128 THEN SwitchModel(app, "128K", first) ELSE app
           l == LeaveNext(s, roms)
           b == Reached(asks128, first, roms).app
<1>1. b \in {s, l}
  BY DEF Reached
<1>0. SUFFICES IsApp(b) /\ Steady(app, b)
  OBVIOUS
<1> HIDE DEF b
<1>2. IsApp(s) /\ Steady(app, s)
  BY ClockType, SwitchModelIs DEF Steady
<1> HIDE DEF s
<1>3. IsApp(l) /\ Steady(s, l)
  BY <1>2, LeaveNextIs
<1> HIDE DEF l
<1> QED BY <1>1, <1>2, <1>3, SteadyChain

LEMMA OpenTapeKeeps ==
  ASSUME IInv, OpenTape
  PROVE  IInv' /\ Steady(app, app')
<1>1. PICK image \in use.images, drop \in May("drop"), first \in Outcome,
           roms \in Outcome, threads \in Outcome :
        LET reached == Reached(drop /\ ~image.tap, first, roms)
            model   == reached.app.model
            assume  == IF image.tap THEN model # "48K" ELSE drop
        IN /\ Can("open")
           /\ IF reached.ready
              THEN StartLoad(reached.app, TapeJob(image, assume, Clock(model)),
                             threads)
              ELSE app' = reached.app /\ RestUnchanged
  BY Zenon DEF OpenTape
<1> DEFINE reached == Reached(drop /\ ~image.tap, first, roms)
           model   == reached.app.model
           assume  == IF image.tap THEN model # "48K" ELSE drop
           job     == TapeJob(image, assume, Clock(model))
<1>2. /\ Can("open")
      /\ IF reached.ready THEN StartLoad(reached.app, job, threads)
         ELSE app' = reached.app /\ RestUnchanged
  BY <1>1
<1>3. IsApp(app) /\ open
  BY <1>2 DEF IInv, Can
<1>4. IsApp(reached.app) /\ Steady(app, reached.app)
  BY <1>3, ReachedIs
<1>5. IsImage(image) /\ image \in Images /\ drop \in BOOLEAN
  BY UsesAssumption, Mays DEF IInv, IsImage
<1> HIDE DEF reached
<1>6. assume \in BOOLEAN /\ Clock(model) \in Clocks
  BY <1>5, ClockType DEF Images
<1> HIDE DEF assume, model
<1>7. job \in Jobs
  <2>1. image \in {x \in Images : IsImage(x)} /\ FALSE \in BOOLEAN
    BY <1>5
  <2>2. job \in TapeJobs
    BY <1>6, <2>1, Zenon DEF TapeJob, TapeJobs
  <2> QED BY <2>2 DEF Jobs
<1> HIDE DEF job
<1>8. IInv' /\ app' = reached.app
  <2>1. CASE reached.ready
    <3>1. StartLoad(reached.app, job, threads)
      BY <1>2, <2>1
    <3> QED BY <1>3, <1>4, <1>7, <3>1, StartLoadIs DEF StartLoad
  <2>2. CASE ~reached.ready
    BY <1>2, <1>4, <2>2, QuietStep
  <2> QED BY <2>1, <2>2
<1> QED BY <1>4, <1>8

LEMMA OpenSnapshotKeeps ==
  ASSUME IInv, OpenSnapshot
  PROVE  IInv' /\ Steady(app, app')
<1>1. PICK model \in use.models, timed \in May("timed"), drop \in May("drop"),
           first \in Outcome, roms \in Outcome, threads \in Outcome :
        LET reached == Reached(drop, first, roms)
        IN /\ Can("snapshot")
           /\ IF reached.ready
              THEN StartLoad(reached.app, SnapshotJob(model, timed), threads)
              ELSE app' = reached.app /\ RestUnchanged
  BY Zenon DEF OpenSnapshot
<1> DEFINE reached == Reached(drop, first, roms)
           job     == SnapshotJob(model, timed)
<1>2. /\ Can("snapshot")
      /\ IF reached.ready THEN StartLoad(reached.app, job, threads)
         ELSE app' = reached.app /\ RestUnchanged
  BY <1>1
<1>3. IsApp(app) /\ open
  BY <1>2 DEF IInv, Can
<1>4. IsApp(reached.app) /\ Steady(app, reached.app)
  BY <1>3, ReachedIs
<1> HIDE DEF reached
<1>5. model \in Models /\ timed \in BOOLEAN
  BY UsesAssumption, Mays DEF IInv
<1>6. job \in Jobs
  <2>1. FALSE \in {FALSE}
    OBVIOUS
  <2>2. job \in SnapshotJobs
    BY <1>5, <2>1, Zenon DEF SnapshotJob, SnapshotJobs
  <2> QED BY <2>2 DEF Jobs
<1> HIDE DEF job
<1>7. IInv' /\ app' = reached.app
  <2>1. CASE reached.ready
    <3>1. StartLoad(reached.app, job, threads)
      BY <1>2, <2>1
    <3> QED BY <1>3, <1>4, <1>6, <3>1, StartLoadIs DEF StartLoad
  <2>2. CASE ~reached.ready
    BY <1>2, <1>4, <2>2, QuietStep
  <2> QED BY <2>1, <2>2
<1> QED BY <1>4, <1>7

LEMMA OneWorker ==
  ASSUME IInv, NEW i \in DOMAIN workers
  PROVE  /\ i = 1 /\ workers[1] \in Jobs /\ workers = <<workers[1]>>
         /\ open => queue = <<>> /\ loading = {workers[1].media}
<1>1. workers \in Seq(Jobs) /\ Len(workers) <= 1
  BY DEF IInv
<1>2. Len(workers) = 1 /\ workers[1] \in Jobs /\ workers = <<workers[1]>> /\ i = 1
  BY <1>1, AtMostOne
<1>3. workers # <<>>
  BY <1>2
<1>4. ASSUME open PROVE queue = <<>> /\ loading = {workers[1].media}
  <2>1. queue = <<>>
    BY <1>3, <1>4, Flags
  <2>2. loading = Media(workers) \union Posted(queue)
    BY <1>4, Flags
  <2>3. Media(workers) = {workers[1].media}
    BY <1>2, MediaOfOne
  <2> QED BY <2>1, <2>2, <2>3, MediaOfOne
<1> QED BY <1>2, <1>4

\* A worker whose job changes but not its media.
LEMMA SameWorker ==
  ASSUME IInv, NEW i \in DOMAIN workers, NEW job \in Jobs,
         job.media = workers[1].media, workers' = <<job>>,
         UNCHANGED <<use, app, open, loading, queue>>
  PROVE  IInv'
<1>1. workers' \in Seq(Jobs) /\ Len(workers') = 1
  OBVIOUS
<1>2. UNCHANGED <<use, app, open, loading, queue>>
  OBVIOUS
<1>3. FlagsMatchJobs'
  <2>1. SUFFICES ASSUME open
                 PROVE  /\ loading' = Media(workers') \union Posted(queue')
                        /\ Len(workers') + Len(queue') <= 1
    BY <1>2 DEF FlagsMatchJobs, Media, Posted
  <2>2. queue' = <<>> /\ loading' = {job.media} /\ Len(queue') = 0
    BY <1>2, <2>1, OneWorker
  <2>3. Media(workers') = {job.media} /\ Posted(queue') = {}
    BY <2>2, MediaOfOne
  <2> QED BY <1>1, <2>2, <2>3
<1> QED BY <1>1, <1>2, <1>3 DEF IInv

LEMMA JobOfTape ==
  ASSUME NEW job \in Jobs
  PROVE  \/ job \in TapeJobs /\ job.media = "tape" /\ IsImage(job.image)
            /\ job.image \in Images /\ job.hz \in Clocks
         \/ job \in SnapshotJobs /\ job.media = "snapshot" /\ job.model \in Models
            /\ job.asking = FALSE
BY DEF Jobs, TapeJobs, SnapshotJobs

LEMMA AskKeeps ==
  ASSUME IInv, NEW i \in DOMAIN workers, Ask(i)
  PROVE  IInv' /\ app' = app /\ open' = open
<1> DEFINE w == workers[1]
           job == [w EXCEPT !.asking = TRUE]
<1>1. i = 1 /\ w \in Jobs /\ workers = <<w>>
  BY OneWorker
<1>2. /\ w.media = "tape"
      /\ workers' = [workers EXCEPT ![1].asking = TRUE]
      /\ UNCHANGED <<use, app, open, loading, queue>>
  BY <1>1 DEF Ask
<1> HIDE DEF w
<1>3. w \in TapeJobs
  BY <1>1, <1>2, JobOfTape
<1>4. workers' = <<job>>
  <2>1. workers' = [<<w>> EXCEPT ![1] = job]
    BY <1>1, <1>2
  <2> HIDE DEF job
  <2>2. [<<w>> EXCEPT ![1] = job] = <<job>>
    OBVIOUS
  <2> QED BY <2>1, <2>2
<1>5. TRUE \in BOOLEAN
  OBVIOUS
<1>6. job \in TapeJobs
  BY <1>3, <1>5, Zenon DEF TapeJobs
<1>7. job \in Jobs /\ job.media = w.media
  BY <1>3, <1>6 DEF Jobs, TapeJobs
<1> HIDE DEF job
<1> QED BY <1>2, <1>4, <1>7, SameWorker DEF w

LEMMA AnswerKeeps ==
  ASSUME IInv, NEW i \in DOMAIN workers, Answer(i)
  PROVE  IInv' /\ app' = app /\ open' = open
<1> DEFINE w == workers[1]
           image == [w.image EXCEPT !.choice = FALSE]
           job == [w EXCEPT !.asking = FALSE, !.image = image]
<1>1. i = 1 /\ w \in Jobs /\ workers = <<w>>
  BY OneWorker
<1>2. /\ w.asking
      /\ workers' = [workers EXCEPT ![1].asking = FALSE, ![1].image.choice = FALSE]
      /\ UNCHANGED <<use, app, open, loading, queue>>
  BY <1>1 DEF Answer
<1> HIDE DEF w
<1>3. w \in TapeJobs /\ w.image \in Images /\ IsImage(w.image)
  BY <1>1, <1>2, JobOfTape
<1>4. workers' = <<job>>
  <2>1. workers' = [<<w>> EXCEPT ![1] = job]
    BY <1>1, <1>2
  <2> HIDE DEF job
  <2>2. [<<w>> EXCEPT ![1] = job] = <<job>>
    OBVIOUS
  <2> QED BY <2>1, <2>2
<1>5. FALSE \in BOOLEAN
  OBVIOUS
<1>6. image \in Images
  BY <1>3, <1>5, Zenon DEF Images
<1>7. image.segments = w.image.segments /\ image.blocks = w.image.blocks
  BY <1>3 DEF Images
<1> HIDE DEF image
<1>8. image \in {x \in Images : IsImage(x)}
  BY <1>3, <1>6, <1>7 DEF IsImage
<1>9. job \in TapeJobs
  BY <1>3, <1>5, <1>8, Zenon DEF TapeJobs
<1>10. job \in Jobs /\ job.media = w.media
  BY <1>3, <1>9 DEF Jobs, TapeJobs
<1> HIDE DEF job
<1> QED BY <1>2, <1>4, <1>10, SameWorker DEF w

LEMMA FinishKeeps ==
  ASSUME IInv, NEW i \in DOMAIN workers, Finish(i)
  PROVE  IInv' /\ app' = app /\ open' = open
<1> DEFINE w == workers[1]
<1>1. /\ i = 1 /\ w \in Jobs /\ workers = <<w>>
      /\ open => queue = <<>> /\ loading = {w.media}
  BY OneWorker
<1>2. PICK ok \in Outcome :
        /\ workers' = SubSeq(workers, 1, 1 - 1) \o SubSeq(workers, 1 + 1, Len(workers))
        /\ queue' = IF open THEN Append(queue, [job |-> w, ok |-> ok]) ELSE queue
        /\ UNCHANGED <<use, app, open, loading>>
  BY <1>1 DEF Finish
<1> HIDE DEF w
<1> DEFINE m == [job |-> w, ok |-> ok]
<1>3. m \in Messages /\ m.job.media = w.media
  BY <1>1, Mays DEF Messages
<1> HIDE DEF m
<1>4. workers' = <<>>
  BY <1>1, <1>2
<1>5. workers' \in Seq(Jobs) /\ Len(workers') = 0
  BY <1>4
<1>6. CASE open
  <2>1. queue' = <<m>> /\ loading' = {w.media}
    BY <1>1, <1>2, <1>6 DEF m
  <2>2. queue' \in Seq(Messages) /\ Len(queue') = 1
    BY <1>3, <2>1
  <2>3. Media(workers') = {} /\ Posted(queue') = {w.media}
    BY <1>3, <1>4, <2>1, MediaOfOne
  <2>4. FlagsMatchJobs'
    BY <1>5, <2>1, <2>2, <2>3 DEF FlagsMatchJobs, Media, Posted
  <2> QED BY <1>2, <1>5, <2>2, <2>4 DEF IInv
<1>7. CASE ~open
  <2>1. queue' = queue /\ ~open'
    BY <1>2, <1>7
  <2>2. FlagsMatchJobs'
    BY <2>1 DEF FlagsMatchJobs
  <2> QED BY <1>2, <1>5, <2>1, <2>2 DEF IInv
<1> QED BY <1>6, <1>7

\* A completion keeps the tape in step, and the keys unless it puts a machine
\* back.
LEMMA CompletedIs ==
  ASSUME IsApp(app), NEW message \in Messages, NEW roms, NEW decodes
  PROVE  LET b == Completed(message, roms, decodes)
         IN  /\ IsApp(b)
             /\ InStep(app) => InStep(b)
             /\ \/ Released(app) => Released(b)
                \/ /\ message.job.media = "snapshot"
                   /\ message.job.model # app.model /\ b.model = app.model
<1> DEFINE job == message.job
           b == Completed(message, roms, decodes)
<1>0. SUFFICES /\ IsApp(b)
               /\ InStep(app) => InStep(b)
               /\ \/ Released(app) => Released(b)
                  \/ job.media = "snapshot" /\ job.model # app.model
                     /\ b.model = app.model
  OBVIOUS
<1>1. b = IF ~message.ok THEN app
          ELSE IF job.media = "tape" THEN ApplyLoadedTape(app, job, roms)
          ELSE ApplyLoadedSnapshot(app, job, roms, decodes)
  BY Zenon DEF Completed
<1>2. job \in Jobs
  BY DEF Messages
<1> HIDE DEF b, job
<1>3. CASE ~message.ok
  BY <1>1, <1>3
<1>4. CASE message.ok /\ job.media = "tape"
  <2>1. IsImage(job.image) /\ job.hz \in Clocks
    BY <1>2, <1>4, JobOfTape
  <2>2. b = ApplyLoadedTape(app, job, roms)
    BY <1>1, <1>4
  <2> QED BY <2>1, <2>2, ApplyLoadedTapeIs DEF Steady
<1>5. CASE message.ok /\ job.media # "tape"
  <2>1. job.media = "snapshot" /\ job.model \in Models
    BY <1>2, <1>5, JobOfTape
  <2>2. b = ApplyLoadedSnapshot(app, job, roms, decodes)
    BY <1>1, <1>5
  <2>3. /\ IsApp(b)
        /\ InStep(app) => InStep(b)
        /\ \/ Released(app) => Released(b)
           \/ job.model # app.model /\ b.model = app.model
    BY <2>1, <2>2, ApplyLoadedSnapshotIs
  <2> QED BY <2>1, <2>3
<1> QED BY <1>3, <1>4, <1>5

LEMMA CompleteKeeps ==
  ASSUME IInv, Complete
  PROVE  /\ IInv' /\ open' = open
         /\ InStep(app) => InStep(app')
         /\ (Released(app) => Released(app')) \/ PutBack
<1>1. PICK roms \in Outcome, decodes \in Outcome :
        /\ open /\ queue # <<>>
        /\ app' = Completed(Head(queue), roms, decodes)
        /\ loading' = Cleared(Head(queue))
        /\ queue' = Tail(queue)
        /\ UNCHANGED <<use, open, workers>>
  BY Zenon DEF Complete
<1> DEFINE m == queue[1]
<1>2. m \in Messages /\ Head(queue) = m /\ queue = <<m>> /\ Tail(queue) = <<>>
  BY <1>1, AtMostOne DEF IInv
<1>3. workers = <<>> /\ loading = {m.job.media}
  <2>1. workers = <<>> /\ loading = Media(workers) \union Posted(queue)
    BY <1>1, Flags
  <2> HIDE DEF m
  <2>2. Posted(queue) = {m.job.media}
    BY <1>2, MediaOfOne
  <2> QED BY <2>1, <2>2, MediaOfOne
<1> HIDE DEF m
<1>4. IsApp(app)
  BY DEF IInv
<1>5. /\ IsApp(app')
      /\ InStep(app) => InStep(app')
      /\ \/ Released(app) => Released(app')
         \/ m.job.media = "snapshot" /\ m.job.model # app.model /\ app'.model = app.model
  BY <1>1, <1>2, <1>4, CompletedIs
<1>6. /\ loading' = {} /\ queue' = <<>> /\ Len(queue') = 0 /\ queue' \in Seq(Messages)
      /\ workers' = <<>> /\ Len(workers') = 0
  BY <1>1, <1>2, <1>3 DEF Cleared
<1>7. FlagsMatchJobs'
  <2>1. Media(workers') = {} /\ Posted(queue') = {}
    BY <1>6, MediaOfOne
  <2> QED BY <1>6, <2>1 DEF FlagsMatchJobs, Media, Posted
<1>8. IInv'
  BY <1>1, <1>5, <1>6, <1>7 DEF IInv
<1> QED BY <1>1, <1>2, <1>5, <1>8 DEF PutBack

LEMMA CloseWindowKeeps ==
  ASSUME IInv, CloseWindow
  PROVE  /\ IInv' /\ ~open'
         /\ InStep(app) => InStep(app')
<1>1. PICK roms \in Outcome, decodes \in Outcome :
        /\ open
        /\ app' = IF queue = <<>> THEN app
                  ELSE Completed(Head(queue), roms, decodes)
        /\ open' = FALSE
        /\ loading' = {}
        /\ queue' = <<>>
        /\ workers' = [i \in DOMAIN workers |-> [workers[i] EXCEPT !.asking = FALSE]]
        /\ UNCHANGED use
  BY Zenon DEF CloseWindow
<1>2. IsApp(app)
  BY DEF IInv
<1>3. /\ IsApp(app')
      /\ InStep(app) => InStep(app')
  <2>1. CASE queue = <<>>
    BY <1>1, <1>2, <2>1
  <2>2. CASE queue # <<>>
    <3>1. Head(queue) \in Messages
      BY <2>2, AtMostOne DEF IInv
    <3> QED BY <1>1, <1>2, <2>2, <3>1, CompletedIs
  <2> QED BY <2>1, <2>2
<1>4. \A job \in Jobs : [job EXCEPT !.asking = FALSE] \in Jobs
  <2>1. FALSE \in BOOLEAN /\ FALSE \in {FALSE}
    OBVIOUS
  <2>2. \A job \in TapeJobs : [job EXCEPT !.asking = FALSE] \in TapeJobs
    BY <2>1, Zenon DEF TapeJobs
  <2>3. \A job \in SnapshotJobs : [job EXCEPT !.asking = FALSE] \in SnapshotJobs
    BY <2>1, Zenon DEF SnapshotJobs
  <2> QED BY <2>2, <2>3, Zenon DEF Jobs
<1>5. workers' \in Seq(Jobs) /\ Len(workers') <= 1
  <2>1. /\ workers \in Seq(Jobs) /\ Len(workers) <= 1 /\ Len(workers) \in Nat
        /\ DOMAIN workers = 1 .. Len(workers)
    BY DEF IInv
  <2>2. \A i \in DOMAIN workers : [workers[i] EXCEPT !.asking = FALSE] \in Jobs
    BY <1>4, <2>1, ElementOfSeq
  <2>3. workers' \in [1 .. Len(workers) -> Jobs]
    BY <1>1, <2>1, <2>2
  <2> QED BY <2>1, <2>3
<1>6. queue' \in Seq(Messages) /\ Len(queue') = 0
  BY <1>1
<1>7. FlagsMatchJobs'
  BY <1>1 DEF FlagsMatchJobs
<1>8. use' = use /\ open' \in BOOLEAN /\ ~open'
  BY <1>1, Zenon
<1> QED BY <1>3, <1>5, <1>6, <1>7, <1>8 DEF IInv

-----------------------------------------------------------------------------
(* Every step.                                                             *)

\* The three things the theorems say of a step.
Keeps ==
  /\ IInv'
  /\ InStep(app) =>
       InStep(app') \/ OpenCartridge \/ Rewind \/ (Tick /\ app'.tick < app.tick)
  /\ open' => open /\ ((Released(app) => Released(app')) \/ Rewind \/ PutBack)

LEMMA SteadyKeeps ==
  ASSUME IInv', Steady(app, app'), open' => open
  PROVE  Keeps
BY DEF Keeps, Steady

LEMMA DoKeeps ==
  ASSUME IInv, NEW event, NEW after, Do(event, after), IsApp(after), Steady(app, after)
  PROVE  Keeps
<1>1. app' = after /\ RestUnchanged
  BY DEF Do
<1>2. IInv' /\ open' = open
  BY <1>1, QuietStep DEF RestUnchanged
<1> QED BY <1>1, <1>2, SteadyKeeps

LEMMA OpenDiskKeeps ==
  ASSUME IInv, OpenDisk
  PROVE  Keeps
<1>1. PICK first \in Outcome, roms \in Outcome :
        LET left == LeaveNext(app, first)
        IN Do("disk", IF left.kind = "next" THEN left ELSE InsertDisk(left, roms))
  BY Zenon DEF OpenDisk
<1> DEFINE left == LeaveNext(app, first)
           after == IF left.kind = "next" THEN left ELSE InsertDisk(left, roms)
<1>2. Do("disk", after)
  BY <1>1
<1>3. IsApp(left) /\ Steady(app, left)
  BY LeaveNextIs DEF IInv
<1> HIDE DEF left
<1>4. IsApp(after) /\ Steady(left, after)
  BY <1>3, InsertDiskIs DEF Steady
<1> HIDE DEF after
<1>5. Steady(app, after)
  BY <1>3, <1>4, SteadyChain
<1> QED BY <1>2, <1>4, <1>5, DoKeeps

LEMMA OpenCartridgeKeeps ==
  ASSUME IInv, OpenCartridge
  PROVE  Keeps
<1>1. PICK first \in Outcome, roms \in Outcome :
        LET left == LeaveNext(app, first)
        IN Do("cartridge",
              IF left.kind = "next" THEN left ELSE InsertCartridge(left, roms))
  BY Zenon DEF OpenCartridge
<1> DEFINE left == LeaveNext(app, first)
           after == IF left.kind = "next" THEN left ELSE InsertCartridge(left, roms)
<1>2. Do("cartridge", after)
  BY <1>1
<1>3. IsApp(left) /\ Steady(app, left)
  BY LeaveNextIs DEF IInv
<1> HIDE DEF left
<1>4. /\ IsApp(after)
      /\ Released(left) => Released(after)
  BY <1>3, InsertCartridgeIs
<1> HIDE DEF after
<1>5. app' = after /\ RestUnchanged
  BY <1>2 DEF Do
<1>6. IInv' /\ open' = open
  BY <1>4, <1>5, QuietStep DEF RestUnchanged
<1> QED BY <1>3, <1>4, <1>5, <1>6 DEF Keeps, Steady

LEMMA RewindKeeps ==
  ASSUME IInv, Rewind
  PROVE  Keeps
<1>1. app' = RestoreOldest(app) /\ RestUnchanged
  BY DEF Rewind, Do
<1>2. IsApp(app')
  BY <1>1, RestoreOldestIs DEF IInv
<1>3. IInv' /\ open' = open
  BY <1>1, <1>2, QuietStep DEF RestUnchanged
<1> QED BY <1>3 DEF Keeps

LEMMA TickKeeps ==
  ASSUME IInv, Tick
  PROVE  Keeps
<1>1. PICK program \in use.programs : app' = TickClassic(app, program)
  BY DEF Tick
<1>2. /\ IsApp(app')
      /\ Released(app) => Released(app')
      /\ InStep(app) /\ app'.tick >= app.tick => InStep(app')
  BY <1>1, TickClassicIs DEF IInv
<1>3. IInv' /\ open' = open
  BY <1>2, QuietStep DEF Tick, RestUnchanged
<1>4. app.tick \in Nat /\ app'.tick \in Nat
  BY <1>2, AppTypes DEF IInv
<1> QED BY <1>2, <1>3, <1>4 DEF Keeps

\* Changes of machine, the tape's buttons and keys.
LEMMA UserKeeps ==
  ASSUME IInv,
         \/ ChooseModel \/ ChooseNext \/ Play \/ Stop \/ Fast \/ Reset
         \/ PressKey \/ ReleaseKey \/ LoseFocus
  PROVE  Keeps
<1>0. IsApp(app) /\ use \in Uses
  BY DEF IInv
<1>1. CASE ChooseModel
  <2>1. PICK model \in use.models, roms \in Outcome :
          Do("machine", SwitchModel(app, model, roms))
    BY <1>1 DEF ChooseModel
  <2>2. model \in Models
    BY <1>0, UsesAssumption
  <2> QED BY <1>0, <2>1, <2>2, SwitchModelIs, DoKeeps
<1>2. CASE ChooseNext
  BY <1>0, <1>2, ActivateNextIs, DoKeeps DEF ChooseNext
<1>3. CASE Play
  BY <1>0, <1>3, PlayTapeIs, DoKeeps DEF Play
<1>4. CASE Stop
  BY <1>0, <1>4, StopTapeIs, DoKeeps DEF Stop
<1>5. CASE Fast
  BY <1>0, <1>5, ToggleFastIs, DoKeeps DEF Fast
<1>6. CASE Reset
  BY <1>0, <1>6, MenuResetIs, DoKeeps DEF Reset
<1>7. CASE PressKey
  <2>1. PICK k \in HostKeys, code \in use.codes : Do("keys", HostKeyDown(app, k, code))
    BY <1>7 DEF PressKey
  <2>2. code \in Codes
    BY <1>0, CodeFacts
  <2> QED BY <1>0, <2>1, <2>2, HostKeyDownIs, DoKeeps
<1>8. CASE ReleaseKey
  <2>1. PICK k \in HostKeys : Do("keys", HostKeyUp(app, k))
    BY <1>8 DEF ReleaseKey
  <2> QED BY <1>0, <2>1, HostKeyUpIs, DoKeeps
<1>9. CASE LoseFocus
  <2>1. Steady(app, ReleaseAllKeys(app)) /\ IsApp(ReleaseAllKeys(app))
    BY <1>0, ReleaseAllKeysIs, MachineKept DEF Steady
  <2> QED BY <1>9, <2>1, DoKeeps DEF LoseFocus
<1> QED BY <1>1, <1>2, <1>3, <1>4, <1>5, <1>6, <1>7, <1>8, <1>9

LEMMA LoadKeeps ==
  ASSUME IInv,
         \/ OpenTape \/ OpenSnapshot \/ Complete \/ CloseWindow
         \/ \E i \in DOMAIN workers : Ask(i) \/ Answer(i) \/ Finish(i)
  PROVE  Keeps
<1>1. CASE OpenTape
  <2>1. IInv' /\ Steady(app, app')
    BY <1>1, OpenTapeKeeps
  <2>2. open
    BY <1>1 DEF OpenTape, Can
  <2> QED BY <2>1, <2>2, SteadyKeeps
<1>2. CASE OpenSnapshot
  <2>1. IInv' /\ Steady(app, app')
    BY <1>2, OpenSnapshotKeeps
  <2>2. open
    BY <1>2 DEF OpenSnapshot, Can
  <2> QED BY <2>1, <2>2, SteadyKeeps
<1>3. CASE Complete
  BY <1>3, CompleteKeeps DEF Keeps
<1>4. CASE CloseWindow
  BY <1>4, CloseWindowKeeps DEF Keeps
<1>5. CASE \E i \in DOMAIN workers : Ask(i) \/ Answer(i) \/ Finish(i)
  <2>1. IInv' /\ app' = app /\ open' = open
    BY <1>5, AskKeeps, AnswerKeeps, FinishKeeps
  <2>2. Steady(app, app')
    BY <2>1 DEF Steady
  <2> QED BY <2>1, <2>2, SteadyKeeps
<1> QED BY <1>1, <1>2, <1>3, <1>4, <1>5

LEMMA StutterKeeps ==
  ASSUME IInv, UNCHANGED vars
  PROVE  Keeps
<1>1. app' = app /\ RestUnchanged
  BY DEF vars, RestUnchanged
<1>2. IsApp(app) /\ Steady(app, app)
  BY DEF IInv, Steady
<1>3. IInv' /\ open' = open
  BY <1>1, <1>2, QuietStep DEF RestUnchanged
<1> QED BY <1>1, <1>2, <1>3, SteadyKeeps

LEMMA NextKeeps ==
  ASSUME IInv, [Next]_vars
  PROVE  Keeps
<1>1. CASE Next
  BY <1>1, LoadKeeps, UserKeeps, OpenDiskKeeps, OpenCartridgeKeeps, RewindKeeps,
     TickKeeps, StutterKeeps DEF Next, Exited
<1>2. CASE UNCHANGED vars
  BY <1>2, StutterKeeps
<1> QED BY <1>1, <1>2

LEMMA InitInv == Init => IInv
<1> SUFFICES ASSUME Init PROVE IInv
  OBVIOUS
<1>1. /\ use \in Uses /\ app = InitApp(use)
      /\ open = TRUE /\ loading = {} /\ workers = <<>> /\ queue = <<>>
  BY DEF Init
<1>2. /\ use.model \in Models /\ use.autoload \in BOOLEAN /\ use.fast \in BOOLEAN
  BY <1>1, UsesAssumption
<1> DEFINE keys == [kind \in Kinds |-> {}]
           held == [k \in HostKeys |-> None]
<1>3. app = [kind |-> "classic", model |-> use.model, tick |-> 0,
             keys |-> keys, held |-> held,
             text |-> <<>>, position |-> 0, cooldown |-> 0, hold |-> 0,
             active |-> None, pending |-> FALSE, armed |-> FALSE, seen |-> FALSE,
             idle |-> 0, tape |-> NoTape, autoload |-> use.autoload,
             fast |-> use.fast, ring |-> <<>>, wait |-> 1]
  BY <1>1, Zenon DEF InitApp
<1>4. /\ keys \in [Kinds -> SUBSET Codes] /\ held \in [HostKeys -> Codes \union {None}]
      /\ "classic" \in Kinds /\ <<>> \in Texts /\ None \in Codes \union {None}
      /\ <<>> \in Seq(Checkpoints) /\ FALSE \in BOOLEAN /\ 0 \in Nat
      /\ IsTape(NoTape) /\ NoTape \in Tapes
  BY NoTapeIs, TapeTypes DEF Kinds, Texts
<1> HIDE DEF keys, held
<1>5. app \in Apps
  BY <1>2, <1>3, <1>4, Frames, Zenon DEF Apps
<1>6. /\ app.tape = NoTape /\ app.position = 0 /\ app.text = <<>> /\ app.ring = <<>>
      /\ app.pending = FALSE
  BY <1>3
<1>7. IsApp(app)
  BY <1>4, <1>5, <1>6, TextFacts, Frames DEF IsApp, Waits
<1>8. /\ workers \in Seq(Jobs) /\ queue \in Seq(Messages)
      /\ Len(workers) = 0 /\ Len(queue) = 0
  BY <1>1
<1>9. FlagsMatchJobs
  <2>1. Media(workers) = {} /\ Posted(queue) = {}
    BY <1>1, MediaOfOne
  <2> QED BY <1>1, <1>8, <2>1 DEF FlagsMatchJobs, Media, Posted
<1> QED BY <1>1, <1>7, <1>8, <1>9 DEF IInv

LEMMA NextInv == IInv /\ [Next]_vars => IInv'
BY NextKeeps DEF Keeps

LEMMA Inductive == Spec => []IInv
BY InitInv, NextInv, PTL DEF Spec

-----------------------------------------------------------------------------
(* The theorems.                                                           *)

\* The state of the front end is one that its code can be in: counters within
\* the frames that app_run_autotype and app_update_tape_loader_activity count,
\* no more checkpoints than app_rewind_capture has slots, a tape position on
\* the tape, and one load at a time.
THEOREM TypeCorrect == Spec => []TypeOK
<1>1. IInv => TypeOK
  <2> SUFFICES ASSUME IInv PROVE TypeOK
    OBVIOUS
  <2>1. IsApp(app) /\ Len(workers) <= 1 /\ Len(queue) <= 1
    BY DEF IInv
  <2>2. /\ app.kind \in Kinds /\ app.model \in Models /\ app.tick \in Ticks
        /\ app.position \in Nat /\ app.position <= Len(app.text)
        /\ Len(app.text) \in Nat /\ Len(app.ring) <= Slots /\ IsTape(app.tape)
    BY <2>1, AppTypes
  <2>3. /\ app.cooldown \in 0 .. BootFrames /\ app.hold \in 0 .. HoldFrames
        /\ app.idle \in 0 .. IdleFrames - 1 /\ app.wait \in 1 .. CaptureFrames
    BY <2>1, AppCounts
  <2> DEFINE p == app.tape
  <2>4. /\ Len(p.segments) \in Nat /\ Len(p.blocks) \in Nat
        /\ p.block \in Nat /\ p.index \in Nat
        /\ p.index <= Len(p.segments) /\ p.block <= Len(p.blocks)
        /\ p.playing => p.index < Len(p.segments)
    BY <2>2, TapeTypes DEF IsTape
  <2> HIDE DEF p
  <2>5. /\ p.index \in 0 .. Len(p.segments) /\ p.block \in 0 .. Len(p.blocks)
        /\ app.position \in 0 .. Len(app.text)
    BY <2>2, <2>4
  <2> QED BY <2>1, <2>2, <2>3, <2>4, <2>5 DEF TypeOK, p, Ticks
<1> QED BY <1>1, Inductive, PTL

\* However often the machine changes its clock, tape_rewind's rescaling leaves
\* every pulse the length of its file to half a tick, and every pause to two.
THEOREM PulsesKeepTheirLength == Spec => []PulsesKept
<1>1. IInv => PulsesKept
  <2> SUFFICES ASSUME IInv, NEW i \in DOMAIN app.tape.segments
               PROVE  LET s     == app.tape.segments[i]
                          error == s.ticks * Hz48 - s.nominal * app.tape.hz
                      IN IF s.pause THEN error < 2 * Hz48 /\ error > -(2 * Hz48)
                                    ELSE 2 * error <= Hz48 /\ 2 * error >= -Hz48
    BY DEF PulsesKept
  <2> DEFINE p == app.tape
             s == p.segments[i]
  <2>1. IsTape(p)
    BY AppTypes DEF IInv
  <2>2. p.hz \in Clocks /\ RightLength(s, p.hz)
    BY <2>1 DEF IsTape
  <2>3. s \in Segments
    BY <2>1, TapeTypes, ElementOfSeq
  <2>4. s.nominal \in Nat
    BY <2>3 DEF Segments
  <2> HIDE DEF p, s
  <2>5. CASE s.pause
    <3>1. RightPause(s.nominal, s.ticks, p.hz)
      BY <2>2, <2>5 DEF RightLength
    <3>2. /\ s.ticks * Hz48 - s.nominal * p.hz < 2 * Hz48
          /\ s.ticks * Hz48 - s.nominal * p.hz > -(2 * Hz48)
      BY <2>2, <2>4, <3>1, LengthKept
    <3> QED BY <2>5, <3>2 DEF p, s
  <2>6. CASE ~s.pause
    <3>1. RightPulse(s.nominal, s.ticks, p.hz)
      BY <2>2, <2>6 DEF RightLength
    <3> QED BY <2>6, <3>1 DEF RightPulse, p, s
  <2> QED BY <2>5, <2>6
<1> QED BY <1>1, Inductive, PTL

\* A load's flag is up exactly while its job is with its thread or in the
\* window's queue, and a tape waits for its command only while the command is
\* typed: neither app_start_tape_load nor the warp of app_tick_emulator waits
\* for what does not come.
THEOREM NothingWaitsForever == Spec => []NothingWaits
<1>1. IInv => NothingWaits
  <2> SUFFICES ASSUME IInv PROVE NothingWaits
    OBVIOUS
  <2>1. FlagsMatchJobs /\ Waits(app)
    BY DEF IInv, IsApp
  <2> QED BY <2>1 DEF NothingWaits, PendingIsTyped, Waits
<1> QED BY <1>1, Inductive, PTL

\* Every change of machine, load and reset leaves the tape in step with the
\* machine's clock and no key down behind it, but for the steps that KeepsStep
\* and KeepsKeys name.
THEOREM TapeAndKeysKept == Spec => KeepsTapeAndKeys
<1> DEFINE A == TapeInStep =>
                  \/ TapeInStep'
                  \/ OpenCartridge \/ Rewind
                  \/ Tick /\ app'.tick < app.tick
           B == KeysReleased => KeysReleased' \/ Rewind \/ PutBack
<1>1. TapeInStep <=> InStep(app)
  BY DEF TapeInStep, InStep, Due
<1>2. TapeInStep' <=> InStep(app')
  BY DEF TapeInStep, InStep, Due
<1>3. KeysReleased <=> (open => Released(app))
  BY DEF KeysReleased, Released
<1>4. KeysReleased' <=> (open' => Released(app'))
  BY DEF KeysReleased, Released
<1>5. IInv /\ [Next]_vars => A /\ B
  <2> SUFFICES ASSUME IInv, [Next]_vars PROVE A /\ B
    OBVIOUS
  <2>1. Keeps
    BY NextKeeps
  <2> QED BY <1>1, <1>2, <1>3, <1>4, <2>1 DEF Keeps
<1>6. KeepsTapeAndKeys <=> [][A]_vars /\ [][B]_vars
  BY DEF KeepsTapeAndKeys, KeepsStep, KeepsKeys
<1> HIDE DEF A, B
<1>7. Spec => [][A]_vars /\ [][B]_vars
  BY <1>5, Inductive, PTL DEF Spec
<1> QED BY <1>6, <1>7
=============================================================================
