------------------------- MODULE SequenceGapsProofs -------------------------
(***************************************************************************)
(* Proofs about SequenceGaps, for every size of the number space, of the   *)
(* bitmap and of the windows: what SendNACK's pairs ask for, that the      *)
(* readers ask for everything that is missing, and what else they ask for. *)
(***************************************************************************)
EXTENDS SequenceGaps, WellFoundedInduction, TLAPS

-----------------------------------------------------------------------------
(* Numbers.                                                                *)

(* Every set of natural numbers has a least element: what the inductions   *)
(* below use, each on the set of the numbers for which a claim is true.    *)
LEMMA LeastElement ==
  ASSUME NEW T, T \subseteq Nat, T # {}
  PROVE  \E x \in T : \A y \in T : x <= y
<1> DEFINE R == OpToRel(<, Nat)
<1>1. IsWellFoundedOn(R, Nat)
  BY NatLessThanWellFounded
<1>2. \A x, y \in Nat : x < y => <<x, y>> \in R
  BY DEF OpToRel
<1> HIDE DEF R
<1>3. PICK x \in T : \A y \in T : ~(<<y, x>> \in R)
  BY <1>1, WFMin, Zenon
<1>4. ASSUME NEW y \in T
      PROVE  x <= y
  <2>1. x \in Nat /\ y \in Nat
    OBVIOUS
  <2>2. ~(y < x)
    BY <1>2, <1>3, <2>1
  <2> QED
    BY <2>1, <2>2
<1> QED
  BY <1>4

LEMMA ModUnique ==
  ASSUME NEW a \in Int, NEW n \in Nat \ {0}, NEW q \in Int, NEW r \in 0 .. n - 1,
         a = n * q + r
  PROVE  a % n = r
  OBVIOUS

LEMMA Division ==
  ASSUME NEW a \in Int, NEW n \in Nat \ {0}
  PROVE  \E q \in Int : a = n * q + (a % n) /\ a % n \in 0 .. n - 1
<1>1. a \div n \in Int /\ a = n * (a \div n) + (a % n) /\ a % n \in 0 .. n - 1
  OBVIOUS
<1>2. QED
  BY <1>1

LEMMA ModPlus ==
  ASSUME NEW a \in Int, NEW b \in Int, NEW n \in Nat \ {0}
  PROVE  ((a % n) + b) % n = (a + b) % n
<1> DEFINE r == a % n
           c == r + b
           s == c % n
<1>1. PICK p \in Int : a = n * p + r /\ r \in 0 .. n - 1
  BY Division
<1>2. c \in Int
  BY <1>1
<1>3. PICK q \in Int : c = n * q + s /\ s \in 0 .. n - 1
  BY <1>2, Division
<1> HIDE DEF r, s
<1>4. a + b = n * p + n * q + s
  BY <1>1, <1>3
<1>5. n * p + n * q = n * (p + q)
  OBVIOUS
<1>6. a + b = n * (p + q) + s /\ a + b \in Int /\ p + q \in Int
  BY <1>3, <1>4, <1>5
<1>7. (a + b) % n = s
  BY <1>3, <1>6, ModUnique
<1>8. QED
  BY <1>7 DEF r, s

LEMMA ModMinus ==
  ASSUME NEW a \in Int, NEW b \in Int, NEW n \in Nat \ {0}
  PROVE  ((a % n) - (b % n)) % n = (a - b) % n
<1> DEFINE t == b % n
<1>1. PICK p \in Int : b = n * p + t /\ t \in 0 .. n - 1
  BY Division
<1> HIDE DEF t
<1>2. ((a % n) - t) % n = (a - t) % n
  <2>1. ((a % n) + (0 - t)) % n = (a + (0 - t)) % n
    <3>1. 0 - t \in Int
      BY <1>1
    <3>2. QED
      BY <3>1, ModPlus
  <2>2. a % n \in Int
    BY Division
  <2>3. QED
    BY <1>1, <2>1, <2>2
<1>3. PICK q \in Int : a - b = n * q + ((a - b) % n) /\ (a - b) % n \in 0 .. n - 1
  <2>1. a - b \in Int
    OBVIOUS
  <2>2. QED
    BY <2>1, Division
<1>4. a - t = n * (q + p) + ((a - b) % n) /\ a - t \in Int /\ q + p \in Int
  <2>1. n * q + n * p = n * (q + p)
    OBVIOUS
  <2>2. QED
    BY <1>1, <1>3, <2>1
<1>5. (a - t) % n = (a - b) % n
  BY <1>3, <1>4, ModUnique
<1>6. QED
  BY <1>2, <1>5 DEF t

LEMMA SpaceIsPositive == SeqSpace \in Nat \ {0}
  BY SpaceAssumption

LEMMA WireRange ==
  ASSUME NEW a \in Int
  PROVE  Wire(a) \in SeqNums /\ Wire(a) \in Int
<1>1. \A n \in Nat \ {0} : a % n \in 0 .. n - 1 /\ a % n \in Int
  BY Division
<1>2. QED
  BY <1>1, SpaceIsPositive DEF Wire, SeqNums

(* A number of the wire stands for its packet when something is added.     *)
LEMMA WirePlus ==
  ASSUME NEW a \in Int, NEW b \in Int
  PROVE  (Wire(a) + b) % SeqSpace = Wire(a + b)
  BY ModPlus, SpaceIsPositive DEF Wire

(* The distance of two numbers is that of the packets, to within a round.  *)
LEMMA WireMinus ==
  ASSUME NEW a \in Int, NEW b \in Int
  PROVE  (Wire(a) - Wire(b)) % SeqSpace = (a - b) % SeqSpace
  BY ModMinus, SpaceIsPositive DEF Wire

LEMMA SmallMod ==
  ASSUME NEW a \in 0 .. SeqSpace - 1
  PROVE  a % SeqSpace = a
<1>1. a = SeqSpace * 0 + a
  BY SpaceIsPositive
<1>2. QED
  BY <1>1, ModUnique, SpaceIsPositive

LEMMA NegativeMod ==
  ASSUME NEW a \in 1 .. SeqSpace
  PROVE  (0 - a) % SeqSpace = SeqSpace - a
<1>1. 0 - a = SeqSpace * (0 - 1) + (SeqSpace - a)
  BY SpaceIsPositive
<1>2. QED
  BY <1>1, ModUnique, SpaceIsPositive

-----------------------------------------------------------------------------
(* The pairs of a run of missing numbers.                                  *)

(* The numbers of the L packets after the one counted N.                   *)
Run(N, L) == [i \in 1 .. L |-> Wire(N + i)]

LEMMA RunFacts ==
  ASSUME NEW N \in Int, NEW L \in Nat
  PROVE  Len(Run(N, L)) = L /\ \A i \in 1 .. L : Run(N, L)[i] = Wire(N + i)
  BY DEF Run

LEMMA RunDistance ==
  ASSUME NEW N \in Int, NEW L \in 0 .. SeqSpace, NEW i \in 1 .. L, NEW k \in i .. L
  PROVE  Distance(Run(N, L)[i], Run(N, L)[k]) = k - i
<1>1. Run(N, L)[i] = Wire(N + i) /\ Run(N, L)[k] = Wire(N + k)
  BY RunFacts, SpaceIsPositive
<1>2. Distance(Run(N, L)[i], Run(N, L)[k]) = ((N + k) - (N + i)) % SeqSpace
  BY <1>1, WireMinus, SpaceAssumption DEF Distance
<1>3. (N + k) - (N + i) = k - i /\ k - i \in 0 .. SeqSpace - 1
  BY SpaceAssumption
<1>4. QED
  BY <1>2, <1>3, SmallMod

(* The loop of SendNACK ends a pair after NackBitmapSize more numbers.     *)
LEMMA NextBaseFacts ==
  ASSUME NEW N \in Int, NEW L \in 0 .. SeqSpace, NEW i \in 1 .. L
  PROVE  /\ NextBase(Run(N, L), i) \in i + 1 .. L + 1
         /\ \A k \in i + 1 .. NextBase(Run(N, L), i) - 1 : k - i <= NackBitmapSize
<1> DEFINE m == Run(N, L)
           Ends(j) == /\ j <= Len(m) => ~Fits(m[i], m[j])
                      /\ \A k \in i + 1 .. j - 1 : Fits(m[i], m[k])
<1>1. Len(m) = L
  BY RunFacts, SpaceAssumption
<1>2. \A k \in i .. L : Fits(m[i], m[k]) <=> k - i <= NackBitmapSize
  BY RunDistance DEF Fits
<1> HIDE DEF m
<1>3. \E j \in i + 1 .. L + 1 : Ends(j)
  <2> DEFINE e == IF i + NackBitmapSize + 1 <= L + 1 THEN i + NackBitmapSize + 1 ELSE L + 1
  <2>1. e \in i + 1 .. L + 1
    BY SpaceAssumption, BoundAssumption
  <2>2. Ends(e)
    BY <1>1, <1>2, SpaceAssumption, BoundAssumption
  <2>3. QED
    BY <2>1, <2>2
<1>4. NextBase(m, i) = CHOOSE j \in i + 1 .. L + 1 : Ends(j)
  BY <1>1 DEF NextBase
<1> HIDE DEF Ends
<1>5. NextBase(m, i) \in i + 1 .. L + 1 /\ Ends(NextBase(m, i))
  BY <1>3, <1>4
<1>6. QED
  BY <1>2, <1>5, SpaceAssumption DEF m, Ends

(* The bitmap of a pair holds the place of every number up to the base of  *)
(* the next, and loses none of them.                                       *)
LEMMA BitmapFacts ==
  ASSUME NEW N \in Int, NEW L \in 0 .. SeqSpace, NEW i \in 1 .. L
  PROVE  Bitmap(Run(N, L), i) = {k - i - 1 : k \in i + 1 .. NextBase(Run(N, L), i) - 1}
<1> DEFINE m == Run(N, L)
           e == NextBase(m, i)
<1>1. e \in i + 1 .. L + 1 /\ \A k \in i + 1 .. e - 1 : k - i <= NackBitmapSize
  BY NextBaseFacts
<1>2. \A k \in i .. L : Distance(m[i], m[k]) = k - i
  BY RunDistance
<1>3. Bitmap(m, i) = {Distance(m[i], m[k]) - 1 : k \in i + 1 .. e - 1} \cap 0 .. NackBitmapSize - 1
  BY DEF Bitmap
<1> HIDE DEF m, e
<1>4. \A k \in i + 1 .. e - 1 :
        /\ Distance(m[i], m[k]) - 1 = k - i - 1
        /\ k - i - 1 \in 0 .. NackBitmapSize - 1
  BY <1>1, <1>2, SpaceIsPositive, BoundAssumption
<1>5. Bitmap(m, i) = {k - i - 1 : k \in i + 1 .. e - 1}
  BY <1>3, <1>4
<1>6. QED
  BY <1>5 DEF m, e

(* What one pair asks for.                                                 *)
Asks(p) == {p.base} \cup {(p.base + b + 1) % SeqSpace : b \in p.bitmap}
PairAt(missing, i) == [base |-> missing[i], bitmap |-> Bitmap(missing, i)]

LEMMA PairAsks ==
  ASSUME NEW N \in Int, NEW L \in 0 .. SeqSpace, NEW i \in 1 .. L
  PROVE  Asks(PairAt(Run(N, L), i)) =
           {Wire(N + k) : k \in i .. NextBase(Run(N, L), i) - 1}
<1> DEFINE m == Run(N, L)
           e == NextBase(m, i)
           p == PairAt(m, i)
<1>1. e \in i + 1 .. L + 1
  BY NextBaseFacts
<1>2. p.base = Wire(N + i) /\ p.bitmap = {k - i - 1 : k \in i + 1 .. e - 1}
  <2>1. Run(N, L)[i] = Wire(N + i)
    BY RunFacts, SpaceIsPositive
  <2>2. QED
    BY <2>1, BitmapFacts DEF PairAt
<1>3. Asks(p) = {p.base} \cup {(p.base + b + 1) % SeqSpace : b \in p.bitmap}
  BY DEF Asks
<1> HIDE DEF m, e, p
<1>4. \A k \in i + 1 .. e - 1 : (p.base + (k - i - 1) + 1) % SeqSpace = Wire(N + k)
  <2> SUFFICES ASSUME NEW k \in i + 1 .. e - 1
               PROVE  (p.base + (k - i - 1) + 1) % SeqSpace = Wire(N + k)
    OBVIOUS
  <2>1. Wire(N + i) \in Int /\ N + i \in Int /\ k - i \in Int /\ k \in Int
    BY <1>1, WireRange
  <2>2. (Wire(N + i) + (k - i)) % SeqSpace = Wire(N + i + (k - i))
    BY <2>1, WirePlus
  <2>3. N + i + (k - i) = N + k /\ p.base + (k - i - 1) + 1 = Wire(N + i) + (k - i)
    BY <1>2, <2>1
  <2>4. QED
    BY <2>2, <2>3
<1>5. {(p.base + b + 1) % SeqSpace : b \in p.bitmap} = {Wire(N + k) : k \in i + 1 .. e - 1}
  <2>1. {(p.base + b + 1) % SeqSpace : b \in p.bitmap} =
          {(p.base + (k - i - 1) + 1) % SeqSpace : k \in i + 1 .. e - 1}
    BY <1>2
  <2>2. QED
    BY <1>4, <2>1
<1>6. i .. e - 1 = {i} \cup i + 1 .. e - 1
  BY <1>1
<1>7. Asks(p) = {Wire(N + k) : k \in i .. e - 1}
  BY <1>2, <1>3, <1>5, <1>6
<1>8. QED
  BY <1>7 DEF m, e, p

(* SendNACK's loop, as the model states it: a function of the position     *)
(* that refers to itself further on.  There is one, which is shown by      *)
(* building it from the end.                                               *)
PairsFrom(missing, f, i) ==
  IF i > Len(missing) THEN {} ELSE {PairAt(missing, i)} \cup f[NextBase(missing, i)]

LEMMA PairsExist ==
  ASSUME NEW N \in Int, NEW L \in 0 .. SeqSpace
  PROVE  \E f : f = [i \in 1 .. L + 1 |-> PairsFrom(Run(N, L), f, i)]
<1> DEFINE m == Run(N, L)
           Built(n, f) == f = [i \in n .. L + 1 |-> PairsFrom(m, f, i)]
           T == {n \in 1 .. L + 1 : \E f : Built(n, f)}
<1>1. Len(m) = L /\ L \in Nat
  BY RunFacts, SpaceIsPositive
<1>2. \A i \in 1 .. L : NextBase(m, i) \in i + 1 .. L + 1
  BY NextBaseFacts
<1> HIDE DEF m, Built
<1>3. \A n : n \in T <=> n \in 1 .. L + 1 /\ \E f : Built(n, f)
  BY Zenon
<1> HIDE DEF T
<1>4. L + 1 \in T
  <2> DEFINE f == [i \in L + 1 .. L + 1 |-> {}]
  <2>1. \A i \in L + 1 .. L + 1 : PairsFrom(m, f, i) = {}
    BY <1>1 DEF PairsFrom
  <2>2. Built(L + 1, f)
    BY <2>1 DEF Built
  <2>3. QED
    BY <1>1, <1>3, <2>2
<1>5. PICK x \in T : \A y \in T : x <= y
  <2>1. T \subseteq Nat
    BY <1>3
  <2>2. QED
    BY <1>4, <2>1, LeastElement
<1>6. x = 1
  <2> SUFFICES ASSUME x # 1 PROVE FALSE
    OBVIOUS
  <2>1. x \in 2 .. L + 1 /\ x - 1 \in 1 .. L
    BY <1>1, <1>3, <1>5
  <2>2. PICK f : Built(x, f)
    BY <1>3, <1>5
  <2> DEFINE g == [i \in x - 1 .. L + 1 |-> IF i = x - 1 THEN PairsFrom(m, f, x - 1) ELSE f[i]]
  <2>3. \A i \in x .. L + 1 : f[i] = PairsFrom(m, f, i)
    BY <2>2 DEF Built
  <2>4. \A i \in x - 1 .. L : NextBase(m, i) \in x .. L + 1
    BY <1>1, <1>2, <2>1
  <2>5. \A i \in x .. L + 1 : g[i] = f[i]
    BY <1>1, <2>1
  <2>6. \A i \in x - 1 .. L + 1 : PairsFrom(m, g, i) = PairsFrom(m, f, i)
    <3> HIDE DEF g
    <3> SUFFICES ASSUME NEW i \in x - 1 .. L + 1
                 PROVE  PairsFrom(m, g, i) = PairsFrom(m, f, i)
      OBVIOUS
    <3>1. CASE i > L
      BY <1>1, <3>1 DEF PairsFrom
    <3>2. CASE ~(i > L)
      <4>1. i \in x - 1 .. L
        BY <1>1, <2>1, <3>2
      <4>2. g[NextBase(m, i)] = f[NextBase(m, i)]
        BY <2>4, <2>5, <4>1
      <4>3. QED
        BY <4>2 DEF PairsFrom
    <3>3. QED
      BY <3>1, <3>2
  <2>7. \A i \in x - 1 .. L + 1 :
          (IF i = x - 1 THEN PairsFrom(m, f, x - 1) ELSE f[i]) = PairsFrom(m, g, i)
    <3> HIDE DEF g
    <3> SUFFICES ASSUME NEW i \in x - 1 .. L + 1
                 PROVE  (IF i = x - 1 THEN PairsFrom(m, f, x - 1) ELSE f[i]) = PairsFrom(m, g, i)
      OBVIOUS
    <3>1. CASE i = x - 1
      BY <2>6, <3>1
    <3>2. CASE i # x - 1
      <4>1. i \in x .. L + 1
        BY <1>1, <2>1, <3>2
      <4>2. QED
        BY <2>3, <2>6, <3>2, <4>1
    <3>3. QED
      BY <3>1, <3>2
  <2>8. Built(x - 1, g)
    BY <2>7, Zenon DEF Built
  <2>9. x - 1 \in T
    <3>1. x - 1 \in 1 .. L + 1
      BY <1>1, <2>1
    <3>2. QED
      BY <1>3, <2>8, <3>1
  <2>10. x <= x - 1
    BY <1>5, <2>9
  <2>11. QED
    BY <2>1, <2>10
<1>7. \E f : Built(1, f)
  BY <1>3, <1>5, <1>6
<1>8. QED
  BY <1>7 DEF m, Built

LEMMA PairsEquation ==
  ASSUME NEW N \in Int, NEW L \in 0 .. SeqSpace
  PROVE  \E f : /\ f = [i \in 1 .. L + 1 |-> PairsFrom(Run(N, L), f, i)]
                /\ NackPairs(Run(N, L)) = f[1]
<1> DEFINE m == Run(N, L)
           f == CHOOSE h : h = [i \in 1 .. Len(m) + 1 |-> PairsFrom(m, h, i)]
<1>1. Len(m) = L
  BY RunFacts, SpaceIsPositive
<1>2. NackPairs(m) = f[1]
  BY DEF NackPairs, PairsFrom, PairAt
<1>3. \E h : h = [i \in 1 .. Len(m) + 1 |-> PairsFrom(m, h, i)]
  BY <1>1, PairsExist
<1> HIDE DEF m
<1>4. f = [i \in 1 .. Len(m) + 1 |-> PairsFrom(m, f, i)]
  BY <1>3, Zenon
<1> HIDE DEF f
<1>5. QED
  BY <1>1, <1>2, <1>4 DEF m

(* Pair after pair, SendNACK asks for every number of a run and no other:  *)
(* none is out of reach of its bitmap, on either side of the wrap-around.  *)
THEOREM RunIsAsked ==
  ASSUME NEW N \in Int, NEW L \in 0 .. SeqSpace
  PROVE  Requested(NackPairs(Run(N, L))) = {Wire(N + k) : k \in 1 .. L}
<1> DEFINE m == Run(N, L)
<1>1. Len(m) = L /\ L \in Nat
  BY RunFacts, SpaceIsPositive
<1>2. \A i \in 1 .. L : NextBase(m, i) \in i + 1 .. L + 1
  BY NextBaseFacts
<1>3. \A i \in 1 .. L : Asks(PairAt(m, i)) = {Wire(N + k) : k \in i .. NextBase(m, i) - 1}
  BY PairAsks
<1>4. PICK f : /\ f = [i \in 1 .. L + 1 |-> PairsFrom(m, f, i)]
               /\ NackPairs(m) = f[1]
  BY PairsEquation
<1> HIDE DEF m
<1>5. /\ f[L + 1] = {}
      /\ \A i \in 1 .. L : f[i] = {PairAt(m, i)} \cup f[NextBase(m, i)]
  <2>1. \A i \in 1 .. L + 1 : f[i] = PairsFrom(m, f, i)
    BY <1>4
  <2>2. L + 1 \in 1 .. L + 1 /\ L + 1 > Len(m)
    BY <1>1
  <2>3. \A i \in 1 .. L : i \in 1 .. L + 1 /\ ~(i > Len(m))
    BY <1>1
  <2>4. QED
    BY <2>1, <2>2, <2>3 DEF PairsFrom
<1>6. \A pairs : Requested(pairs) = UNION {Asks(p) : p \in pairs}
  BY DEF Requested, Asks
<1> DEFINE Right(i) == Requested(f[i]) = {Wire(N + k) : k \in i .. L}
<1>7. Right(L + 1)
  <2>1. Requested(f[L + 1]) = {}
    BY <1>5, <1>6
  <2>2. {Wire(N + k) : k \in L + 1 .. L} = {}
    BY <1>1
  <2>3. QED
    BY <2>1, <2>2
<1>8. \A i \in 1 .. L : Right(NextBase(m, i)) => Right(i)
  <2> SUFFICES ASSUME NEW i \in 1 .. L, Right(NextBase(m, i))
               PROVE  Right(i)
    OBVIOUS
  <2> DEFINE e == NextBase(m, i)
  <2>1. Requested(f[i]) = Asks(PairAt(m, i)) \cup Requested(f[e])
    <3>1. f[i] = {PairAt(m, i)} \cup f[e]
      BY <1>5
    <3>2. /\ Requested(f[i]) = UNION {Asks(p) : p \in f[i]}
          /\ Requested(f[e]) = UNION {Asks(p) : p \in f[e]}
      BY <1>6
    <3> HIDE DEF e
    <3>3. QED
      BY <3>1, <3>2
  <2>2. e \in i + 1 .. L + 1
    BY <1>2
  <2>3. Asks(PairAt(m, i)) = {Wire(N + k) : k \in i .. e - 1}
    BY <1>3
  <2>4. Requested(f[e]) = {Wire(N + k) : k \in e .. L}
    OBVIOUS
  <2> HIDE DEF e
  <2>5. i .. L = (i .. e - 1) \cup (e .. L)
    BY <1>1, <2>2
  <2>6. QED
    BY <2>1, <2>3, <2>4, <2>5
<1> HIDE DEF Right
<1> DEFINE T == {n \in 1 .. L + 1 : \A i \in n .. L + 1 : Right(i)}
<1>9. L + 1 \in T
  BY <1>1, <1>7
<1>10. PICK x \in T : \A y \in T : x <= y
  <2>1. T \subseteq Nat
    OBVIOUS
  <2> HIDE DEF T
  <2>2. QED
    BY <1>9, <2>1, LeastElement
<1>11. x = 1
  <2> SUFFICES ASSUME x # 1 PROVE FALSE
    OBVIOUS
  <2>1. x \in 2 .. L + 1 /\ x - 1 \in 1 .. L
    BY <1>1, <1>10
  <2>2. NextBase(m, x - 1) \in x .. L + 1
    BY <1>2, <2>1
  <2>3. Right(x - 1)
    BY <1>8, <1>10, <2>1, <2>2
  <2>4. \A i \in x - 1 .. L + 1 : i = x - 1 \/ i \in x .. L + 1
    BY <1>1, <2>1
  <2>5. x - 1 \in T
    BY <1>1, <1>10, <2>1, <2>3, <2>4
  <2>6. x <= x - 1
    BY <1>10, <2>5
  <2>7. QED
    BY <2>1, <2>6
<1>12. Right(1)
  BY <1>1, <1>10, <1>11
<1>13. QED
  BY <1>4, <1>12 DEF Right, m

-----------------------------------------------------------------------------
(* The readers.                                                            *)

(* Half a round: what tells a late packet from an early one.               *)
LEMMA HalfFacts ==
  /\ Half \in Int /\ Half >= 2 /\ SeqSpace = 2 * Half
  /\ MaxDelay \in Int /\ MaxDelay <= Half /\ MaxDelay >= 0
  /\ MaxJump \in Int /\ MaxJump < Half /\ MaxJump >= 1
  /\ RestartGap \in Int /\ RestartGap < Half /\ RestartGap >= 0
<1>1. Half \in Int
  BY SpaceAssumption DEF Half
<1>2. QED
  BY <1>1, SpaceAssumption, WindowAssumption, BoundAssumption

(* What checkSequenceGap makes of packet n after packet N: the wrapped     *)
(* difference is the true one when n comes after N, and half a round at    *)
(* least when it comes before.                                             *)
LEMMA AheadFacts ==
  ASSUME NEW N \in Int, NEW n \in Int, last = Wire(N),
         N - n <= Half, n - N < SeqSpace
  PROVE  /\ N <= n => Ahead(Wire(n)) = n - N
         /\ n < N => Ahead(Wire(n)) \in Int /\ Ahead(Wire(n)) >= Half
<1>1. Ahead(Wire(n)) = (n - N) % SeqSpace
  BY WireMinus DEF Ahead
<1>2. CASE N <= n
  <2>1. n - N \in 0 .. SeqSpace - 1
    BY <1>2, SpaceIsPositive
  <2>2. QED
    BY <1>1, <1>2, <2>1, SmallMod
<1>3. CASE n < N
  <2>1. N - n \in 1 .. SeqSpace /\ N - n <= Half
    BY <1>3, HalfFacts
  <2>2. n - N = 0 - (N - n)
    OBVIOUS
  <2>3. Ahead(Wire(n)) = SeqSpace - (N - n)
    BY <1>1, <2>1, <2>2, NegativeMod
  <2>4. QED
    BY <1>3, <2>1, <2>3, HalfFacts
<1>4. QED
  BY <1>2, <1>3

(* The packets asked for when packet n follows packet N, which last counts *)
(* from: all that lie between them, unless that is taken for a restart.    *)
Reports(N, n) == n - N > 1 /\ (signed \/ n - N <= RestartGap)

(* The signed version counts from the newest packet, the other from the    *)
(* last, so that the step forward may be longer by the delay.              *)
InReach(N, n) ==
  /\ N - n <= Half /\ n - N < SeqSpace
  /\ signed => n - N < Half

LEMMA AskedWhenArrived ==
  ASSUME NEW N \in Int, last = Wire(N), signed \in BOOLEAN,
         NEW n \in Int, InReach(N, n)
  PROVE  /\ {MeantBy(w, n) : w \in Requested(NackPairs(MissingBefore(Wire(n))))} =
              IF Reports(N, n) THEN Between(N, n) ELSE {}
         /\ Advances(Wire(n)) <=> (signed => N <= n)
<1>1. N - n <= Half /\ n - N < SeqSpace /\ (signed => n - N < Half)
  BY DEF InReach
<1>2. /\ N <= n => Ahead(Wire(n)) = n - N
      /\ n < N => Ahead(Wire(n)) \in Int /\ Ahead(Wire(n)) >= Half
  BY <1>1, AheadFacts
<1>3. ReportsGap(Wire(n)) <=> Reports(N, n)
  BY <1>1, <1>2, HalfFacts DEF ReportsGap, Reports
<1>4. Advances(Wire(n)) <=> (signed => N <= n)
  BY <1>1, <1>2, HalfFacts DEF Advances
<1> DEFINE L == IF Reports(N, n) THEN n - N - 1 ELSE 0
<1>5. L \in 0 .. SeqSpace /\ L \in Nat /\ L < SeqSpace
  BY <1>1, HalfFacts DEF Reports
<1>6. MissingBefore(Wire(n)) = Run(N, L)
  <2>1. \A i \in Int : (last + i) % SeqSpace = Wire(N + i)
    BY WirePlus
  <2>2. CASE Reports(N, n)
    <3>1. Ahead(Wire(n)) - 1 = n - N - 1
      BY <1>1, <1>2, <2>2 DEF Reports
    <3>2. MissingBefore(Wire(n)) = [i \in 1 .. n - N - 1 |-> (last + i) % SeqSpace]
      BY <1>3, <2>2, <3>1 DEF MissingBefore
    <3>3. [i \in 1 .. n - N - 1 |-> (last + i) % SeqSpace] = [i \in 1 .. n - N - 1 |-> Wire(N + i)]
      BY <1>1, <2>1
    <3>4. QED
      BY <2>2, <3>2, <3>3 DEF Run
  <2>3. CASE ~Reports(N, n)
    BY <1>3, <2>3 DEF MissingBefore, Run
  <2>4. QED
    BY <2>2, <2>3
<1>7. Requested(NackPairs(MissingBefore(Wire(n)))) = {Wire(N + k) : k \in 1 .. L}
  BY <1>5, <1>6, RunIsAsked
<1>8. \A k \in 1 .. L : MeantBy(Wire(N + k), n) = N + k
  <2> SUFFICES ASSUME NEW k \in 1 .. L
               PROVE  MeantBy(Wire(N + k), n) = N + k
    OBVIOUS
  <2>1. N + k \in Int /\ n - (N + k) \in 0 .. SeqSpace - 1
    BY <1>1, <1>5, HalfFacts
  <2>2. (Wire(n) - Wire(N + k)) % SeqSpace = n - (N + k)
    BY <1>1, <2>1, WireMinus, SmallMod
  <2>3. QED
    BY <1>1, <2>1, <2>2 DEF MeantBy
<1> DEFINE asks == {MeantBy(w, n) : w \in Requested(NackPairs(MissingBefore(Wire(n))))}
<1>9. asks = {N + k : k \in 1 .. L}
  BY <1>7, <1>8
<1>10. {N + k : k \in 1 .. L} = IF Reports(N, n) THEN Between(N, n) ELSE {}
  <2>1. CASE Reports(N, n)
    <3>1. \A k \in 1 .. L : N + k \in Between(N, n)
      BY <1>1, <2>1 DEF Between
    <3>2. \A h \in Between(N, n) : h - N \in 1 .. L /\ h = N + (h - N)
      BY <1>1, <2>1 DEF Between
    <3> HIDE DEF L
    <3>3. QED
      BY <2>1, <3>1, <3>2
  <2>2. CASE ~Reports(N, n)
    BY <2>2
  <2>3. QED
    BY <2>1, <2>2
<1>11. QED
  BY <1>4, <1>9, <1>10

-----------------------------------------------------------------------------
(* The invariant.                                                          *)

LEMMA GreatestIsNewest ==
  ASSUME received \subseteq Int, NEW x \in received, \A m \in received : m <= x
  PROVE  Newest = x
<1>1. Newest \in received /\ \A m \in received : m <= Newest
  BY DEF Newest
<1>2. QED
  BY <1>1

(***************************************************************************)
(* The last number is that of the newest packet, or for an OBS track that  *)
(* of the one that arrived last, which is why the wrapped difference means *)
(* what it should; and nothing was ever asked for beyond the newest, so    *)
(* that what the next one brings to light has not been asked for before.   *)
(***************************************************************************)
Counted == IF signed THEN Newest ELSE latest

NothingYet == received = {} => last = Nil /\ asking = {} /\ asked = {}
UpToNewest ==
  received # {} =>
    /\ Newest \in received /\ \A m \in received : m <= Newest
    /\ latest \in received /\ Newest - latest <= MaxDelay
    /\ last = Wire(Counted)
    /\ first \in received
    /\ \A m \in asking \cup asked : m \in Int /\ m < Newest

GapsInv ==
  /\ signed \in BOOLEAN /\ received \subseteq Int
  /\ NothingYet /\ UpToNewest
  /\ HolesAreAsked

LEMMA InitGaps == Init => GapsInv
  BY DEF Init, GapsInv, NothingYet, UpToNewest, HolesAreAsked

(* What a step may ask for.                                                *)
AsksRightly ==
  IF WentBack
    THEN asking' # {} => /\ latest' - latest <= RestartGap
                         /\ asking' \subseteq Between(latest, latest')
    ELSE /\ asking' \cap (received' \cup asked') = {}
         /\ \A n \in asking' : first' < n /\ n < Newest'

(* The first packet.                                                       *)
LEMMA FirstArrives ==
  ASSUME GapsInv, NEW n \in 0 .. MaxSent, Arrive(n), received = {}
  PROVE  GapsInv' /\ AsksRightly
<1>1. /\ received' = {n} /\ last' = Wire(n) /\ first' = n /\ latest' = n
      /\ asking' = {} /\ asked' = {} /\ signed' \in BOOLEAN /\ n \in Int
  BY BoundAssumption DEF GapsInv, NothingYet, Arrive
<1>2. Newest' = n
  BY <1>1 DEF Newest
<1>3. Between(first', Newest') = {}
  BY <1>1, <1>2 DEF Between
<1>4. Counted' = n
  BY <1>1, <1>2 DEF Counted
<1>5. UpToNewest' /\ NothingYet'
  BY <1>1, <1>2, <1>4, HalfFacts DEF UpToNewest, NothingYet, Wire
<1>6. HolesAreAsked'
  BY <1>1, <1>3 DEF HolesAreAsked
<1>7. AsksRightly
  BY <1>1 DEF AsksRightly
<1>8. QED
  BY <1>1, <1>5, <1>6, <1>7 DEF GapsInv

(* Every other packet.                                                     *)
LEMMA LaterArrives ==
  ASSUME GapsInv, NEW n \in 0 .. MaxSent, Arrive(n), received # {}
  PROVE  GapsInv' /\ AsksRightly
<1> DEFINE N == Newest
           C == Counted
           R == Reports(C, n)
<1>1. /\ signed \in BOOLEAN /\ received \subseteq Int
      /\ N \in received /\ N \in Int /\ \A m \in received : m <= N
      /\ latest \in received /\ latest \in Int /\ latest <= N /\ N - latest <= MaxDelay
      /\ last = Wire(C) /\ first \in received /\ first \in Int /\ first <= N
      /\ \A m \in asking \cup asked : m \in Int /\ m < N
  BY DEF GapsInv, UpToNewest
<1>2. n \in Int /\ N - n <= MaxDelay /\ n - N <= MaxJump
  BY BoundAssumption, HalfFacts, <1>1 DEF Arrive
<1>3. /\ C \in Int /\ C <= N /\ (signed => C = N) /\ (~signed => C = latest)
      /\ N - C <= MaxDelay
  BY <1>1, HalfFacts DEF Counted
<1>4. last # Nil
  BY <1>1, <1>3, WireRange, NilAssumption
<1>5. InReach(C, n)
  BY <1>1, <1>2, <1>3, HalfFacts DEF InReach
<1> HIDE DEF N, C, R
<1>6. /\ received' = received \cup {n} /\ asked' = asked \cup asking
      /\ first' = first /\ signed' = signed /\ latest' = n
      /\ asking' = {MeantBy(w, n) : w \in Requested(NackPairs(MissingBefore(Wire(n))))}
      /\ last' = IF Advances(Wire(n)) THEN Wire(n) ELSE last
      /\ skipped' = IF ~signed /\ n - latest > RestartGap THEN skipped \cup Between(latest, n)
                                                          ELSE skipped
  BY <1>4 DEF Arrive
<1>7. /\ asking' = IF R THEN Between(C, n) ELSE {}
      /\ Advances(Wire(n)) <=> (signed => C <= n)
  BY <1>1, <1>2, <1>3, <1>5, <1>6, AskedWhenArrived DEF R
<1> DEFINE T == IF N <= n THEN n ELSE N
<1>8. /\ T \in received' /\ T \in Int /\ N <= T /\ n <= T
      /\ \A m \in received' : m <= T
      /\ T - n <= MaxDelay
  BY <1>1, <1>2, <1>6, HalfFacts
<1>9. Newest' = T
  <2>1. received' \subseteq Int
    BY <1>1, <1>2, <1>6
  <2> HIDE DEF T
  <2>2. \E x \in received' : x = Newest' /\ \A m \in received' : m <= x
    BY <1>8 DEF Newest
  <2>3. QED
    BY <1>8, <2>1, <2>2
<1>10. last' = Wire(Counted')
  <2>1. CASE signed
    <3>1. Counted' = T /\ C = N
      BY <1>3, <1>6, <1>9, <2>1 DEF Counted
    <3>2. CASE N <= n
      BY <1>6, <1>7, <2>1, <3>1, <3>2
    <3>3. CASE ~(N <= n)
      BY <1>1, <1>6, <1>7, <2>1, <3>1, <3>3
    <3>4. QED
      BY <3>2, <3>3
  <2>2. CASE ~signed
    <3>1. Counted' = n
      BY <1>6, <2>2 DEF Counted
    <3>2. QED
      BY <1>6, <1>7, <2>2, <3>1
  <2>3. QED
    BY <2>1, <2>2
<1>11. /\ R <=> n - C > 1 /\ (signed \/ n - C <= RestartGap)
       /\ \A h \in asking' : R /\ h \in Int /\ C < h /\ h < n
  BY <1>2, <1>3, <1>7 DEF R, Reports, Between
<1>12. \A m \in asking' \cup asked' : m \in Int /\ m < T
  BY <1>1, <1>2, <1>6, <1>8, <1>11
<1>13. UpToNewest' /\ NothingYet'
  BY <1>1, <1>6, <1>8, <1>9, <1>10, <1>12 DEF UpToNewest, NothingYet, Wire
<1>14. AsksRightly
  <2>1. CASE WentBack
    <3>1. ~signed /\ C = latest
      BY <1>3, <2>1 DEF WentBack
    <3>2. asking' # {} => n - latest <= RestartGap /\ asking' \subseteq Between(latest, n)
      BY <1>7, <1>11, <3>1
    <3>3. QED
      BY <1>6, <2>1, <3>2 DEF AsksRightly
  <2>2. CASE ~WentBack
    <3>1. C = N
      BY <1>1, <1>3, <2>2 DEF WentBack, N
    <3>2. \A h \in received \cup asked \cup asking : h <= N
      BY <1>1
    <3>3. asking' \cap (received' \cup asked') = {}
      BY <1>1, <1>2, <1>6, <1>11, <3>1, <3>2
    <3>4. \A h \in asking' : first' < h /\ h < Newest'
      BY <1>1, <1>2, <1>6, <1>8, <1>9, <1>11, <3>1
    <3>5. QED
      BY <2>2, <3>3, <3>4 DEF AsksRightly
  <2>3. QED
    BY <2>1, <2>2
<1>15. HolesAreAsked'
  <2> SUFFICES ASSUME NEW h \in Between(first, T)
               PROVE  h \in received' \cup asked' \cup asking' \/ (~signed' /\ h \in skipped')
    BY <1>6, <1>9 DEF HolesAreAsked
  <2>1. h \in Int /\ first < h /\ h < T
    BY <1>1, <1>8 DEF Between
  <2>2. CASE h < N
    <3>1. h \in Between(first, N)
      BY <1>1, <2>1, <2>2 DEF Between
    <3>2. h \in received \cup asked \cup asking \/ (~signed /\ h \in skipped)
      BY <1>1, <3>1 DEF GapsInv, HolesAreAsked, N
    <3>3. skipped \subseteq skipped'
      BY <1>6
    <3>4. QED
      BY <1>6, <3>2, <3>3
  <2>3. CASE h = N
    BY <1>1, <1>6, <2>3
  <2>4. CASE N < h
    <3>1. h \in Between(C, n) /\ n - C > 1
      BY <1>1, <1>2, <1>3, <2>1, <2>4 DEF Between
    <3>2. CASE R
      BY <1>7, <3>1, <3>2
    <3>3. CASE ~R
      <4>1. ~signed /\ n - C > RestartGap /\ C = latest
        BY <1>1, <1>2, <1>3, <1>11, <3>1, <3>3, HalfFacts
      <4>2. h \in skipped'
        BY <1>6, <3>1, <4>1
      <4>3. QED
        BY <1>6, <4>1, <4>2
    <3>4. QED
      BY <3>2, <3>3
  <2>5. QED
    BY <1>1, <2>1, <2>2, <2>3, <2>4
<1>16. QED
  BY <1>1, <1>2, <1>6, <1>13, <1>14, <1>15 DEF GapsInv

LEMMA NextGaps ==
  ASSUME GapsInv, [Next]_vars
  PROVE  GapsInv' /\ (AsksRightly \/ UNCHANGED vars)
<1>1. CASE Next
  BY <1>1, FirstArrives, LaterArrives DEF Next
<1>2. CASE UNCHANGED vars
  <2>1. /\ signed' = signed /\ last' = last /\ received' = received
        /\ first' = first /\ latest' = latest
        /\ asking' = asking /\ asked' = asked /\ skipped' = skipped
    BY <1>2 DEF vars
  <2>2. Newest' = Newest /\ Counted' = Counted
    BY <2>1 DEF Newest, Counted
  <2>3. NothingYet' /\ UpToNewest'
    BY <2>1, <2>2 DEF GapsInv, NothingYet, UpToNewest, Wire
  <2>4. HolesAreAsked'
    BY <2>1, <2>2 DEF GapsInv, HolesAreAsked
  <2>5. QED
    BY <1>2, <2>1, <2>3, <2>4 DEF GapsInv
<1>3. QED
  BY <1>1, <1>2

-----------------------------------------------------------------------------
(* Theorems.                                                               *)

THEOREM GapsInvHolds == Spec => []GapsInv
<1>1. GapsInv /\ [Next]_vars => GapsInv'
  BY NextGaps
<1>2. QED
  BY <1>1, InitGaps, PTL DEF Spec

(* checkSequenceGap and SendNACK leave no hole: every packet between the   *)
(* first and the newest has arrived or was asked for, whatever the order   *)
(* of arrival and wherever the numbers wrap, except what an OBS reader     *)
(* steps over as at a restart.                                             *)
THEOREM EveryHoleIsAsked == Spec => []HolesAreAsked
<1>1. GapsInv => HolesAreAsked
  BY DEF GapsInv
<1>2. QED
  BY <1>1, GapsInvHolds, PTL

(* Nothing that has arrived is asked for, and nothing twice, but what lies *)
(* between a late packet of an OBS track and the one after it.             *)
THEOREM OnlyMissingIsAsked == Spec => AsksOnlyForMissing
<1>1. GapsInv /\ [Next]_vars => [AsksRightly]_vars
  BY NextGaps
<1>2. QED
  BY <1>1, GapsInvHolds, PTL DEF Spec, AsksOnlyForMissing, AsksRightly
=============================================================================
