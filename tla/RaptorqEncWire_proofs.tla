----------------------- MODULE RaptorqEncWire_proofs -----------------------
(***************************************************************************)
(* Proofs that what the encoder's three threads put on the wire is what    *)
(* EncWire says, for every block size, amount of repair, ring, queue and   *)
(* modulus, and what follows from it: repair is spread over its block, and *)
(* everything read is sent before the threads end.                         *)
(***************************************************************************)
EXTENDS RaptorqEnc_proofs

-----------------------------------------------------------------------------
(* Arithmetic.                                                             *)

LEMMA Times ==
  ASSUME NEW a \in Nat, NEW b \in Nat, NEW m \in Nat, a <= b
  PROVE  a * m <= b * m /\ a * m \in Nat /\ (a + 1) * m = a * m + m
<1>1. PICK d \in Nat : b = a + d
  <2>1. b - a \in Nat /\ b = a + (b - a)
    OBVIOUS
  <2>. QED
    BY <2>1
<1>2. b * m = a * m + d * m /\ d * m \in Nat /\ a * m \in Nat
  BY <1>1
<1>. QED
  BY <1>2

LEMMA Divides ==
  ASSUME NEW a \in Nat, NEW m \in Nat \ {0}
  PROVE  a \div m \in Nat /\ a = (a \div m) * m + (a % m) /\ a % m \in 0..m - 1
BY SMT

LEMMA Splits ==
  ASSUME NEW a \in Nat, NEW m \in Nat \ {0}
  PROVE  \E q \in Nat, r \in 0..m - 1 : a = q * m + r
BY Divides

(* There is one quotient and one remainder.                                *)
LEMMA DividesOnce ==
  ASSUME NEW m \in Nat \ {0}, NEW q \in Nat, NEW r \in 0..m - 1
  PROVE  (q * m + r) \div m = q /\ (q * m + r) % m = r
<1>. DEFINE a == q * m + r
<1>0. q * m \in Nat /\ a \in Nat
  BY Times
<1>1. PICK d \in Nat, e \in 0..m - 1 : d = a \div m /\ e = a % m /\ a = d * m + e
  BY <1>0, Divides
<1>2. q = d
  <2>1. ASSUME q < d PROVE FALSE
    <3>1. (q + 1) * m <= d * m /\ (q + 1) * m = q * m + m
      BY <2>1, Times
    <3>. QED
      BY <1>0, <1>1, <3>1
  <2>2. ASSUME d < q PROVE FALSE
    <3>1. (d + 1) * m <= q * m /\ (d + 1) * m = d * m + m /\ d * m \in Nat
      BY <2>2, Times
    <3>. QED
      BY <1>0, <1>1, <3>1
  <2>. QED
    BY <2>1, <2>2
<1>3. q * m + r = q * m + e
  BY <1>1, <1>2
<1>4. r = e
  BY <1>0, <1>3
<1>. QED
  BY <1>1, <1>2, <1>4

(* Counting on by one.                                                     *)
LEMMA DividesNext ==
  ASSUME NEW a \in Nat, NEW m \in Nat \ {0}
  PROVE  IF a % m = m - 1
         THEN (a + 1) \div m = a \div m + 1 /\ (a + 1) % m = 0
         ELSE (a + 1) \div m = a \div m /\ (a + 1) % m = (a % m) + 1
<1>1. PICK d \in Nat, e \in 0..m - 1 : d = a \div m /\ e = a % m /\ a = d * m + e
  BY Divides
<1>2. CASE e = m - 1
  <2>1. (d + 1) * m = d * m + m /\ d * m \in Nat
    BY Times
  <2>2. a + 1 = (d + 1) * m + 0
    BY <1>1, <1>2, <2>1
  <2>3. ((d + 1) * m + 0) \div m = d + 1 /\ ((d + 1) * m + 0) % m = 0
    BY DividesOnce
  <2>. QED
    BY <1>1, <1>2, <2>2, <2>3
<1>3. CASE e # m - 1
  <2>1. d * m \in Nat /\ e + 1 \in 0..m - 1
    BY <1>1, <1>3, Times
  <2>2. a + 1 = d * m + (e + 1)
    BY <1>1, <2>1
  <2>3. (d * m + (e + 1)) \div m = d /\ (d * m + (e + 1)) % m = e + 1
    BY <2>1, DividesOnce
  <2>. QED
    BY <1>1, <1>3, <2>2, <2>3
<1>. QED
  BY <1>2, <1>3

LEMMA CountOn ==
  ASSUME NEW a \in Nat, NEW m \in Nat \ {0}
  PROVE  ((a % m) + 1) % m = (a + 1) % m
<1>1. a % m \in 0..m - 1 /\ a % m \in Nat
  BY Divides
<1>2. CASE a % m = m - 1
  <2>1. (a % m) + 1 = 1 * m + 0
    BY <1>1, <1>2
  <2>2. (1 * m + 0) % m = 0
    BY DividesOnce
  <2>. QED
    BY <1>2, <2>1, <2>2, DividesNext
<1>3. CASE a % m # m - 1
  <2>1. (a % m) + 1 = 0 * m + ((a % m) + 1) /\ (a % m) + 1 \in 0..m - 1
    BY <1>1, <1>3
  <2>2. (0 * m + ((a % m) + 1)) % m = (a % m) + 1
    BY <2>1, DividesOnce
  <2>. QED
    BY <1>3, <2>1, <2>2, DividesNext
<1>. QED
  BY <1>2, <1>3

(* Within one block packets come in the order of their places.             *)
LEMMA SameBlock ==
  ASSUME NEW a \in Nat, NEW b \in Nat, NEW m \in Nat \ {0},
         a \div m = b \div m
  PROVE  a < b <=> a % m < b % m
<1>1. PICK d \in Nat : d = a \div m /\ d = b \div m
  BY Divides
<1>2. /\ a % m \in 0..m - 1 /\ a = d * m + (a % m)
      /\ b % m \in 0..m - 1 /\ b = d * m + (b % m)
  BY <1>1, Divides
<1>3. d * m \in Nat
  BY Times
<1>. QED
  BY <1>2, <1>3

-----------------------------------------------------------------------------
(* interleave (main.rs:493-517): where the symbols of a block are.         *)

PerBlock == K + Repair
R == rep_interval
P == Wire!Paired
Esi(p) == Wire!Esi(p)

(* Symbol e is in place p: a source or repair symbol of a pair, or of the  *)
(* sources or the repair left over when the other is used up.              *)
PairedSource(p, e) ==
  \E n \in 0..P - 1, at \in 0..R - 1 : p = n * (R + 1) + at /\ e = n * R + at
PairedRepair(p, e) == \E n \in 0..P - 1 : p = n * (R + 1) + R /\ e = K + n
RestSource(p, e) ==
  \E rest \in 0..K - P * R - 1 : p = P * (R + 1) + rest /\ e = P * R + rest
RestRepair(p, e) == \E n \in P..Repair - 1 : p = K + n /\ e = K + n

Source(p, e) == PairedSource(p, e) \/ RestSource(p, e)
Spare(p, e) == PairedRepair(p, e) \/ RestRepair(p, e)

LEMMA Sizes ==
  /\ PerBlock \in Nat \ {0} /\ K \in Nat \ {0} /\ Repair \in Nat
  /\ R \in Nat \ {0} /\ P \in Nat /\ P <= Repair
  /\ P * R \in Nat /\ P * R <= K
  /\ P * (R + 1) \in Nat /\ P * (R + 1) = P * R + P
  /\ P < Repair => K < (P + 1) * R
<1>1. K \in Nat \ {0} /\ Repair \in Nat /\ R \in Nat \ {0} /\ PerBlock \in Nat \ {0}
  BY EncAssumption, IntervalType DEF R, PerBlock
<1>. DEFINE q == K \div R
<1>2. q \in Nat /\ K = q * R + (K % R) /\ K % R \in 0..R - 1
  BY <1>1, Divides
<1>3. P = IF Repair < q THEN Repair ELSE q
  BY DEF P, Wire!Paired, R, rep_interval, Wire!rep_interval
<1>. HIDE DEF q
<1>4. P \in Nat /\ P <= Repair /\ P <= q
  BY <1>1, <1>2, <1>3
<1>5. P * R <= q * R /\ P * R \in Nat /\ q * R \in Nat
  BY <1>1, <1>2, <1>4, Times
<1>6. P * R <= K
  BY <1>1, <1>2, <1>5
<1>7. P * (R + 1) = P * R + P
  BY <1>1, <1>4
<1>8. ASSUME P < Repair PROVE K < (P + 1) * R
  <2>1. P = q
    BY <1>1, <1>2, <1>3, <1>8
  <2>2. (q + 1) * R = q * R + R
    BY <1>1, <1>2, Times
  <2>. QED
    BY <1>1, <1>2, <1>5, <2>1, <2>2
<1>. QED
  BY <1>1, <1>4, <1>5, <1>6, <1>7, <1>8

(* The four kinds of place are what EncWire says.                          *)
LEMMA EsiIs ==
  ASSUME NEW p \in Nat, NEW e
  PROVE  Source(p, e) \/ Spare(p, e) => Esi(p) = e
<1>. DEFINE pair == p \div (R + 1)
            at == p % (R + 1)
            rest == p - P * (R + 1)
            tail == K - P * R
<1>1. Esi(p) = CASE pair < P /\ at < R -> pair * R + at
                 [] pair < P /\ at = R -> K + pair
                 [] pair >= P /\ rest < tail -> P * R + rest
                 [] OTHER -> K + P + rest - tail
  BY DEF Esi, Wire!Esi, P, R, rep_interval, Wire!rep_interval
<1>2. /\ R + 1 \in Nat \ {0} /\ pair \in Nat
      /\ p = pair * (R + 1) + at /\ at \in 0..R
  <2>1. R + 1 \in Nat \ {0} /\ (R + 1) - 1 = R
    BY Sizes
  <2>2. /\ pair \in Nat /\ p = pair * (R + 1) + at
        /\ at \in 0..(R + 1) - 1
    BY <2>1, Divides
  <2>. QED
    BY <2>1, <2>2
<1>. HIDE DEF pair, at
<1>3. ASSUME NEW n \in 0..P - 1, NEW a \in 0..R, p = n * (R + 1) + a
      PROVE  pair = n /\ at = a /\ pair < P
  <2>1. n \in Nat /\ a \in 0..(R + 1) - 1
    BY Sizes
  <2>2. (n * (R + 1) + a) \div (R + 1) = n /\ (n * (R + 1) + a) % (R + 1) = a
    BY <1>2, <2>1, DividesOnce
  <2>. QED
    BY <1>3, <2>1, <2>2, Sizes DEF pair, at
<1>4. ASSUME p >= P * (R + 1) PROVE pair >= P
  <2>1. ASSUME pair < P PROVE FALSE
    <3>1. (pair + 1) * (R + 1) <= P * (R + 1)
          /\ (pair + 1) * (R + 1) = pair * (R + 1) + (R + 1)
          /\ pair * (R + 1) \in Nat
      BY <1>2, <2>1, Sizes, Times
    <3>. QED
      BY <1>2, <1>4, <3>1, Sizes
  <2>. QED
    BY <1>2, <2>1, Sizes
<1>5. CASE PairedSource(p, e)
  <2>1. PICK n \in 0..P - 1, a \in 0..R - 1 : p = n * (R + 1) + a /\ e = n * R + a
    BY <1>5 DEF PairedSource
  <2>2. pair = n /\ at = a /\ pair < P
    BY <1>3, <2>1, Sizes
  <2>. QED
    BY <1>1, <2>1, <2>2, Sizes
<1>6. CASE PairedRepair(p, e)
  <2>1. PICK n \in 0..P - 1 : p = n * (R + 1) + R /\ e = K + n
    BY <1>6 DEF PairedRepair
  <2>2. pair = n /\ at = R /\ pair < P
    BY <1>3, <2>1, Sizes
  <2>. QED
    BY <1>1, <2>1, <2>2, Sizes
<1>7. CASE RestSource(p, e)
  <2>1. PICK r \in 0..K - P * R - 1 : p = P * (R + 1) + r /\ e = P * R + r
    BY <1>7 DEF RestSource
  <2>2. rest = r /\ pair >= P
    BY <1>4, <2>1, Sizes
  <2>. QED
    BY <1>1, <1>2, <2>1, <2>2, Sizes
<1>8. CASE RestRepair(p, e)
  <2>1. PICK n \in P..Repair - 1 : p = K + n /\ e = K + n
    BY <1>8 DEF RestRepair
  <2>2. rest = tail + (n - P) /\ pair >= P
    BY <1>4, <2>1, Sizes
  <2>. QED
    BY <1>1, <1>2, <2>1, <2>2, Sizes
<1>. QED
  BY <1>5, <1>6, <1>7, <1>8 DEF Source, Spare

(* Every place of a block has its symbol, ...                              *)
LEMMA PlacesFilled ==
  ASSUME NEW p \in 0..PerBlock - 1
  PROVE  Source(p, Esi(p)) \/ Spare(p, Esi(p))
<1>1. SUFFICES \E e : Source(p, e) \/ Spare(p, e)
  <2>1. PICK e : Source(p, e) \/ Spare(p, e)
    BY <1>1
  <2>2. Esi(p) = e
    BY <2>1, EsiIs
  <2>. QED
    BY <2>1, <2>2
<1>2. CASE p < P * (R + 1)
  <2>1. PICK n \in Nat, at \in 0..R : p = n * (R + 1) + at
    <3>1. p \in Nat /\ R + 1 \in Nat \ {0} /\ (R + 1) - 1 = R
      BY Sizes
    <3>2. \E n \in Nat, at \in 0..(R + 1) - 1 : p = n * (R + 1) + at
      BY <3>1, Splits
    <3>. QED
      BY <3>1, <3>2
  <2>2. n \in 0..P - 1
    <3>1. ASSUME P <= n PROVE FALSE
      <4>1. P * (R + 1) <= n * (R + 1) /\ n * (R + 1) \in Nat
        BY <3>1, Sizes, Times
      <4>. QED
        BY <1>2, <2>1, <4>1, Sizes
    <3>. QED
      BY <3>1, Sizes
  <2>3. CASE at = R
    BY <2>1, <2>2, <2>3 DEF Spare, PairedRepair
  <2>4. CASE at # R
    <3>1. at \in 0..R - 1
      BY <2>4, Sizes
    <3>. QED
      BY <2>1, <2>2, <3>1 DEF Source, PairedSource
  <2>. QED
    BY <2>3, <2>4
<1>3. CASE p >= P * (R + 1) /\ p < K + P
  <2>1. PICK r \in Nat : p = P * (R + 1) + r
    <3>1. p - P * (R + 1) \in Nat /\ p = P * (R + 1) + (p - P * (R + 1))
      BY <1>3, Sizes
    <3>. QED
      BY <3>1
  <2>2. r \in 0..K - P * R - 1
    BY <1>3, <2>1, Sizes
  <2>. QED
    BY <2>1, <2>2 DEF Source, RestSource
<1>4. CASE p >= K + P
  <2>1. p - K \in P..Repair - 1 /\ p = K + (p - K)
    BY <1>4, Sizes DEF PerBlock
  <2>. QED
    BY <2>1 DEF Spare, RestRepair
<1>. QED
  BY <1>2, <1>3, <1>4, Sizes

(* ... which is a source or a repair symbol of it, ...                     *)
LEMMA SymbolRange ==
  ASSUME NEW p, NEW e
  PROVE  /\ Source(p, e) => e \in 0..K - 1
         /\ Spare(p, e) => e \in K..PerBlock - 1
<1>1. ASSUME NEW n \in 0..P - 1, NEW at \in 0..R - 1
      PROVE  n * R + at \in 0..K - 1
  <2>1. (n + 1) * R <= P * R /\ (n + 1) * R = n * R + R /\ n * R \in Nat
    BY Sizes, Times
  <2>. QED
    BY <2>1, Sizes
<1>2. \A rest \in 0..K - P * R - 1 : P * R + rest \in 0..K - 1
  BY Sizes
<1>3. \A n \in 0..Repair - 1 : K + n \in K..PerBlock - 1
  BY Sizes DEF PerBlock
<1>4. 0..P - 1 \subseteq 0..Repair - 1 /\ P..Repair - 1 \subseteq 0..Repair - 1
  BY Sizes
<1>. QED
  BY <1>1, <1>2, <1>3, <1>4
     DEF Source, Spare, PairedSource, PairedRepair, RestSource, RestRepair

LEMMA EsiRange == ASSUME NEW p \in 0..PerBlock - 1 PROVE Esi(p) \in 0..PerBlock - 1
<1>1. 0..K - 1 \subseteq 0..PerBlock - 1 /\ K..PerBlock - 1 \subseteq 0..PerBlock - 1
  BY Sizes DEF PerBlock
<1>. QED
  BY <1>1, PlacesFilled, SymbolRange

(* ... and every symbol its place.                                         *)
LEMMA SymbolsPlaced ==
  ASSUME NEW e \in 0..PerBlock - 1
  PROVE  \E p \in 0..PerBlock - 1 : Esi(p) = e
<1>1. SUFFICES \E p \in 0..PerBlock - 1 : Source(p, e) \/ Spare(p, e)
  BY <1>1, EsiIs
<1>2. ASSUME NEW n \in 0..P - 1, NEW at \in 0..R
      PROVE  n * (R + 1) + at \in 0..PerBlock - 1
  <2>1. /\ (n + 1) * (R + 1) <= P * (R + 1)
        /\ (n + 1) * (R + 1) = n * (R + 1) + (R + 1)
        /\ n * (R + 1) \in Nat
    BY Sizes, Times
  <2>. QED
    BY <2>1, Sizes DEF PerBlock
<1>3. CASE e < P * R
  <2>1. PICK n \in Nat, at \in 0..R - 1 : e = n * R + at
    <3>1. e \in Nat
      BY Sizes
    <3>. QED
      BY <3>1, Sizes, Splits
  <2>2. n \in 0..P - 1
    <3>1. ASSUME P <= n PROVE FALSE
      <4>1. P * R <= n * R /\ n * R \in Nat
        BY <3>1, Sizes, Times
      <4>. QED
        BY <1>3, <2>1, <4>1, Sizes
    <3>. QED
      BY <3>1, Sizes
  <2>3. at \in 0..R
    BY Sizes
  <2>. QED
    BY <1>2, <2>1, <2>2, <2>3 DEF Source, PairedSource
<1>4. CASE e >= P * R /\ e < K
  <2>1. e - P * R \in 0..K - P * R - 1 /\ e = P * R + (e - P * R)
    BY <1>4, Sizes
  <2>2. P * (R + 1) + (e - P * R) \in 0..PerBlock - 1
    BY <1>4, Sizes DEF PerBlock
  <2>. QED
    BY <2>1, <2>2 DEF Source, RestSource
<1>5. CASE e >= K /\ e < K + P
  <2>1. e - K \in 0..P - 1 /\ e = K + (e - K) /\ R \in 0..R
    BY <1>5, Sizes
  <2>. QED
    BY <1>2, <2>1 DEF Spare, PairedRepair
<1>6. CASE e >= K + P
  <2>1. e - K \in P..Repair - 1 /\ e = K + (e - K)
    BY <1>6, Sizes DEF PerBlock
  <2>. QED
    BY <2>1 DEF Spare, RestRepair
<1>. QED
  BY <1>3, <1>4, <1>5, <1>6, Sizes

(* A source symbol comes before the j-th repair symbol if it is one of the *)
(* first (j+1) * rep_interval, and only then.                              *)
LEMMA SpreadOut ==
  ASSUME NEW p \in 0..PerBlock - 1, NEW j \in Nat, Esi(p) = K + j,
         NEW q \in 0..PerBlock - 1, Esi(q) < K
  PROVE  q < p <=> Esi(q) < (j + 1) * R
<1>. DEFINE e == Esi(q)
<1>1. Source(q, e) /\ e \in 0..K - 1
  BY PlacesFilled, SymbolRange, Sizes
<1>2. Spare(p, K + j)
  <2>1. ~(K + j \in 0..K - 1)
    BY Sizes
  <2>. QED
    BY <2>1, PlacesFilled, SymbolRange
<1>. HIDE DEF e
<1>3. CASE PairedRepair(p, K + j)
  <2>1. j \in 0..P - 1 /\ p = j * (R + 1) + R
    BY <1>3, Sizes DEF PairedRepair
  <2>2. /\ (j + 1) * R = j * R + R /\ j * R \in Nat
        /\ j * (R + 1) \in Nat /\ j * (R + 1) = j * R + j
        /\ (j + 1) * (R + 1) = j * (R + 1) + (R + 1)
        /\ (j + 1) * R <= P * R /\ (j + 1) * (R + 1) <= P * (R + 1)
    BY <2>1, Sizes, Times
  <2>3. CASE PairedSource(q, e)
    <3>1. PICK n \in 0..P - 1, at \in 0..R - 1 :
            q = n * (R + 1) + at /\ e = n * R + at
      BY <2>3 DEF PairedSource
    <3>2. n * R \in Nat /\ n * (R + 1) \in Nat
      BY Sizes, Times
    <3>3. CASE n <= j
      <4>1. n * R <= j * R /\ n * (R + 1) <= j * (R + 1)
        BY <3>3, <2>1, Sizes, Times
      <4>. QED
        BY <2>1, <2>2, <3>1, <3>2, <4>1, Sizes DEF e
    <3>4. CASE j < n
      <4>1. (j + 1) * R <= n * R /\ (j + 1) * (R + 1) <= n * (R + 1)
        BY <3>4, <2>1, Sizes, Times
      <4>. QED
        BY <2>1, <2>2, <3>1, <3>2, <4>1, Sizes DEF e
    <3>. QED
      BY <3>3, <3>4, <2>1, Sizes
  <2>4. CASE RestSource(q, e)
    <3>1. PICK r \in 0..K - P * R - 1 : q = P * (R + 1) + r /\ e = P * R + r
      BY <2>4 DEF RestSource
    <3>. QED
      BY <2>1, <2>2, <3>1, Sizes DEF e
  <2>. QED
    BY <1>1, <2>3, <2>4 DEF Source
<1>4. CASE RestRepair(p, K + j)
  <2>1. j \in P..Repair - 1 /\ p = K + j
    BY <1>4, Sizes DEF RestRepair
  <2>2. (P + 1) * R <= (j + 1) * R /\ K < (P + 1) * R
        /\ (P + 1) * R \in Nat /\ (j + 1) * R \in Nat
    BY <2>1, Sizes, Times
  <2>3. e < (j + 1) * R
    BY <1>1, <2>2, Sizes
  <2>4. q < p
    <3>1. CASE PairedSource(q, e)
      <4>1. PICK n \in 0..P - 1, at \in 0..R - 1 : q = n * (R + 1) + at
        BY <3>1 DEF PairedSource
      <4>2. /\ (n + 1) * (R + 1) <= P * (R + 1)
            /\ (n + 1) * (R + 1) = n * (R + 1) + (R + 1)
            /\ n * (R + 1) \in Nat
        BY Sizes, Times
      <4>. QED
        BY <2>1, <4>1, <4>2, Sizes
    <3>2. CASE RestSource(q, e)
      <4>1. PICK r \in 0..K - P * R - 1 : q = P * (R + 1) + r
        BY <3>2 DEF RestSource
      <4>. QED
        BY <2>1, <4>1, Sizes
    <3>. QED
      BY <1>1, <3>1, <3>2 DEF Source
  <2>. QED
    BY <2>3, <2>4 DEF e
<1>. QED
  BY <1>2, <1>3, <1>4 DEF Spare
-----------------------------------------------------------------------------
(* The encoder's counts are where EncWire's order of symbols has them.     *)

Interleaved ==
  /\ src_count \in 0..K /\ rep_count \in 0..Repair
  /\ rep_count < P => /\ next_rep_after = (rep_count + 1) * R
                      /\ rep_count * R <= src_count
                      /\ src_count <= (rep_count + 1) * R
  /\ rep_count >= P => next_rep_after = (P + 1) * R /\ P * R <= src_count
  /\ rep_count > P => src_count = K

LEMMA NextSymbol ==
  ASSUME Interleaved
  PROVE  /\ SourceNext => /\ src_count < K
                          /\ Esi(src_count + rep_count) = src_count
         /\ RepairNext => /\ rep_count < Repair
                          /\ Esi(src_count + rep_count) = K + rep_count
         /\ ~SourceNext /\ ~RepairNext => src_count = K /\ rep_count = Repair
<1>. DEFINE s == src_count
            r == rep_count
<1>0. /\ s \in 0..K /\ r \in 0..Repair
      /\ r < P => /\ next_rep_after = (r + 1) * R
                  /\ r * R <= s /\ s <= (r + 1) * R
      /\ r >= P => next_rep_after = (P + 1) * R /\ P * R <= s
      /\ r > P => s = K
      /\ s + r \in Nat
  BY Sizes DEF Interleaved
<1>. HIDE DEF s, r
<1>1. (r + 1) * R = r * R + R /\ r * R \in Nat /\ r * (R + 1) = r * R + r
  BY <1>0, Sizes, Times
<1>2. r < P /\ s < next_rep_after => s < K /\ PairedSource(s + r, s)
  <2>1. SUFFICES ASSUME r < P, s < next_rep_after
                 PROVE  s < K /\ PairedSource(s + r, s)
    OBVIOUS
  <2>2. r \in 0..P - 1 /\ s - r * R \in 0..R - 1
    BY <1>0, <1>1, <2>1, Sizes
  <2>3. s + r = r * (R + 1) + (s - r * R) /\ s = r * R + (s - r * R)
    BY <1>0, <1>1, Sizes
  <2>4. PairedSource(s + r, s)
    BY <2>2, <2>3 DEF PairedSource
  <2>. QED
    BY <2>4, SymbolRange, Sizes DEF Source
<1>3. r < P /\ s >= next_rep_after => r < Repair /\ PairedRepair(s + r, K + r)
  <2>1. SUFFICES ASSUME r < P, s >= next_rep_after
                 PROVE  r < Repair /\ PairedRepair(s + r, K + r)
    OBVIOUS
  <2>2. s = (r + 1) * R
    BY <1>0, <1>1, <2>1, Sizes
  <2>3. r \in 0..P - 1 /\ s + r = r * (R + 1) + R
    BY <1>0, <1>1, <2>1, <2>2, Sizes
  <2>. QED
    BY <2>3, <1>0, Sizes DEF PairedRepair
<1>4. r >= P /\ s < K => RestSource(s + r, s)
  <2>1. SUFFICES ASSUME r >= P, s < K PROVE RestSource(s + r, s)
    OBVIOUS
  <2>2. r = P
    BY <1>0, <2>1, Sizes
  <2>3. s - P * R \in 0..K - P * R - 1 /\ s = P * R + (s - P * R)
        /\ s + r = P * (R + 1) + (s - P * R)
    BY <1>0, <2>1, <2>2, Sizes
  <2>. QED
    BY <2>3 DEF RestSource
<1>5. r >= P /\ s = K /\ r < Repair => RestRepair(s + r, K + r)
  BY <1>0, Sizes DEF RestRepair
<1>6. r >= P /\ r < Repair => s < next_rep_after
  BY <1>0, Sizes
<1>7. r < P => r < Repair
  BY <1>0, Sizes
<1>8. CASE r < P
  <2>1. next_rep_after \in Nat
    BY <1>0, <1>1, <1>8, Sizes
  <2>2. CASE s < next_rep_after
    <3>1. s < K /\ PairedSource(s + r, s)
      BY <1>2, <1>8, <2>2
    <3>2. Esi(s + r) = s
      BY <1>0, <3>1, EsiIs DEF Source
    <3>. QED
      BY <1>0, <2>1, <2>2, <3>1, <3>2, Sizes DEF SourceNext, RepairNext, RepairDue, s, r
  <2>3. CASE s >= next_rep_after
    <3>1. r < Repair /\ PairedRepair(s + r, K + r)
      BY <1>3, <1>8, <2>3
    <3>2. Esi(s + r) = K + r
      BY <1>0, <3>1, EsiIs DEF Spare
    <3>. QED
      BY <1>0, <2>1, <2>3, <3>1, <3>2, Sizes DEF SourceNext, RepairNext, RepairDue, s, r
  <2>. QED
    BY <1>0, <2>1, <2>2, <2>3, Sizes
<1>9. CASE r >= P
  <2>1. ~RepairDue
    BY <1>0, <1>6, <1>9, Sizes DEF RepairDue, s, r
  <2>2. CASE s < K
    <3>1. Esi(s + r) = s
      BY <1>0, <1>4, <1>9, <2>2, EsiIs DEF Source
    <3>. QED
      BY <1>0, <2>1, <2>2, <3>1, Sizes DEF SourceNext, RepairNext, s, r
  <2>3. CASE s = K /\ r < Repair
    <3>1. Esi(s + r) = K + r
      BY <1>0, <1>5, <1>9, <2>3, EsiIs DEF Spare
    <3>. QED
      BY <1>0, <2>1, <2>3, <3>1, Sizes DEF SourceNext, RepairNext, s, r
  <2>4. CASE s = K /\ r = Repair
    BY <1>0, <2>1, <2>4, Sizes DEF SourceNext, RepairNext, s, r
  <2>. QED
    BY <1>0, <2>2, <2>3, <2>4, Sizes
<1>. QED
  BY <1>0, <1>8, <1>9, Sizes

LEMMA InterleavedStep ==
  ASSUME Interleaved, [EncNext]_encVars
  PROVE  Interleaved'
<1>. USE DEF readerVars, encoderVars, blockVars, ringVars, writerVars, outVars
<1>1. CASE UNCHANGED <<src_count, rep_count, next_rep_after>>
  BY <1>1 DEF Interleaved, P, R, Wire!Paired, Wire!rep_interval, rep_interval
<1>2. CASE TakeBlock
  <2>1. src_count' = 0 /\ rep_count' = 0 /\ next_rep_after' = R
    BY <1>2 DEF TakeBlock, R
  <2>2. (0 + 1) * R = R /\ 0 * R = 0
    BY Sizes
  <2>. QED
    BY <2>1, <2>2, Sizes DEF Interleaved
<1>3. CASE EmitSource
  <2>1. /\ SourceNext /\ src_count' = src_count + 1
        /\ UNCHANGED <<rep_count, next_rep_after>>
    BY <1>3 DEF EmitSource
  <2>2. src_count < K /\ src_count \in 0..K /\ rep_count \in 0..Repair
    BY <2>1, NextSymbol DEF Interleaved
  <2>3. (rep_count + 1) * R \in Nat /\ rep_count * R \in Nat
    BY <2>2, Sizes, Times
  <2>4. ASSUME rep_count < P PROVE src_count' <= (rep_count + 1) * R
    <3>1. src_count < next_rep_after
      BY <2>1, <2>2, <2>3, <2>4, Sizes
         DEF SourceNext, RepairDue, Interleaved
    <3>. QED
      BY <2>1, <2>2, <2>3, <2>4, <3>1 DEF Interleaved
  <2>5. rep_count > P => FALSE
    BY <2>2 DEF Interleaved
  <2>. QED
    BY <2>1, <2>2, <2>3, <2>4, <2>5, Sizes DEF Interleaved
<1>4. CASE EmitRepair
  <2>1. /\ RepairNext /\ rep_count' = rep_count + 1 /\ src_count' = src_count
        /\ next_rep_after' = IF RepairDue THEN next_rep_after + R
                             ELSE next_rep_after
    BY <1>4 DEF EmitRepair, NextRepAfter, R
  <2>2. rep_count < Repair /\ src_count \in 0..K /\ rep_count \in 0..Repair
    BY <2>1, NextSymbol DEF Interleaved
  <2>3. /\ (rep_count + 1) * R = rep_count * R + R /\ rep_count * R \in Nat
        /\ ((rep_count + 1) + 1) * R = (rep_count + 1) * R + R
    BY <2>2, Sizes, Times
  <2>4. CASE rep_count < P
    <3>1. next_rep_after = (rep_count + 1) * R
          /\ src_count <= (rep_count + 1) * R
      BY <2>4 DEF Interleaved
    <3>2. RepairDue
      <4>1. CASE src_count >= K
        <5>1. (rep_count + 1) * R <= P * R
          BY <2>2, <2>4, Sizes, Times
        <5>. QED
          BY <2>2, <2>3, <3>1, <4>1, <5>1, Sizes DEF RepairDue
      <4>2. CASE ~(src_count >= K)
        BY <2>1, <4>2 DEF RepairNext
      <4>. QED
        BY <4>1, <4>2
    <3>3. src_count = (rep_count + 1) * R
      BY <2>2, <2>3, <3>1, <3>2, Sizes DEF RepairDue
    <3>4. next_rep_after' = (rep_count' + 1) * R
      BY <2>1, <2>3, <3>1, <3>2
    <3>5. CASE rep_count' < P
      BY <2>1, <2>2, <2>3, <3>3, <3>4, <3>5, Sizes DEF Interleaved
    <3>6. CASE rep_count' = P
      BY <2>1, <2>2, <2>3, <3>3, <3>4, <3>6, Sizes DEF Interleaved
    <3>. QED
      BY <2>1, <2>2, <2>4, <3>5, <3>6, Sizes
  <2>5. CASE rep_count >= P
    <3>1. ~RepairDue
      <4>1. next_rep_after = (P + 1) * R /\ (P + 1) * R \in Nat /\ K < (P + 1) * R
        BY <2>2, <2>5, Sizes, Times DEF Interleaved
      <4>. QED
        BY <2>2, <4>1, Sizes DEF RepairDue
    <3>2. src_count = K
      BY <2>1, <2>2, <3>1, Sizes DEF RepairNext
    <3>. QED
      BY <2>1, <2>2, <2>5, <3>1, <3>2, Sizes DEF Interleaved
  <2>. QED
    BY <2>2, <2>4, <2>5, Sizes
<1>5. CASE Reader
  BY <1>1, <1>5 DEF Reader, ReadBlock, ReadEof, ReadError, SendBlock, SendBlockFails
<1>6. CASE Encoder
  BY <1>1, <1>2, <1>3, <1>4, <1>6
     DEF Encoder, InputClosed, EmitDone, MintExtra, SendExtra, Nap, SendFails
<1>7. CASE Writer
  BY <1>1, <1>7 DEF Writer, TakePacket, StuffNoop, Drained, WriteFrame, WriteFails
<1>8. CASE EncTick
  BY <1>1, <1>8 DEF EncTick
<1>9. CASE UNCHANGED encVars
  BY <1>1, <1>9 DEF encVars
<1>. QED
  BY <1>5, <1>6, <1>7, <1>8, <1>9 DEF EncNext
-----------------------------------------------------------------------------
(* The states of EncWire, and the packets that take one to the next.       *)

SenderStates == [blk : Nat, pos : 0..PerBlock - 1, extra : [0..MaxBlocks -> Nat]]

(* What was sent of a block is sent in its order, ...                      *)
InBandStep(h, p, g) ==
  /\ h.blk \in 0..MaxBlocks
  /\ p = Wire!Packet(h.blk, Esi(h.pos))
  /\ g.blk = IF h.pos = PerBlock - 1 THEN h.blk + 1 ELSE h.blk
  /\ g.pos = IF h.pos = PerBlock - 1 THEN 0 ELSE h.pos + 1
  /\ g.extra = h.extra

(* ... and between two blocks extra repair for one that was.               *)
ExtraStep(h, p, g) ==
  /\ h.pos = 0
  /\ \E b \in 0..MaxBlocks :
       /\ b < h.blk /\ b >= h.blk - MaxRing
       /\ Repair + h.extra[b] < MaxRepair
       /\ p = Wire!Packet(b, PerBlock + h.extra[b])
       /\ g.extra = [h.extra EXCEPT ![b] = @ + 1]
  /\ g.blk = h.blk /\ g.pos = h.pos

Sends(h, p, g) == InBandStep(h, p, g) \/ ExtraStep(h, p, g)

(* Sending these packets, one after the other, takes h to g.               *)
Leads(h, s, g) ==
  \E hs \in [1..Len(s) + 1 -> SenderStates] :
    /\ hs[1] = h /\ hs[Len(s) + 1] = g
    /\ \A i \in 1..Len(s) : Sends(hs[i], s[i], hs[i + 1])

LEMMA LeadsNowhere ==
  ASSUME NEW h \in SenderStates, NEW g
  PROVE  Leads(h, <<>>, g) <=> g = h
<1>1. Len(<<>>) = 0
  BY EmptySeq
<1>2. ASSUME g = h PROVE Leads(h, <<>>, g)
  <2>. DEFINE hs == [i \in 1..1 |-> h]
  <2>1. hs \in [1..Len(<<>>) + 1 -> SenderStates] /\ hs[1] = h
    BY <1>1
  <2>2. hs[Len(<<>>) + 1] = g /\ \A i \in 1..Len(<<>>) : FALSE
    BY <1>1, <1>2
  <2>. HIDE DEF hs
  <2>. QED
    BY <2>1, <2>2 DEF Leads
<1>. QED
  BY <1>1, <1>2 DEF Leads

LEMMA LeadsOn ==
  ASSUME NEW S, NEW s \in Seq(S), NEW p \in S, NEW h, NEW f,
         NEW g \in SenderStates, Leads(h, s, f), Sends(f, p, g)
  PROVE  Leads(h, Append(s, p), g)
<1>. DEFINE n == Len(s)
            t == Append(s, p)
<1>1. /\ n \in Nat /\ Len(t) = n + 1
      /\ \A i \in 1..n : t[i] = s[i]
      /\ t[n + 1] = p
  BY LenProperties, AppendProperties
<1>2. PICK hs \in [1..n + 1 -> SenderStates] :
        /\ hs[1] = h /\ hs[n + 1] = f
        /\ \A i \in 1..n : Sends(hs[i], s[i], hs[i + 1])
  BY DEF Leads
<1>. HIDE DEF n, t
<1>. DEFINE ks == [i \in 1..n + 2 |-> IF i = n + 2 THEN g ELSE hs[i]]
<1>3. /\ ks \in [1..n + 2 -> SenderStates]
      /\ \A i \in 1..n + 1 : ks[i] = hs[i]
      /\ ks[n + 2] = g
  BY <1>1, <1>2
<1>. HIDE DEF ks
<1>4. ASSUME NEW i \in 1..n + 1 PROVE Sends(ks[i], t[i], ks[i + 1])
  <2>1. CASE i = n + 1
    <3>1. ks[i] = f /\ t[i] = p /\ ks[i + 1] = g
      BY <1>1, <1>2, <1>3, <2>1
    <3>. QED
      BY <3>1
  <2>2. CASE i # n + 1
    <3>1. i \in 1..n /\ i \in 1..n + 1 /\ i + 1 \in 1..n + 1
      BY <1>1, <2>2
    <3>2. ks[i] = hs[i] /\ ks[i + 1] = hs[i + 1] /\ t[i] = s[i]
      BY <1>1, <1>3, <3>1
    <3>. QED
      BY <1>2, <3>1, <3>2
  <2>. QED
    BY <2>1, <2>2
<1>5. (n + 1) + 1 = n + 2 /\ 1 \in 1..n + 1
  BY <1>1
<1>6. Leads(h, t, g)
  BY <1>1, <1>2, <1>3, <1>4, <1>5 DEF Leads
<1>. QED
  BY <1>6 DEF t

LEMMA LeadsOff ==
  ASSUME NEW S, NEW s \in Seq(S), s # <<>>, NEW h, NEW g, Leads(h, s, g)
  PROVE  \E f \in SenderStates : Sends(h, Head(s), f) /\ Leads(f, Tail(s), g)
<1>. DEFINE n == Len(s)
            t == Tail(s)
<1>1. /\ n \in Nat \ {0} /\ Len(t) = n - 1
      /\ \A i \in 1..n - 1 : t[i] = s[i + 1]
      /\ Head(s) = s[1]
  BY LenProperties, HeadTailProperties, EmptySeq
<1>2. PICK hs \in [1..n + 1 -> SenderStates] :
        /\ hs[1] = h /\ hs[n + 1] = g
        /\ \A i \in 1..n : Sends(hs[i], s[i], hs[i + 1])
  BY DEF Leads
<1>. HIDE DEF n, t
<1>. DEFINE ks == [i \in 1..n |-> hs[i + 1]]
<1>3. /\ ks \in [1..n -> SenderStates]
      /\ \A i \in 1..n : ks[i] = hs[i + 1]
  BY <1>1, <1>2
<1>. HIDE DEF ks
<1>4. ASSUME NEW i \in 1..n - 1 PROVE Sends(ks[i], t[i], ks[i + 1])
  <2>1. i \in 1..n /\ i + 1 \in 1..n
    BY <1>1
  <2>2. ks[i] = hs[i + 1] /\ ks[i + 1] = hs[(i + 1) + 1] /\ t[i] = s[i + 1]
    BY <1>1, <1>3, <2>1
  <2>. QED
    BY <1>2, <2>1, <2>2
<1>5. (n - 1) + 1 = n /\ 1 \in 1..n /\ n \in 1..n
  BY <1>1
<1>6. ks[1] \in SenderStates /\ Leads(ks[1], t, g)
  <2>1. ks \in [1..Len(t) + 1 -> SenderStates]
    BY <1>1, <1>3, <1>5
  <2>2. ks[Len(t) + 1] = g
    BY <1>1, <1>2, <1>3, <1>5
  <2>3. \A i \in 1..Len(t) : Sends(ks[i], t[i], ks[i + 1])
    BY <1>1, <1>4
  <2>4. ks[1] \in SenderStates
    BY <1>3, <1>5
  <2>. QED
    BY <2>1, <2>2, <2>3, <2>4 DEF Leads
<1>7. Sends(h, Head(s), ks[1])
  BY <1>1, <1>2, <1>3, <1>5
<1>. QED
  BY <1>6, <1>7 DEF t
-----------------------------------------------------------------------------
(* Where the three threads are: blocks are taken one after the other and   *)
(* numbered in that order, the counter is that of the next frame, and a    *)
(* thread has ended only when there was nothing left for it.               *)

AtRest ==
  \/ Taken = 0 /\ block = 0 /\ src_count = 0 /\ rep_count = 0
  \/ Taken = block + 1 /\ src_count + rep_count = PerBlock

BlocksBounded ==
  /\ nread <= MaxBlocks + 1
  /\ rpc \in {"read", "last"} => nread <= MaxBlocks
  /\ rpc = "send" => nread < MaxBlocks

BlockAt ==
  /\ epc = "emit" => Taken = block + 1 /\ sbn = block % SbnMod
  /\ epc \in {"poll", "extra"} => AtRest /\ sbn = Taken % SbnMod

EndInv ==
  /\ epc = "exited" /\ (wpc # "exited" \/ sink_ok) =>
       AtRest /\ rpc = "exited" /\ blocks = <<>>
  /\ wpc = "exited" /\ sink_ok => epc = "exited" /\ packets = <<>>

CcInv ==
  /\ wpc = "poll" => cc = Len(wire) % CcMod
  /\ wpc = "write" => /\ buf.cc = Len(wire) % CcMod
                      /\ cc = (Len(wire) + 1) % CcMod

PlaceInv ==
  QueueInv /\ Interleaved /\ BlocksBounded /\ BlockAt /\ EndInv /\ CcInv

LEMMA BoundedStep ==
  ASSUME EncTypeOK, BlocksBounded, [EncNext]_encVars
  PROVE  BlocksBounded'
<1>. USE DEF readerVars, encoderVars, blockVars, ringVars, writerVars, outVars
<1>0. nread \in Nat /\ MaxBlocks \in Nat
  BY EncAssumption DEF EncTypeOK
<1>1. CASE UNCHANGED <<rpc, nread>>
  BY <1>1 DEF BlocksBounded
<1>2. CASE Reader
  BY <1>0, <1>2
     DEF Reader, ReadBlock, ReadEof, ReadError, SendBlock, SendBlockFails, BlocksBounded
<1>3. CASE Encoder
  BY <1>1, <1>3
     DEF Encoder, TakeBlock, InputClosed, EmitSource, EmitRepair, EmitDone, MintExtra,
         SendExtra, Nap, SendFails
<1>4. CASE Writer
  BY <1>1, <1>4 DEF Writer, TakePacket, StuffNoop, Drained, WriteFrame, WriteFails
<1>5. CASE EncTick
  BY <1>1, <1>5 DEF EncTick
<1>6. CASE UNCHANGED encVars
  BY <1>1, <1>6 DEF encVars
<1>. QED
  BY <1>2, <1>3, <1>4, <1>5, <1>6 DEF EncNext

(* Blocks queue up behind the one being sent without moving it.            *)
LEMMA TakenStays ==
  ASSUME EncTypeOK, QueueInv, [EncNext]_encVars, ~TakeBlock
  PROVE  Taken' = Taken /\ block' = block
<1>. USE DEF readerVars, encoderVars, blockVars, ringVars, writerVars, outVars
<1>1. CASE UNCHANGED <<nread, blocks, block>>
  BY <1>1 DEF Taken
<1>2. CASE SendBlock
  <2>1. /\ epc' = epc
    BY <1>2 DEF SendBlock
  <2>. QED
    BY <2>1, TakenStep
<1>3. CASE Reader
  BY <1>1, <1>2, <1>3 DEF Reader, ReadBlock, ReadEof, ReadError, SendBlockFails
<1>4. CASE Encoder
  BY <1>1, <1>4
     DEF Encoder, InputClosed, EmitSource, EmitRepair, EmitDone, MintExtra,
         SendExtra, Nap, SendFails
<1>5. CASE Writer
  BY <1>1, <1>5 DEF Writer, TakePacket, StuffNoop, Drained, WriteFrame, WriteFails
<1>6. CASE EncTick
  BY <1>1, <1>6 DEF EncTick
<1>7. CASE UNCHANGED encVars
  BY <1>1, <1>7 DEF encVars
<1>. QED
  BY <1>3, <1>4, <1>5, <1>6, <1>7 DEF EncNext

LEMMA BlockTaken ==
  ASSUME EncTypeOK, QueueInv, TakeBlock
  PROVE  Taken' = Taken + 1 /\ block' = Taken
<1>1. epc = "poll" /\ epc' = "emit"
  BY DEF TakeBlock
<1>2. [EncNext]_encVars
  BY DEF EncNext, Encoder
<1>. QED
  BY <1>1, <1>2, TakenStep

LEMMA BlockAtStep ==
  ASSUME EncTypeOK, PlaceInv, [EncNext]_encVars
  PROVE  BlockAt'
<1>. USE DEF readerVars, encoderVars, blockVars, ringVars, writerVars, outVars
<1>0. /\ Taken \in Nat /\ block \in Nat /\ PerBlock' = PerBlock
      /\ QueueInv /\ BlockAt /\ Interleaved
  BY DEF PlaceInv, QueueInv, EncTypeOK, PerBlock
<1>1. CASE UNCHANGED <<epc, sbn, src_count, rep_count>> /\ ~TakeBlock
  <2>1. Taken' = Taken /\ block' = block
    BY <1>0, <1>1, TakenStays
  <2>2. AtRest' = AtRest
    BY <1>0, <1>1, <2>1 DEF AtRest
  <2>. QED
    BY <1>0, <1>1, <2>1, <2>2 DEF BlockAt
<1>2. CASE TakeBlock
  <2>1. epc = "poll" /\ epc' = "emit" /\ sbn' = sbn
    BY <1>2 DEF TakeBlock
  <2>. QED
    BY <1>0, <1>2, <2>1, BlockTaken DEF BlockAt
<1>3. CASE (EmitSource \/ EmitRepair) /\ ~TakeBlock
  <2>1. epc = "emit" /\ epc' = "emit" /\ sbn' = sbn
    BY <1>3 DEF EmitSource, EmitRepair
  <2>. QED
    BY <1>0, <1>3, <2>1, TakenStays DEF BlockAt
<1>4. CASE EmitDone /\ ~TakeBlock
  <2>1. /\ epc = "emit" /\ epc' = "poll" /\ ~SourceNext /\ ~RepairNext
        /\ sbn' = (sbn + 1) % SbnMod
        /\ UNCHANGED <<src_count, rep_count>>
    BY <1>4 DEF EmitDone, NextSbn
  <2>2. src_count = K /\ rep_count = Repair
    BY <1>0, <2>1, NextSymbol
  <2>3. Taken' = Taken /\ block' = block
    BY <1>0, <1>4, TakenStays
  <2>4. AtRest'
    BY <1>0, <2>1, <2>2, <2>3 DEF AtRest, PerBlock, BlockAt
  <2>5. sbn' = (block + 1) % SbnMod
    BY <1>0, <2>1, CountOn, EncAssumption DEF BlockAt
  <2>. QED
    BY <1>0, <2>1, <2>3, <2>4, <2>5 DEF BlockAt
<1>5. CASE (MintExtra \/ SendExtra \/ Nap) /\ ~TakeBlock
  <2>1. /\ epc \in {"poll", "extra"} /\ epc' \in {"poll", "extra"}
        /\ UNCHANGED <<sbn, src_count, rep_count>>
    BY <1>5 DEF MintExtra, SendExtra, Nap, Idle
  <2>2. Taken' = Taken /\ block' = block
    BY <1>0, <1>5, TakenStays
  <2>3. AtRest' = AtRest
    BY <1>0, <2>1, <2>2 DEF AtRest
  <2>. QED
    BY <1>0, <2>1, <2>2, <2>3 DEF BlockAt
<1>6. CASE InputClosed \/ SendFails
  BY <1>6 DEF InputClosed, SendFails, BlockAt
<1>7. CASE Reader
  BY <1>1, <1>2, <1>7
     DEF Reader, ReadBlock, ReadEof, ReadError, SendBlock, SendBlockFails
<1>8. CASE Encoder
  BY <1>2, <1>3, <1>4, <1>5, <1>6, <1>8 DEF Encoder
<1>9. CASE Writer
  BY <1>1, <1>2, <1>9 DEF Writer, TakePacket, StuffNoop, Drained, WriteFrame, WriteFails
<1>10. CASE EncTick
  BY <1>1, <1>2, <1>10 DEF EncTick
<1>11. CASE UNCHANGED encVars
  BY <1>1, <1>2, <1>11 DEF encVars
<1>. QED
  BY <1>7, <1>8, <1>9, <1>10, <1>11 DEF EncNext

LEMMA EndStep ==
  ASSUME EncTypeOK, PlaceInv, [EncNext]_encVars
  PROVE  EndInv'
<1>. USE DEF readerVars, encoderVars, blockVars, ringVars, writerVars, outVars
<1>0. QueueInv /\ BlockAt /\ EndInv /\ PerBlock' = PerBlock
  BY DEF PlaceInv, PerBlock
<1>1. ASSUME UNCHANGED <<src_count, rep_count>>, ~TakeBlock PROVE AtRest' = AtRest
  BY <1>0, <1>1, TakenStays DEF AtRest
<1>2. CASE /\ UNCHANGED <<epc, wpc, sink_ok, packets, src_count, rep_count>>
           /\ ~TakeBlock
           /\ rpc = "exited" => rpc' = "exited"
           /\ blocks' = blocks \/ epc # "exited"
  BY <1>0, <1>1, <1>2 DEF EndInv
<1>3. CASE /\ epc # "exited" /\ epc' # "exited"
           /\ UNCHANGED <<wpc, sink_ok>>
  BY <1>0, <1>3 DEF EndInv
<1>4. CASE InputClosed /\ ~TakeBlock
  <2>1. /\ epc = "poll" /\ rpc' = "exited" /\ blocks' = <<>>
        /\ UNCHANGED <<src_count, rep_count, wpc, sink_ok>>
    BY <1>4 DEF InputClosed, InputEnded
  <2>. QED
    BY <1>0, <1>1, <1>4, <2>1 DEF EndInv, BlockAt
<1>5. CASE SendFails
  <2>1. wpc = "exited" /\ epc # "exited" /\ UNCHANGED <<wpc, sink_ok>>
    BY <1>5 DEF SendFails, Sending
  <2>. QED
    BY <1>0, <2>1 DEF EndInv
<1>6. CASE Reader
  BY <1>2, <1>6
     DEF Reader, ReadBlock, ReadEof, ReadError, SendBlock, SendBlockFails, TakeBlock
<1>7. CASE Encoder /\ ~TakeBlock
  BY <1>3, <1>4, <1>5, <1>7
     DEF Encoder, EmitSource, EmitRepair, EmitDone, MintExtra, SendExtra, Nap, Idle
<1>8. CASE TakeBlock
  BY <1>3, <1>8 DEF TakeBlock
<1>9. CASE (TakePacket \/ StuffNoop \/ WriteFrame) /\ ~TakeBlock
  <2>1. /\ wpc # "exited" /\ wpc' # "exited"
        /\ UNCHANGED <<epc, rpc, blocks, src_count, rep_count>>
    BY <1>9 DEF TakePacket, StuffNoop, WriteFrame
  <2>. QED
    BY <1>0, <1>1, <1>9, <2>1 DEF EndInv
<1>10. CASE Drained /\ ~TakeBlock
  <2>1. /\ wpc = "poll" /\ packets' = <<>> /\ epc = "exited"
        /\ UNCHANGED <<epc, rpc, blocks, src_count, rep_count>>
    BY <1>10 DEF Drained
  <2>. QED
    BY <1>0, <1>1, <1>10, <2>1 DEF EndInv
<1>11. CASE WriteFails
  BY <1>11 DEF WriteFails, EndInv
<1>12. CASE Writer
  BY <1>8, <1>9, <1>10, <1>11, <1>12 DEF Writer
<1>13. CASE EncTick
  BY <1>2, <1>8, <1>13 DEF EncTick
<1>14. CASE UNCHANGED encVars
  BY <1>2, <1>8, <1>14 DEF encVars
<1>. QED
  BY <1>6, <1>7, <1>8, <1>12, <1>13, <1>14 DEF EncNext

LEMMA CcStep ==
  ASSUME EncTypeOK, CcInv, [EncNext]_encVars
  PROVE  CcInv'
<1>. USE DEF readerVars, encoderVars, blockVars, ringVars, writerVars, outVars
<1>0. Len(wire) \in Nat /\ CcMod \in Nat \ {0} /\ wire \in Seq(Frames) /\ buf \in Frames
  BY EncAssumption, LenProperties DEF EncTypeOK
<1>1. CASE UNCHANGED <<wpc, cc, buf, wire>>
  BY <1>1 DEF CcInv
<1>2. CASE TakePacket \/ StuffNoop
  <2>1. /\ wpc = "poll" /\ wpc' = "write" /\ wire' = wire
        /\ buf'.cc = cc /\ cc' = (cc + 1) % CcMod
    BY <1>2 DEF TakePacket, StuffNoop, Frame, NextCc
  <2>2. cc = Len(wire) % CcMod
    BY <2>1 DEF CcInv
  <2>. QED
    BY <1>0, <2>1, <2>2, CountOn DEF CcInv
<1>3. CASE WriteFrame
  <2>1. wpc = "write" /\ wpc' = "poll" /\ cc' = cc /\ wire' = Append(wire, buf)
    BY <1>3 DEF WriteFrame
  <2>2. Len(wire') = Len(wire) + 1
    BY <1>0, <2>1, AppendProperties
  <2>. QED
    BY <2>1, <2>2 DEF CcInv
<1>4. CASE Drained \/ WriteFails
  BY <1>4 DEF Drained, WriteFails, CcInv
<1>5. CASE Reader
  BY <1>1, <1>5 DEF Reader, ReadBlock, ReadEof, ReadError, SendBlock, SendBlockFails
<1>6. CASE Encoder
  BY <1>1, <1>6
     DEF Encoder, TakeBlock, InputClosed, EmitSource, EmitRepair, EmitDone, MintExtra,
         SendExtra, Nap, SendFails
<1>7. CASE Writer
  BY <1>2, <1>3, <1>4, <1>7 DEF Writer
<1>8. CASE EncTick
  BY <1>1, <1>8 DEF EncTick
<1>9. CASE UNCHANGED encVars
  BY <1>1, <1>9 DEF encVars
<1>. QED
  BY <1>5, <1>6, <1>7, <1>8, <1>9 DEF EncNext

LEMMA PlaceStep ==
  ASSUME EncTypeOK, PlaceInv, [EncNext]_encVars
  PROVE  PlaceInv'
BY QueueStep, InterleavedStep, BoundedStep, BlockAtStep, EndStep, CcStep DEF PlaceInv

-----------------------------------------------------------------------------
(* The ring: the last blocks sent, none left out, under their numbers, and *)
(* with as many repair symbols as were sent for each.                      *)

Contiguous(r, last) ==
  \A i \in 1..Len(r) : /\ r[i].blk = last - (Len(r) - i)
                       /\ r[i].sbn = r[i].blk % SbnMod

Counted(r, extra) ==
  \A i \in 1..Len(r) : /\ r[i].blk \in 0..MaxBlocks
                       /\ r[i].next_repair_id = Repair + extra[r[i].blk]

LEMMA PrunedRing ==
  ASSUME NEW r \in Seq(Gens), NEW last \in Int, NEW extra
  PROVE  /\ Contiguous(r, last) => Contiguous(prune_ring(r), last)
         /\ Counted(r, extra) => Counted(prune_ring(r), extra)
         /\ \A i \in 1..Len(prune_ring(r)) : Len(prune_ring(r)) - i < MaxRing
<1>1. PICK m \in 1..Len(r) + 1 : /\ prune_ring(r) = SubSeq(r, m, Len(r))
                                 /\ m <= Len(r) => Stays(r, m)
  BY PruneIsSuffix
<1>2. /\ Len(r) \in Nat
      /\ \A i \in 1..Len(r) : r[i] \in Gens
  BY LenProperties, ElementOfSeq
<1>. DEFINE p == prune_ring(r)
<1>3. /\ Len(p) = IF m <= Len(r) THEN Len(r) - m + 1 ELSE 0
      /\ \A i \in 1..Len(r) - m + 1 : p[i] = r[m + i - 1]
  BY <1>1, <1>2, SubSeqProperties
<1>. HIDE DEF p
<1>4. ASSUME NEW i \in 1..Len(p)
      PROVE  /\ m + i - 1 \in 1..Len(r) /\ p[i] = r[m + i - 1]
             /\ Len(p) - i = Len(r) - (m + i - 1)
             /\ Len(p) - i < MaxRing
  <2>1. m <= Len(r) /\ Len(p) = Len(r) - m + 1
    BY <1>2, <1>3
  <2>2. Len(r) - m < MaxRing
    BY <1>1, <2>1 DEF Stays
  <2>. QED
    BY <1>2, <1>3, <2>1, <2>2, EncAssumption
<1>5. Contiguous(r, last) => Contiguous(p, last)
  BY <1>4 DEF Contiguous
<1>6. Counted(r, extra) => Counted(p, extra)
  BY <1>4 DEF Counted
<1>. QED
  BY <1>4, <1>5, <1>6 DEF p

(* A block that is sent goes to the end of it.                             *)
LEMMA GrownRing ==
  ASSUME EncTypeOK, QueueInv, BlocksBounded, BlockAt, epc = "emit",
         NEW extra, extra[block] = 0,
         Contiguous(ring, block - 1), Counted(ring, extra)
  PROVE  LET r == Append(ring, BlockGen)
         IN  r \in Seq(Gens) /\ Contiguous(r, block) /\ Counted(r, extra)
<1>. DEFINE r == Append(ring, BlockGen)
<1>1. /\ block \in 0..MaxBlocks /\ sbn = block % SbnMod
  <2>1. Taken = block + 1 /\ Taken <= MaxBlocks + 1
    BY LenProperties, EncAssumption
       DEF BlockAt, BlocksBounded, Taken, EncTypeOK
  <2>. QED
    BY <2>1, EncAssumption DEF BlockAt, EncTypeOK
<1>2. BlockGen \in Gens /\ BlockGen.blk = block /\ BlockGen.next_repair_id = Repair
      /\ BlockGen.sbn = sbn
  BY EncAssumption DEF BlockGen, Gens, EncTypeOK
<1>3. ring \in Seq(Gens) /\ Len(ring) \in Nat
  BY LenProperties DEF EncTypeOK, Gens
<1>4. /\ r \in Seq(Gens) /\ Len(r) = Len(ring) + 1
      /\ \A i \in 1..Len(ring) : r[i] = ring[i]
      /\ r[Len(ring) + 1] = BlockGen
  BY <1>2, <1>3, AppendProperties
<1>. HIDE DEF r
<1>5. \A i \in 1..Len(r) : i \in 1..Len(ring) \/ i = Len(ring) + 1
  BY <1>3, <1>4
<1>6. ASSUME NEW i \in 1..Len(ring)
      PROVE  block - 1 - (Len(ring) - i) = block - (Len(r) - i)
  BY <1>1, <1>3, <1>4
<1>7. block - (Len(r) - (Len(ring) + 1)) = block
  BY <1>1, <1>3, <1>4
<1>8. Contiguous(r, block)
  <2>. SUFFICES ASSUME NEW i \in 1..Len(r)
                PROVE  r[i].blk = block - (Len(r) - i) /\ r[i].sbn = r[i].blk % SbnMod
    BY DEF Contiguous
  <2>1. CASE i \in 1..Len(ring)
    <3>1. ring[i].blk = block - 1 - (Len(ring) - i) /\ ring[i].sbn = ring[i].blk % SbnMod
      BY <2>1 DEF Contiguous
    <3>. QED
      BY <1>4, <1>6, <2>1, <3>1
  <2>2. CASE i = Len(ring) + 1
    <3>1. r[i].blk = block /\ r[i].sbn = block % SbnMod
      BY <1>1, <1>2, <1>4, <2>2
    <3>. QED
      BY <1>7, <2>2, <3>1
  <2>. QED
    BY <1>5, <2>1, <2>2
<1>9. Repair = Repair + extra[block]
  BY EncAssumption
<1>10. Counted(r, extra)
  BY <1>1, <1>2, <1>4, <1>5, <1>9 DEF Counted
<1>. QED
  BY <1>4, <1>8, <1>10 DEF r

(* Minting counts one more for one block of it.                            *)
LEMMA MintedRing ==
  ASSUME NEW r \in Seq(Gens), NEW n \in 1..Len(r),
         NEW last \in Int, Contiguous(r, last),
         NEW extra \in [0..MaxBlocks -> Nat], Counted(r, extra),
         Entries(r),
         NEW q, q = [r EXCEPT ![n].next_repair_id = @ + 1]
  PROVE  /\ Contiguous(q, last)
         /\ Counted(q, [extra EXCEPT ![r[n].blk] = @ + 1])
<1>0. /\ Len(r) \in Nat /\ DOMAIN r = 1..Len(r)
      /\ \A i \in 1..Len(r) : r[i] \in Gens
  BY LenProperties, ElementOfSeq
<1>. DEFINE g == [r[n] EXCEPT !.next_repair_id = @ + 1]
            more == [extra EXCEPT ![r[n].blk] = @ + 1]
<1>1. q = [r EXCEPT ![n] = g]
  OBVIOUS
<1>2. /\ g \in Gens /\ g.blk = r[n].blk /\ g.sbn = r[n].sbn
      /\ g.next_repair_id = r[n].next_repair_id + 1
  <2>1. r[n] \in Gens
    BY <1>0
  <2>2. r[n].next_repair_id + 1 \in Nat
    <3>1. r[n].next_repair_id \in Nat
      BY <2>1, Zenon DEF Gens
    <3>2. \A x \in Nat : x + 1 \in Nat
      OBVIOUS
    <3>. QED
      BY <3>1, <3>2, Zenon
  <2>3. /\ g.blk = r[n].blk /\ g.sbn = r[n].sbn /\ g.age = r[n].age
        /\ g.next_repair_id = r[n].next_repair_id + 1
    BY <2>1 DEF Gens
  <2>4. g \in Gens
    BY <2>1, <2>2 DEF Gens
  <2>. QED
    BY <2>3, <2>4
<1>. HIDE DEF g
<1>3. /\ Len(q) = Len(r)
      /\ \A i \in 1..Len(r) : q[i] = IF i = n THEN g ELSE r[i]
  BY <1>0, <1>1, <1>2, ExceptSeq
<1>4. \A i \in 1..Len(r) : q[i].blk = r[i].blk /\ q[i].sbn = r[i].sbn
  BY <1>2, <1>3
<1>5. Contiguous(q, last)
  BY <1>3, <1>4 DEF Contiguous
<1>6. ASSUME NEW i \in 1..Len(r)
      PROVE  q[i].next_repair_id = Repair + more[q[i].blk]
  <2>1. r[i].blk \in 0..MaxBlocks /\ r[n].blk \in 0..MaxBlocks
    BY DEF Counted
  <2>2. CASE i = n
    <3>1. more[r[n].blk] = extra[r[n].blk] + 1
      BY <2>1
    <3>2. r[n].next_repair_id = Repair + extra[r[n].blk]
      BY DEF Counted
    <3>3. extra[r[n].blk] \in Nat
      BY <2>1
    <3>. QED
      <4>1. q[i] = g /\ g.blk = r[n].blk /\ g.next_repair_id = r[n].next_repair_id + 1
        BY <1>2, <1>3, <2>2
      <4>2. \A a, c \in Nat : (a + c) + 1 = a + (c + 1)
        OBVIOUS
      <4>3. Repair \in Nat
        BY EncAssumption
      <4>. QED
        BY <3>1, <3>2, <3>3, <4>1, <4>2, <4>3
  <2>3. CASE i # n
    <3>1. r[i].blk # r[n].blk
      BY <2>3 DEF Entries
    <3>2. more[r[i].blk] = extra[r[i].blk]
      BY <2>1, <3>1
    <3>. QED
      BY <1>3, <2>3, <3>2 DEF Counted
  <2>. QED
    BY <2>2, <2>3
<1>. QED
  BY <1>3, <1>4, <1>5, <1>6 DEF Counted

(* A tick of the clock ages the blocks of the ring and changes no more.    *)
LEMMA AgedRing ==
  ASSUME EncTypeOK, EncTick, NEW last, NEW extra
  PROVE  /\ Contiguous(ring, last) => Contiguous(ring', last)
         /\ Counted(ring, extra) => Counted(ring', extra)
<1>1. /\ ring \in Seq(Gens) /\ Len(ring) \in Nat /\ DOMAIN ring = 1..Len(ring)
      /\ \A i \in 1..Len(ring) : ring[i] \in Gens
  BY LenProperties, ElementOfSeq DEF EncTypeOK, Gens
<1>2. ring' = [i \in 1..Len(ring) |->
                 [ring[i] EXCEPT !.age = IF @ <= Horizon THEN @ + 1 ELSE @]]
  BY <1>1 DEF EncTick
<1>3. DOMAIN ring' = 1..Len(ring) /\ Len(ring') = Len(ring)
  BY <1>1, <1>2
<1>4. \A i \in 1..Len(ring) : /\ ring'[i].blk = ring[i].blk
                              /\ ring'[i].sbn = ring[i].sbn
                              /\ ring'[i].next_repair_id = ring[i].next_repair_id
  BY <1>1, <1>2 DEF Gens
<1>. QED
  BY <1>3, <1>4 DEF Contiguous, Counted
-----------------------------------------------------------------------------
(* The wire and the threads.  What is written is a state of EncWire; the   *)
(* frame being written and the packets of the channel lead from there to   *)
(* the state the encoder is in.                                            *)

OnWire == [blk |-> in_band \div PerBlock, pos |-> in_band % PerBlock, extra |-> extras]

(* The blocks before this one were emitted to the end.                     *)
Finished == IF epc = "emit" THEN block ELSE Taken

AtEncoder(g) ==
  /\ g.blk = IF src_count + rep_count = PerBlock THEN block + 1 ELSE block
  /\ g.pos = IF src_count + rep_count = PerBlock THEN 0 ELSE src_count + rep_count
  /\ epc # "exited" =>
       /\ \A b \in 0..MaxBlocks : b >= Finished => g.extra[b] = 0
       /\ Adaptive => Contiguous(ring, Finished - 1)
  /\ epc \in {"poll", "emit"} /\ Adaptive => Counted(ring, g.extra)
  /\ epc = "extra" =>
       \E f \in SenderStates : ExtraStep(g, minted, f) /\ Counted(ring, f.extra)

AtWriter(h) ==
  /\ wpc = "poll" => h = OnWire
  /\ wpc = "write" => IF IsNoop(buf) THEN h = OnWire
                      ELSE Sends(OnWire, buf.pkt, h)
  /\ wpc = "exited" /\ sink_ok => h = OnWire

OnWay ==
  \E h, g \in SenderStates :
    AtWriter(h) /\ Leads(h, packets, g) /\ AtEncoder(g)

LEMMA OnWireType == ASSUME EncTypeOK PROVE OnWire \in SenderStates
<1>1. in_band \in Nat /\ extras \in [0..MaxBlocks -> Nat] /\ PerBlock \in Nat \ {0}
  BY Sizes DEF EncTypeOK
<1>2. in_band \div PerBlock \in Nat /\ in_band % PerBlock \in 0..PerBlock - 1
  BY <1>1, Divides
<1>. QED
  BY <1>1, <1>2 DEF OnWire, SenderStates

(* What leads on is a packet, and no noop.                                 *)
LEMMA SentIsPacket ==
  ASSUME NEW h \in SenderStates, NEW p, NEW g, Sends(h, p, g)
  PROVE  /\ p # NoPacket
         /\ InBandStep(h, p, g) => p.esi < PerBlock
         /\ ExtraStep(h, p, g) => p.esi >= PerBlock
<1>1. CASE InBandStep(h, p, g)
  <2>1. h.blk \in 0..MaxBlocks /\ h.pos \in 0..PerBlock - 1
    BY <1>1 DEF InBandStep, SenderStates
  <2>2. Esi(h.pos) \in 0..PerBlock - 1
    BY <2>1, EsiRange
  <2>3. p = Wire!Packet(h.blk, Esi(h.pos))
    BY <1>1 DEF InBandStep
  <2>4. p.blk = h.blk /\ p.esi = Esi(h.pos)
    BY <2>3 DEF Wire!Packet
  <2>5. p.blk # -1 /\ p.esi < PerBlock
    BY <2>1, <2>2, <2>4, Sizes, EncAssumption
  <2>6. ~ExtraStep(h, p, g)
    <3>1. ASSUME NEW b \in 0..MaxBlocks, p = Wire!Packet(b, PerBlock + h.extra[b])
          PROVE  FALSE
      <4>1. p.esi = PerBlock + h.extra[b] /\ h.extra[b] \in Nat
        BY <3>1 DEF Wire!Packet, SenderStates
      <4>. QED
        BY <2>2, <2>4, <4>1, Sizes
    <3>. QED
      BY <3>1 DEF ExtraStep
  <2>. QED
    BY <2>5, <2>6 DEF NoPacket, Packet
<1>2. CASE ExtraStep(h, p, g) /\ ~InBandStep(h, p, g)
  <2>1. PICK b \in 0..MaxBlocks : p = Wire!Packet(b, PerBlock + h.extra[b])
    BY <1>2 DEF ExtraStep
  <2>2. p.blk = b /\ p.esi = PerBlock + h.extra[b] /\ h.extra[b] \in Nat
    BY <2>1 DEF Wire!Packet, SenderStates
  <2>3. p.blk # -1 /\ p.esi >= PerBlock
    BY <2>2, Sizes, EncAssumption
  <2>. QED
    BY <1>2, <2>3 DEF NoPacket, Packet
<1>. QED
  BY <1>1, <1>2 DEF Sends

(* Where nothing the encoder has changes, it stays where it was.           *)
LEMMA EncoderStays ==
  ASSUME NEW g \in SenderStates, AtEncoder(g), Taken' = Taken,
         UNCHANGED <<adaptive, epc, block, src_count, rep_count, minted, ring>>
  PROVE  AtEncoder(g)'
<1>1. PerBlock' = PerBlock /\ Finished' = Finished /\ Adaptive' = Adaptive
  BY DEF PerBlock, Finished, Adaptive
<1>2. Contiguous(ring, Finished - 1)' = Contiguous(ring, Finished - 1)
      /\ Counted(ring, g.extra)' = Counted(ring, g.extra)
  BY <1>1 DEF Contiguous, Counted
<1>3. ASSUME NEW f PROVE /\ ExtraStep(g, minted, f)' = ExtraStep(g, minted, f)
                         /\ Counted(ring, f.extra)' = Counted(ring, f.extra)
  BY <1>1 DEF ExtraStep, Wire!Packet, Counted
<1>. QED
  BY <1>1, <1>2, <1>3 DEF AtEncoder, SenderStates

(* At rest all that was taken is finished.                                 *)
LEMMA RestIsFinished ==
  ASSUME EncTypeOK, PlaceInv, epc \in {"poll", "extra"},
         NEW g \in SenderStates, AtEncoder(g)
  PROVE  /\ Finished = Taken /\ g.blk = Taken /\ g.pos = 0
         /\ sbn = Taken % SbnMod /\ Taken \in Nat
<1>1. AtRest /\ sbn = Taken % SbnMod
  BY DEF PlaceInv, BlockAt
<1>2. Taken \in Nat /\ block \in Nat /\ PerBlock \in Nat \ {0}
  BY Sizes DEF PlaceInv, QueueInv, EncTypeOK
<1>3. epc # "emit"
  OBVIOUS
<1>. QED
  BY <1>1, <1>2, <1>3 DEF AtRest, AtEncoder, Finished

LEMMA TakeOn ==
  ASSUME EncTypeOK, PlaceInv, TakeBlock, NEW g \in SenderStates, AtEncoder(g)
  PROVE  AtEncoder(g)'
<1>1. /\ epc = "poll" /\ epc' = "emit" /\ src_count' = 0 /\ rep_count' = 0
      /\ UNCHANGED <<adaptive, ring>>
  BY DEF TakeBlock, ringVars
<1>2. /\ Finished = Taken /\ g.blk = Taken /\ g.pos = 0
  BY <1>1, RestIsFinished
<1>3. block' = Taken
  BY BlockTaken DEF PlaceInv
<1>4. /\ Finished' = Finished /\ Adaptive' = Adaptive
      /\ src_count' + rep_count' # PerBlock' /\ src_count' + rep_count' = 0
  BY <1>1, <1>2, <1>3, Sizes DEF Finished, Adaptive, PerBlock
<1>5. Contiguous(ring, Finished - 1)' = Contiguous(ring, Finished - 1)
      /\ Counted(ring, g.extra)' = Counted(ring, g.extra)
  BY <1>1, <1>4 DEF Contiguous, Counted
<1>. QED
  BY <1>1, <1>2, <1>3, <1>4, <1>5 DEF AtEncoder

LEMMA EmitOn ==
  ASSUME EncTypeOK, PlaceInv, EmitSource \/ EmitRepair,
         NEW g \in SenderStates, AtEncoder(g)
  PROVE  \E f \in SenderStates, p \in Packets :
           Sends(g, p, f) /\ packets' = Append(packets, p) /\ AtEncoder(f)'
<1>. USE DEF blockVars, ringVars, writerVars, readerVars
<1>0. /\ epc = "emit" /\ block \in Nat /\ sbn \in 0..SbnMod - 1
      /\ Taken = block + 1 /\ sbn = block % SbnMod /\ block \in 0..MaxBlocks
      /\ Interleaved /\ src_count \in 0..K /\ rep_count \in 0..Repair
  <2>1. epc = "emit" /\ BlockAt /\ BlocksBounded /\ Interleaved
    BY DEF EmitSource, EmitRepair, PlaceInv
  <2>2. Taken <= MaxBlocks + 1
    BY <2>1, LenProperties, EncAssumption DEF BlocksBounded, Taken, EncTypeOK
  <2>. QED
    BY <2>1, <2>2, EncAssumption DEF BlockAt, EncTypeOK
<1>1. PICK e \in Nat :
        /\ packets' = Append(packets, Packet(block, sbn, e))
        /\ src_count + rep_count \in 0..PerBlock - 1
        /\ Esi(src_count + rep_count) = e
        /\ src_count' + rep_count' = src_count + rep_count + 1
        /\ UNCHANGED <<adaptive, epc, block, minted, ring, blocks, nread>>
  <2>1. CASE EmitSource
    <3>1. SourceNext /\ packets' = Append(packets, Packet(block, sbn, src_count))
          /\ src_count' = src_count + 1 /\ rep_count' = rep_count
          /\ UNCHANGED <<adaptive, epc, block, minted, ring, blocks, nread>>
      BY <2>1 DEF EmitSource, Send
    <3>2. /\ src_count \in Nat
          /\ src_count + rep_count \in 0..PerBlock - 1
          /\ Esi(src_count + rep_count) = src_count
          /\ src_count' + rep_count' = src_count + rep_count + 1
      BY <1>0, <3>1, NextSymbol, Sizes DEF PerBlock
    <3>. QED
      BY <3>1, <3>2
  <2>2. CASE EmitRepair
    <3>1. RepairNext /\ packets' = Append(packets, Packet(block, sbn, K + rep_count))
          /\ src_count' = src_count /\ rep_count' = rep_count + 1
          /\ UNCHANGED <<adaptive, epc, block, minted, ring, blocks, nread>>
      BY <2>2 DEF EmitRepair, Send
    <3>2. /\ K + rep_count \in Nat
          /\ src_count + rep_count \in 0..PerBlock - 1
          /\ Esi(src_count + rep_count) = K + rep_count
          /\ src_count' + rep_count' = src_count + rep_count + 1
      BY <1>0, <3>1, NextSymbol, Sizes DEF PerBlock
    <3>. QED
      BY <3>1, <3>2
  <2>. QED
    BY <2>1, <2>2
<1>2. PICK c \in 0..PerBlock - 1 : c = src_count + rep_count
  BY <1>1
<1>3. PICK f \in SenderStates :
        /\ f.blk = IF c = PerBlock - 1 THEN block + 1 ELSE block
        /\ f.pos = IF c = PerBlock - 1 THEN 0 ELSE c + 1
        /\ f.extra = g.extra
  <2>. DEFINE s == [blk |-> IF c = PerBlock - 1 THEN block + 1 ELSE block,
                    pos |-> IF c = PerBlock - 1 THEN 0 ELSE c + 1,
                    extra |-> g.extra]
  <2>1. g.extra \in [0..MaxBlocks -> Nat]
    BY DEF SenderStates
  <2>2. s \in SenderStates
    BY <1>0, <2>1, Sizes DEF SenderStates
  <2>. QED
    BY <2>2
<1>4. PICK p \in Packets : p = Packet(block, sbn, e)
  BY <1>0, PacketType
<1>5. p = Wire!Packet(block, e)
  <2>1. block - 0 = block
    BY <1>0
  <2>. QED
    BY <1>0, <1>4, <2>1 DEF Packet, Wire!Packet
<1>6. Sends(g, p, f)
  <2>1. c # PerBlock
    BY Sizes
  <2>2. g.blk = block /\ g.pos = c
    BY <1>2, <2>1 DEF AtEncoder
  <2>3. block \in 0..MaxBlocks /\ Esi(c) = e
    BY <1>0, <1>1, <1>2
  <2>. QED
    BY <1>3, <1>5, <2>2, <2>3 DEF Sends, InBandStep
<1>7. /\ Taken' = Taken /\ Finished' = Finished /\ Adaptive' = Adaptive
      /\ PerBlock' = PerBlock
  BY <1>1 DEF Taken, Finished, Adaptive, PerBlock
<1>8. /\ f.blk = IF src_count' + rep_count' = PerBlock THEN block + 1 ELSE block
      /\ f.pos = IF src_count' + rep_count' = PerBlock THEN 0 ELSE src_count' + rep_count'
  BY <1>1, <1>2, <1>3, Sizes
<1>9. Contiguous(ring, Finished - 1)' = Contiguous(ring, Finished - 1)
      /\ Counted(ring, g.extra)' = Counted(ring, g.extra)
  BY <1>1, <1>7 DEF Contiguous, Counted
<1>10. AtEncoder(f)'
  BY <1>0, <1>1, <1>3, <1>7, <1>8, <1>9 DEF AtEncoder
<1>. QED
  BY <1>1, <1>3, <1>4, <1>6, <1>10

LEMMA DoneOn ==
  ASSUME EncTypeOK, PlaceInv, EmitDone, NEW g \in SenderStates, AtEncoder(g)
  PROVE  AtEncoder(g)'
<1>1. /\ epc = "emit" /\ epc' = "poll" /\ ~SourceNext /\ ~RepairNext
      /\ UNCHANGED <<adaptive, block, src_count, rep_count, nread, blocks>>
      /\ ring' = IF Adaptive THEN prune_ring(Append(ring, BlockGen)) ELSE ring
  BY DEF EmitDone, readerVars
<1>2. /\ Taken' = Taken /\ Adaptive' = Adaptive /\ PerBlock' = PerBlock
  BY <1>1 DEF Taken, Adaptive, PerBlock
<1>3. /\ QueueInv /\ BlocksBounded /\ BlockAt /\ Interleaved
      /\ Taken = block + 1 /\ block \in Nat
  BY <1>1 DEF PlaceInv, BlockAt, EncTypeOK
<1>4. Finished = block /\ Finished' = block + 1
  BY <1>1, <1>2, <1>3 DEF Finished
<1>5. block \in 0..MaxBlocks
  BY <1>3, LenProperties, EncAssumption DEF BlocksBounded, Taken, EncTypeOK
<1>6. /\ \A b \in 0..MaxBlocks : b >= block => g.extra[b] = 0
      /\ g.extra[block] = 0
  BY <1>1, <1>3, <1>4, <1>5 DEF AtEncoder
<1>7. ASSUME Adaptive
      PROVE  Contiguous(ring', block) /\ Counted(ring', g.extra)
  <2>. DEFINE r == Append(ring, BlockGen)
  <2>1. Contiguous(ring, block - 1) /\ Counted(ring, g.extra)
    BY <1>1, <1>4, <1>7 DEF AtEncoder
  <2>2. r \in Seq(Gens) /\ Contiguous(r, block) /\ Counted(r, g.extra)
    BY <1>1, <1>3, <1>6, <2>1, GrownRing
  <2>3. ring' = prune_ring(r) /\ block \in Int
    BY <1>1, <1>3, <1>7
  <2>. HIDE DEF r
  <2>. QED
    BY <2>2, <2>3, PrunedRing
<1>8. block + 1 - 1 = block
  BY <1>3
<1>9. Adaptive => Contiguous(ring, Finished - 1)' /\ Counted(ring, g.extra)'
  <2>1. (Finished - 1)' = Finished' - 1 /\ Finished' - 1 = block
    BY <1>3, <1>4
  <2>2. Contiguous(ring, Finished - 1)' = Contiguous(ring', (Finished - 1)')
        /\ Counted(ring, g.extra)' = Counted(ring', g.extra)
    BY DEF Contiguous, Counted
  <2>. QED
    BY <1>7, <2>1, <2>2
<1>10. \A b \in 0..MaxBlocks : b >= block + 1 => g.extra[b] = 0
  BY <1>3, <1>6, EncAssumption
<1>. QED
  BY <1>1, <1>2, <1>4, <1>9, <1>10 DEF AtEncoder

LEMMA NapOn ==
  ASSUME EncTypeOK, PlaceInv, Nap, NEW g \in SenderStates, AtEncoder(g)
  PROVE  AtEncoder(g)'
<1>1. /\ epc = "poll" /\ Adaptive /\ ring' = prune_ring(ring)
      /\ UNCHANGED <<adaptive, epc, block, src_count, rep_count, nread, blocks>>
  BY DEF Nap, Idle, readerVars, blockVars
<1>2. /\ Taken' = Taken /\ Adaptive' = Adaptive /\ PerBlock' = PerBlock
      /\ Finished' = Finished
  BY <1>1 DEF Taken, Adaptive, PerBlock, Finished
<1>3. Finished - 1 \in Int
  BY <1>1, RestIsFinished
<1>4. ring \in Seq(Gens) /\ Contiguous(ring, Finished - 1) /\ Counted(ring, g.extra)
  BY <1>1 DEF AtEncoder, EncTypeOK, Gens
<1>5. Contiguous(ring', Finished - 1) /\ Counted(ring', g.extra)
  BY <1>1, <1>3, <1>4, PrunedRing
<1>6. Contiguous(ring, Finished - 1)' /\ Counted(ring, g.extra)'
  BY <1>2, <1>5 DEF Contiguous, Counted
<1>. QED
  BY <1>1, <1>2, <1>6 DEF AtEncoder

LEMMA TickOn ==
  ASSUME EncTypeOK, PlaceInv, EncTick, NEW g \in SenderStates, AtEncoder(g)
  PROVE  AtEncoder(g)'
<1>1. UNCHANGED <<adaptive, epc, block, src_count, rep_count, nread, blocks, minted>>
  BY DEF EncTick, readerVars, blockVars
<1>2. /\ Taken' = Taken /\ Adaptive' = Adaptive /\ PerBlock' = PerBlock
      /\ Finished' = Finished
  BY <1>1 DEF Taken, Adaptive, PerBlock, Finished
<1>3. Contiguous(ring, Finished - 1) => Contiguous(ring, Finished - 1)'
  <2>1. Contiguous(ring, Finished - 1) => Contiguous(ring', Finished - 1)
    BY AgedRing
  <2>. QED
    BY <1>2, <2>1 DEF Contiguous
<1>4. \A x : Counted(ring, x) => Counted(ring, x)'
  <2>1. \A x : Counted(ring, x) => Counted(ring', x)
    BY AgedRing
  <2>. QED
    BY <2>1 DEF Counted
<1>5. ASSUME NEW f PROVE ExtraStep(g, minted, f)' = ExtraStep(g, minted, f)
  BY <1>1, <1>2 DEF ExtraStep, Wire!Packet
<1>. QED
  BY <1>1, <1>2, <1>3, <1>4, <1>5 DEF AtEncoder

(* A packet minted is the next of a block still in the ring, ...           *)
LEMMA MintOn ==
  ASSUME EncTypeOK, PlaceInv, EntriesInv, MintExtra,
         NEW g \in SenderStates, AtEncoder(g)
  PROVE  AtEncoder(g)'
<1>. DEFINE r == prune_ring(ring)
<1>1. /\ epc = "poll" /\ epc' = "extra" /\ Adaptive
      /\ UNCHANGED <<adaptive, block, src_count, rep_count, nread, blocks>>
      /\ \E i \in pick_block(r) :
           /\ ring' = [r EXCEPT ![i].next_repair_id = @ + 1]
           /\ minted' = Packet(r[i].blk, r[i].sbn, K + r[i].next_repair_id)
  BY DEF MintExtra, Idle, readerVars, blockVars
<1>2. /\ Taken' = Taken /\ Adaptive' = Adaptive /\ PerBlock' = PerBlock
      /\ Finished' = Finished
  BY <1>1 DEF Taken, Adaptive, PerBlock, Finished
<1>3. Finished = Taken /\ g.blk = Taken /\ g.pos = 0 /\ Taken \in Nat
  BY <1>1, RestIsFinished
<1>4. /\ r \in Seq(Gens) /\ Entries(r)
      /\ Contiguous(r, Finished - 1) /\ Counted(r, g.extra)
      /\ \A i \in 1..Len(r) : Len(r) - i < MaxRing
  <2>1. /\ ring \in Seq(Gens) /\ Entries(ring)
        /\ Contiguous(ring, Finished - 1) /\ Counted(ring, g.extra)
    BY <1>1 DEF AtEncoder, EncTypeOK, Gens, EntriesInv
  <2>2. Finished - 1 \in Int
    BY <1>3
  <2>. QED
    BY <2>1, <2>2, PrunedType, PrunedEntries, PrunedRing
<1>. HIDE DEF r
<1>5. PICK n \in pick_block(r) :
        /\ ring' = [r EXCEPT ![n].next_repair_id = @ + 1]
        /\ minted' = Packet(r[n].blk, r[n].sbn, K + r[n].next_repair_id)
  BY <1>1
<1>6. n \in 1..Len(r) /\ ~exhausted(r[n]) /\ Len(r) \in Nat
  BY <1>4, <1>5, LenProperties DEF pick_block
<1>7. g.extra \in [0..MaxBlocks -> Nat] /\ g.blk \in Nat /\ g.pos \in 0..PerBlock - 1
  BY DEF SenderStates
<1>8. PICK b \in 0..MaxBlocks :
        /\ b = r[n].blk /\ b = Finished - 1 - (Len(r) - n)
        /\ r[n].sbn = b % SbnMod
        /\ r[n].next_repair_id = Repair + g.extra[b]
  BY <1>4, <1>6 DEF Contiguous, Counted
<1>9. b < g.blk /\ b >= g.blk - MaxRing
  BY <1>3, <1>4, <1>6, <1>8, EncAssumption
<1>10. Repair + g.extra[b] < MaxRepair
  BY SMTT(30), <1>6, <1>7, <1>8, EncAssumption DEF exhausted
<1>11. minted' = Wire!Packet(b, PerBlock + g.extra[b])
  <2>1. \A n1, n2, n3 \in Nat : n1 + (n2 + n3) = (n1 + n2) + n3 /\ n1 - 0 = n1
    OBVIOUS
  <2>2. g.extra[b] \in Nat /\ b \in Nat
    BY <1>7, EncAssumption
  <2>3. K + (Repair + g.extra[b]) = PerBlock + g.extra[b] /\ b - 0 = b
    BY <2>1, <2>2, EncAssumption DEF PerBlock
  <2>. QED
    BY <1>5, <1>8, <2>3 DEF Packet, Wire!Packet
<1>12. PICK f \in SenderStates :
         /\ f.blk = g.blk /\ f.pos = g.pos
         /\ f.extra = [g.extra EXCEPT ![b] = @ + 1]
  <2>. DEFINE s == [blk |-> g.blk, pos |-> g.pos,
                    extra |-> [g.extra EXCEPT ![b] = @ + 1]]
  <2>1. [g.extra EXCEPT ![b] = @ + 1] \in [0..MaxBlocks -> Nat]
    <3>1. \A x \in [0..MaxBlocks -> Nat] :
            [x EXCEPT ![b] = @ + 1] \in [0..MaxBlocks -> Nat]
      OBVIOUS
    <3>. QED
      BY <1>7, <3>1
  <2>2. s \in SenderStates
    BY <1>7, <2>1 DEF SenderStates
  <2>. QED
    BY <2>2
<1>13. ExtraStep(g, minted', f)
  BY <1>3, <1>8, <1>9, <1>10, <1>11, <1>12 DEF ExtraStep
<1>14. Contiguous(ring', Finished - 1) /\ Counted(ring', f.extra)
  <2>1. Finished - 1 \in Int
    BY <1>3
  <2>2. /\ Contiguous(ring', Finished - 1)
        /\ Counted(ring', [g.extra EXCEPT ![r[n].blk] = @ + 1])
    BY <1>4, <1>5, <1>6, <1>7, <2>1, MintedRing
  <2>. QED
    BY <1>8, <1>12, <2>2
<1>15. ExtraStep(g, minted, f)' /\ Counted(ring, f.extra)'
  <2>1. ExtraStep(g, minted, f)' = ExtraStep(g, minted', f)
    BY <1>2 DEF ExtraStep, Wire!Packet
  <2>2. Counted(ring, f.extra)' = Counted(ring', f.extra)
    BY DEF Counted
  <2>. QED
    BY <1>13, <1>14, <2>1, <2>2
<1>16. Contiguous(ring, Finished - 1)'
  BY <1>2, <1>14 DEF Contiguous
<1>17. (\A b1 \in 0..MaxBlocks : b1 >= Finished => g.extra[b1] = 0)'
  BY <1>1, <1>2 DEF AtEncoder
<1>18. /\ g.blk = (IF src_count + rep_count = PerBlock THEN block + 1 ELSE block)'
       /\ g.pos = (IF src_count + rep_count = PerBlock THEN 0
                   ELSE src_count + rep_count)'
  BY <1>1, <1>2 DEF AtEncoder
<1>19. SenderStates' = SenderStates
  BY <1>2 DEF SenderStates
<1>. QED
  BY <1>1, <1>15, <1>16, <1>17, <1>18, <1>19 DEF AtEncoder

(* ... and goes to the writer while the encoder is at rest.                *)
LEMMA ExtraOn ==
  ASSUME EncTypeOK, PlaceInv, SendExtra, NEW g \in SenderStates, AtEncoder(g)
  PROVE  \E f \in SenderStates, p \in Packets :
           Sends(g, p, f) /\ packets' = Append(packets, p) /\ AtEncoder(f)'
<1>1. /\ epc = "extra" /\ epc' = "poll" /\ packets' = Append(packets, minted)
      /\ UNCHANGED <<adaptive, block, src_count, rep_count, nread, blocks, ring>>
  BY DEF SendExtra, Send, readerVars, blockVars
<1>2. /\ Taken' = Taken /\ Adaptive' = Adaptive /\ PerBlock' = PerBlock
      /\ Finished' = Finished
  BY <1>1 DEF Taken, Adaptive, PerBlock, Finished
<1>3. Finished = Taken /\ g.blk = Taken /\ Taken \in Nat
  BY <1>1, RestIsFinished
<1>4. PICK f \in SenderStates : ExtraStep(g, minted, f) /\ Counted(ring, f.extra)
  BY <1>1 DEF AtEncoder
<1>5. minted \in Packets
  BY DEF EncTypeOK
<1>6. \A b \in 0..MaxBlocks : b >= Finished => f.extra[b] = 0
  <2>1. PICK b \in 0..MaxBlocks : b < g.blk /\ f.extra = [g.extra EXCEPT ![b] = @ + 1]
    BY <1>4 DEF ExtraStep
  <2>2. \A c \in 0..MaxBlocks : c >= Finished => g.extra[c] = 0
    BY <1>1 DEF AtEncoder
  <2>3. ASSUME NEW c \in 0..MaxBlocks, c >= Finished PROVE f.extra[c] = 0
    <3>1. b < Finished /\ b \in Nat /\ c \in Nat
      BY <1>3, <2>1, EncAssumption
    <3>2. c # b
      BY <1>3, <2>3, <3>1
    <3>3. g.extra \in [0..MaxBlocks -> Nat]
      BY DEF SenderStates
    <3>. QED
      BY <2>1, <2>2, <2>3, <3>2, <3>3
  <2>. QED
    BY <2>3
<1>7. Counted(ring, f.extra)' /\ (Adaptive => Contiguous(ring, Finished - 1)')
  BY <1>1, <1>2, <1>4 DEF AtEncoder, Counted, Contiguous
<1>8. f.blk = g.blk /\ f.pos = g.pos
  BY <1>4 DEF ExtraStep
<1>9. AtEncoder(f)'
  BY <1>1, <1>2, <1>6, <1>7, <1>8 DEF AtEncoder
<1>. QED
  BY <1>1, <1>4, <1>5, <1>9 DEF Sends

(* The constants are all there is to Leads but its arguments.              *)
LEMMA LeadsStay ==
  ASSUME NEW h, NEW g
  PROVE  Leads(h, packets, g)' <=> Leads(h, packets', g)
BY DEF Leads, SenderStates, Sends, InBandStep, ExtraStep, PerBlock, Esi, Wire!Esi,
       Wire!Paired, Wire!rep_interval, Wire!Packet

LEMMA WriterStays ==
  ASSUME NEW h, AtWriter(h), UNCHANGED <<wpc, buf, sink_ok, in_band, extras>>
  PROVE  AtWriter(h)'
<1>1. OnWire' = OnWire /\ IsNoop(buf)' = IsNoop(buf)
  BY DEF OnWire, PerBlock, IsNoop
<1>2. Sends(OnWire, buf.pkt, h)' = Sends(OnWire, buf.pkt, h)
  BY <1>1 DEF Sends, InBandStep, ExtraStep, PerBlock, Esi, Wire!Esi, Wire!Paired,
              Wire!rep_interval, Wire!Packet
<1>. QED
  BY <1>1, <1>2 DEF AtWriter

LEMMA ReaderOrEncoderOn ==
  ASSUME EncTypeOK, PlaceInv, EntriesInv, OnWay, Reader \/ Encoder \/ EncTick
  PROVE  OnWay'
<1>. USE DEF readerVars, encoderVars, blockVars, ringVars, writerVars, outVars
<1>0. PICK h \in SenderStates, g \in SenderStates :
        AtWriter(h) /\ Leads(h, packets, g) /\ AtEncoder(g)
  BY DEF OnWay
<1>1. UNCHANGED writerVars
  BY DEF Reader, ReadBlock, ReadEof, ReadError, SendBlock, SendBlockFails,
         Encoder, TakeBlock, InputClosed, EmitSource, EmitRepair, EmitDone, MintExtra,
         SendExtra, Nap, SendFails, EncTick
<1>2. AtWriter(h)'
  BY <1>0, <1>1, WriterStays
<1>3. SenderStates' = SenderStates
  BY DEF SenderStates, PerBlock
<1>4. ASSUME packets' = packets, AtEncoder(g)' PROVE OnWay'
  <2>1. Leads(h, packets, g)'
    BY <1>0, <1>4, LeadsStay
  <2>. QED
    BY <1>2, <1>3, <1>4, <2>1 DEF OnWay
<1>5. ASSUME NEW f \in SenderStates, NEW p \in Packets,
             Sends(g, p, f), packets' = Append(packets, p), AtEncoder(f)'
      PROVE  OnWay'
  <2>1. packets \in Seq(Packets)
    BY DEF EncTypeOK
  <2>2. Leads(h, packets', f)
    BY <1>0, <1>5, <2>1, LeadsOn
  <2>3. Leads(h, packets, f)'
    BY <2>2, LeadsStay
  <2>. QED
    BY <1>2, <1>3, <1>5, <2>3 DEF OnWay
<1>6. CASE EmitSource \/ EmitRepair
  BY <1>0, <1>5, <1>6, EmitOn
<1>7. CASE SendExtra
  BY <1>0, <1>5, <1>7, ExtraOn
<1>8. CASE TakeBlock
  BY <1>0, <1>4, <1>8, TakeOn DEF TakeBlock
<1>9. CASE EmitDone
  BY <1>0, <1>4, <1>9, DoneOn DEF EmitDone
<1>10. CASE MintExtra
  BY <1>0, <1>4, <1>10, MintOn DEF MintExtra
<1>11. CASE Nap
  BY <1>0, <1>4, <1>11, NapOn DEF Nap
<1>12. CASE EncTick
  BY <1>0, <1>4, <1>12, TickOn DEF EncTick
<1>13. CASE Reader
  <2>1. UNCHANGED <<adaptive, epc, block, src_count, rep_count, minted, ring, packets>>
    BY <1>13 DEF Reader, ReadBlock, ReadEof, ReadError, SendBlock, SendBlockFails
  <2>2. ~TakeBlock
    BY <2>1 DEF TakeBlock
  <2>3. Taken' = Taken
    BY <1>13, <2>2, TakenStays DEF EncNext, PlaceInv
  <2>4. AtEncoder(g)'
    BY <1>0, <2>1, <2>3, EncoderStays
  <2>. QED
    BY <1>4, <2>1, <2>4
<1>14. CASE InputClosed \/ SendFails
  <2>1. /\ epc' = "exited"
        /\ UNCHANGED <<block, src_count, rep_count, packets>>
    BY <1>14 DEF InputClosed, SendFails
  <2>2. AtEncoder(g)'
    BY <1>0, <2>1 DEF AtEncoder, PerBlock
  <2>. QED
    BY <1>4, <2>1, <2>2
<1>. QED
  BY <1>6, <1>7, <1>8, <1>9, <1>10, <1>11, <1>12, <1>13, <1>14 DEF Encoder

(* A packet on the wire takes it where the packet leads.                   *)
LEMMA WrittenLeads ==
  ASSUME EncTypeOK, NEW h \in SenderStates, Sends(OnWire, buf.pkt, h), WriteFrame
  PROVE  OnWire' = h
<1>0. /\ in_band \in Nat /\ extras \in [0..MaxBlocks -> Nat] /\ PerBlock \in Nat \ {0}
      /\ OnWire \in SenderStates
      /\ OnWire.blk = in_band \div PerBlock /\ OnWire.pos = in_band % PerBlock
      /\ OnWire.extra = extras
  BY Sizes, OnWireType DEF EncTypeOK, OnWire
<1>1. /\ in_band' = IF IsInBand(buf) THEN in_band + 1 ELSE in_band
      /\ extras' = IF IsExtra(buf) THEN [extras EXCEPT ![buf.pkt.blk] = @ + 1]
                   ELSE extras
      /\ PerBlock' = PerBlock
  BY DEF WriteFrame, PerBlock
<1>2. ~IsNoop(buf)
  BY <1>0, SentIsPacket DEF IsNoop
<1>3. \A g, f \in SenderStates :
        g.blk = f.blk /\ g.pos = f.pos /\ g.extra = f.extra => g = f
  BY DEF SenderStates
<1>4. OnWire' = [blk |-> in_band' \div PerBlock, pos |-> in_band' % PerBlock,
                 extra |-> extras']
  BY <1>1 DEF OnWire
<1>5. OnWire' \in SenderStates
  <2>1. in_band' \in Nat /\ extras' \in [0..MaxBlocks -> Nat]
    BY EncStepType DEF EncNext, Writer, EncTypeOK
  <2>2. in_band' \div PerBlock \in Nat /\ in_band' % PerBlock \in 0..PerBlock - 1
    BY <1>0, <2>1, Divides
  <2>. QED
    BY <1>4, <2>1, <2>2 DEF SenderStates
<1>6. CASE InBandStep(OnWire, buf.pkt, h)
  <2>1. IsInBand(buf) /\ ~IsExtra(buf)
    <3>1. buf.pkt.esi < PerBlock
      BY <1>0, <1>6, SentIsPacket
    <3>2. ~(buf.pkt.esi >= K + Repair)
      <4>1. buf.pkt \in Packets /\ buf.pkt # NoPacket
        BY <1>2 DEF EncTypeOK, Frames, IsNoop
      <4>2. buf.pkt.esi \in Nat
        BY <4>1 DEF Packets
      <4>. QED
        BY <1>0, <3>1, <4>2 DEF PerBlock
    <3>. QED
      BY <1>2, <3>2 DEF IsInBand, IsExtra
  <2>2. in_band' = in_band + 1 /\ extras' = extras
    BY <1>1, <2>1
  <2>3. /\ h.blk = IF in_band % PerBlock = PerBlock - 1
                   THEN (in_band \div PerBlock) + 1 ELSE in_band \div PerBlock
        /\ h.pos = IF in_band % PerBlock = PerBlock - 1
                   THEN 0 ELSE (in_band % PerBlock) + 1
        /\ h.extra = extras
    BY <1>0, <1>6 DEF InBandStep
  <2>4. in_band' \div PerBlock = h.blk /\ in_band' % PerBlock = h.pos
    BY <1>0, <2>2, <2>3, DividesNext
  <2>. QED
    BY <1>3, <1>4, <1>5, <2>2, <2>3, <2>4
<1>7. CASE ExtraStep(OnWire, buf.pkt, h)
  <2>1. IsExtra(buf) /\ ~IsInBand(buf)
    <3>1. buf.pkt.esi >= PerBlock
      BY <1>0, <1>7, SentIsPacket
    <3>. QED
      BY <1>2, <3>1 DEF IsInBand, IsExtra, PerBlock
  <2>2. in_band' = in_band /\ extras' = [extras EXCEPT ![buf.pkt.blk] = @ + 1]
    BY <1>1, <2>1
  <2>3. h.blk = OnWire.blk /\ h.pos = OnWire.pos /\ h.extra = extras'
    BY <1>0, <1>7, <2>2 DEF ExtraStep, Wire!Packet
  <2>. QED
    BY <1>0, <1>3, <1>4, <1>5, <2>2, <2>3
<1>. QED
  BY <1>6, <1>7 DEF Sends

LEMMA WriterOn ==
  ASSUME EncTypeOK, PlaceInv, OnWay, Writer
  PROVE  OnWay'
<1>. USE DEF readerVars, encoderVars, blockVars, ringVars, writerVars, outVars
<1>0. PICK h \in SenderStates, g \in SenderStates :
        AtWriter(h) /\ Leads(h, packets, g) /\ AtEncoder(g)
  BY DEF OnWay
<1>1. UNCHANGED <<readerVars, blocks, encoderVars>>
  BY DEF Writer, TakePacket, StuffNoop, Drained, WriteFrame, WriteFails
<1>2. AtEncoder(g)'
  <2>1. Taken' = Taken
    BY <1>1 DEF Taken
  <2>. QED
    BY <1>0, <1>1, <2>1, EncoderStays
<1>3. SenderStates' = SenderStates
  BY DEF SenderStates, PerBlock
<1>4. ASSUME NEW f \in SenderStates, AtWriter(f)', Leads(f, packets', g)
      PROVE  OnWay'
  <2>1. Leads(f, packets, g)'
    BY <1>4, LeadsStay
  <2>. QED
    BY <1>2, <1>3, <1>4, <2>1 DEF OnWay
<1>5. CASE TakePacket
  <2>1. /\ wpc = "poll" /\ wpc' = "write" /\ packets # <<>> /\ packets \in Seq(Packets)
        /\ buf'.pkt = Head(packets) /\ packets' = Tail(packets)
        /\ UNCHANGED <<in_band, extras>>
    BY <1>5 DEF TakePacket, Frame, EncTypeOK
  <2>2. h = OnWire
    BY <1>0, <2>1 DEF AtWriter
  <2>3. PICK f \in SenderStates : Sends(h, Head(packets), f) /\ Leads(f, Tail(packets), g)
    BY <1>0, <2>1, LeadsOff
  <2>4. OnWire' = OnWire /\ ~IsNoop(buf)'
    BY <2>1, <2>3, SentIsPacket DEF OnWire, PerBlock, IsNoop
  <2>5. Sends(OnWire, buf.pkt, f)'
    BY <2>1, <2>2, <2>3, <2>4, ZenonT(40)
       DEF Sends, InBandStep, ExtraStep, PerBlock, Esi, Wire!Esi, Wire!Paired,
           Wire!rep_interval, Wire!Packet
  <2>6. AtWriter(f)'
    BY <2>1, <2>4, <2>5 DEF AtWriter
  <2>. QED
    BY <1>4, <2>1, <2>3, <2>6
<1>6. CASE StuffNoop \/ Drained \/ WriteFails
  <2>1. /\ packets' = packets /\ UNCHANGED <<in_band, extras>>
        /\ wpc = "poll" \/ ~sink_ok'
        /\ wpc' = "exited" \/ (wpc' = "write" /\ IsNoop(buf)')
    BY <1>6 DEF StuffNoop, Drained, WriteFails, IsNoop, Frame
  <2>2. OnWire' = OnWire
    BY <2>1 DEF OnWire, PerBlock
  <2>3. wpc = "poll" => h = OnWire
    BY <1>0 DEF AtWriter
  <2>4. AtWriter(h)'
    BY <1>6, <2>1, <2>2, <2>3 DEF AtWriter, StuffNoop, Drained, WriteFails
  <2>. QED
    BY <1>0, <1>4, <2>1, <2>4
<1>7. CASE WriteFrame
  <2>1. wpc = "write" /\ wpc' = "poll" /\ packets' = packets
    BY <1>7 DEF WriteFrame
  <2>2. OnWire' = h
    <3>1. CASE IsNoop(buf)
      <4>1. UNCHANGED <<in_band, extras>>
        BY <1>7, <3>1 DEF WriteFrame, IsInBand, IsExtra
      <4>. QED
        BY <1>0, <2>1, <3>1, <4>1 DEF AtWriter, OnWire, PerBlock
    <3>2. CASE ~IsNoop(buf)
      BY <1>0, <1>7, <2>1, <3>2, WrittenLeads DEF AtWriter
    <3>. QED
      BY <3>1, <3>2
  <2>3. AtWriter(h)'
    BY <2>1, <2>2 DEF AtWriter
  <2>. QED
    BY <1>0, <1>4, <2>1, <2>3
<1>. QED
  BY <1>5, <1>6, <1>7 DEF Writer

LEMMA OnWayStep ==
  ASSUME EncTypeOK, PlaceInv, EntriesInv, OnWay, [EncNext]_encVars
  PROVE  OnWay'
<1>1. CASE UNCHANGED encVars
  <2>1. PICK h \in SenderStates, g \in SenderStates :
          AtWriter(h) /\ Leads(h, packets, g) /\ AtEncoder(g)
    BY DEF OnWay
  <2>2. AtWriter(h)' /\ AtEncoder(g)'
    BY <1>1, <2>1, WriterStays, EncoderStays
       DEF encVars, readerVars, encoderVars, blockVars, ringVars, writerVars, outVars,
           Taken
  <2>3. SenderStates' = SenderStates
    BY DEF SenderStates, PerBlock
  <2>4. Leads(h, packets, g)'
    BY <1>1, <2>1, LeadsStay DEF encVars
  <2>. QED
    BY <2>1, <2>2, <2>3, <2>4 DEF OnWay
<1>. QED
  BY <1>1, ReaderOrEncoderOn, WriterOn DEF EncNext

LEMMA OnWayInit == ASSUME EncInit PROVE PlaceInv /\ EntriesInv /\ OnWay
<1>0. EncTypeOK
  BY EncInitType
<1>1. /\ nread = 0 /\ blocks = <<>> /\ ring = <<>> /\ packets = <<>> /\ wire = <<>>
      /\ epc = "poll" /\ wpc = "poll" /\ rpc = "read" /\ cc = 0
      /\ block = 0 /\ sbn = 0 /\ src_count = 0 /\ rep_count = 0
      /\ next_rep_after = R /\ in_band = 0 /\ extras = [b \in 0..MaxBlocks |-> 0]
  BY DEF EncInit, R
<1>2. Len(blocks) = 0 /\ Len(ring) = 0 /\ Len(wire) = 0 /\ Taken = 0
  <2>1. Len(blocks) = 0 /\ Len(ring) = 0 /\ Len(wire) = 0
    BY <1>1, EmptySeq
  <2>2. nread = 0 /\ Len(blocks) = 0
    BY <1>1, <2>1
  <2>3. nread - Len(blocks) = 0
    BY <2>2
  <2>. QED
    BY <2>1, <2>3, Zenon DEF Taken
<1>3. QueueInv /\ EntriesInv
  BY <1>1, <1>2 DEF QueueInv, EntriesInv, Entries
<1>4. Interleaved
  <2>1. (0 + 1) * R = R /\ 0 * R = 0
    BY Sizes
  <2>2. P = 0 => P * R = 0
    BY Sizes
  <2>. QED
    BY <1>1, <2>1, <2>2, Sizes DEF Interleaved
<1>5. AtRest /\ BlocksBounded
  BY <1>1, <1>2, EncAssumption DEF AtRest, BlocksBounded
<1>6. 0 % SbnMod = 0 /\ 0 % CcMod = 0
  <2>1. 0 * SbnMod + 0 = 0 /\ 0 \in 0..SbnMod - 1 /\ 0 * CcMod + 0 = 0
        /\ 0 \in 0..CcMod - 1
    BY EncAssumption
  <2>. QED
    BY <2>1, DividesOnce, EncAssumption
<1>7. BlockAt /\ EndInv /\ CcInv
  BY <1>1, <1>2, <1>5, <1>6 DEF BlockAt, EndInv, CcInv
<1>8. OnWire = [blk |-> 0, pos |-> 0, extra |-> extras]
  <2>1. 0 * PerBlock + 0 = 0 /\ 0 \in 0..PerBlock - 1
    BY Sizes
  <2>2. 0 \div PerBlock = 0 /\ 0 % PerBlock = 0
    BY <2>1, DividesOnce, Sizes
  <2>. QED
    BY <1>1, <2>2 DEF OnWire
<1>9. OnWire \in SenderStates
  BY <1>0, OnWireType
<1>10. AtWriter(OnWire) /\ Leads(OnWire, packets, OnWire)
  BY <1>1, <1>9, LeadsNowhere DEF AtWriter
<1>11. AtEncoder(OnWire)
  BY <1>1, <1>2, <1>8, Sizes DEF AtEncoder, Finished, Contiguous, Counted
<1>. QED
  BY <1>3, <1>4, <1>5, <1>7, <1>9, <1>10, <1>11 DEF PlaceInv, OnWay

(* What the encoder has on its way is where it should be, always.          *)
LEMMA OnWayCorrect == EncSpec => [](PlaceInv /\ EntriesInv /\ OnWay)
<1>1. EncInit => PlaceInv /\ EntriesInv /\ OnWay
  BY OnWayInit
<1>2. EncTypeOK /\ (PlaceInv /\ EntriesInv /\ OnWay) /\ [EncNext]_encVars
        => (PlaceInv /\ EntriesInv /\ OnWay)'
  BY PlaceStep, EntriesStep, OnWayStep DEF PlaceInv
<1>. QED
  BY <1>1, <1>2, EncTypeCorrect, PTL DEF EncSpec
-----------------------------------------------------------------------------
(* The encoder implements EncWire.                                         *)

LEMMA WireInitOf == ASSUME EncInit PROVE Wire!WireInit
<1>1. wire = <<>> /\ in_band = 0 /\ extras = [b \in 0..MaxBlocks |-> 0]
  BY DEF EncInit
<1>2. PerBlock = K + Repair /\ PerBlock \in Nat \ {0}
  BY Sizes DEF PerBlock
<1>3. 0 \div (K + Repair) = 0 /\ 0 % (K + Repair) = 0 /\ 0 % CcMod = 0
  <2>1. 0 * PerBlock + 0 = 0 /\ 0 \in 0..PerBlock - 1 /\ 0 * CcMod + 0 = 0
        /\ 0 \in 0..CcMod - 1
    BY <1>2, EncAssumption
  <2>2. 0 \div PerBlock = 0 /\ 0 % PerBlock = 0 /\ 0 % CcMod = 0
    BY <1>2, <2>1, DividesOnce, EncAssumption
  <2>. QED
    BY <1>2, <2>2
<1>4. Len(wire) = 0
  BY <1>1, EmptySeq
<1>. QED
  BY <1>1, <1>3, <1>4
     DEF Wire!WireInit, Wire!Frame, Wire!NoPacket, Frame, NoPacket, Packet

LEMMA WireStepOf ==
  ASSUME EncTypeOK, PlaceInv, OnWay, WriteFrame
  PROVE  Wire!WireNext
<1>. DEFINE blk == in_band \div (K + Repair)
            pos == in_band % (K + Repair)
            n == Len(wire)
            fr == IF wire = <<>> THEN Frame(0, NoPacket) ELSE wire[Len(wire)]
<1>0. /\ wpc = "write" /\ wire' = Append(wire, buf)
      /\ wire \in Seq(Frames) /\ buf \in Frames
  BY DEF WriteFrame, EncTypeOK
<1>1. /\ n \in Nat /\ n' = n + 1 /\ wire' # <<>> /\ wire'[Len(wire')] = buf
  BY <1>0, LenProperties, AppendProperties, EmptySeq
<1>2. fr' = buf /\ buf = [cc |-> buf.cc, pkt |-> buf.pkt] /\ buf.cc = n % CcMod
  BY <1>0, <1>1 DEF PlaceInv, CcInv, Frames
<1>. HIDE DEF fr, n
<1>3. PICK h \in SenderStates : AtWriter(h)
  BY DEF OnWay
<1>4. /\ OnWire.blk = blk /\ OnWire.pos = pos /\ OnWire.extra = extras
      /\ OnWire'.blk = blk' /\ OnWire'.pos = pos' /\ OnWire'.extra = extras'
  BY DEF OnWire, PerBlock
<1>. HIDE DEF blk, pos
<1>5. CASE IsNoop(buf)
  <2>1. UNCHANGED <<in_band, extras>>
    BY <1>5 DEF WriteFrame, IsInBand, IsExtra
  <2>2. UNCHANGED <<blk, pos, extras>>
    BY <2>1 DEF blk, pos
  <2>3. fr' = [cc |-> n % CcMod, pkt |-> Wire!NoPacket]
    BY <1>2, <1>5 DEF IsNoop, NoPacket, Packet, Wire!NoPacket
  <2>4. Wire!Noop
    BY <1>1, <2>2 DEF Wire!Noop, blk, pos, n
  <2>. QED
    BY <2>3, <2>4 DEF Wire!WireNext, Wire!Frame, fr, n
<1>6. CASE ~IsNoop(buf)
  <2>1. Sends(OnWire, buf.pkt, h) /\ OnWire' = h
    BY <1>0, <1>3, <1>6, WrittenLeads DEF AtWriter
  <2>2. CASE InBandStep(OnWire, buf.pkt, h)
    <3>1. /\ blk \in 0..MaxBlocks
          /\ buf.pkt = Wire!Packet(blk, Wire!Esi(pos))
          /\ blk' = IF pos = PerBlock - 1 THEN blk + 1 ELSE blk
          /\ pos' = IF pos = PerBlock - 1 THEN 0 ELSE pos + 1
          /\ extras' = extras
      BY <1>4, <2>1, <2>2 DEF InBandStep, Esi
    <3>2. Wire!InBand
      <4>1. /\ in_band \div (K + Repair) = blk /\ in_band % (K + Repair) = pos
            /\ (in_band \div (K + Repair))' = blk' /\ (in_band % (K + Repair))' = pos'
            /\ Len(wire)' = n' /\ Len(wire) = n
        BY DEF blk, pos, n
      <4>2. Wire!LastOfBlock <=> pos = PerBlock - 1
        <5>1. pos = in_band % (K + Repair)
          BY <4>1
        <5>2. PerBlock - 1 = K + Repair - 1
          BY EncAssumption DEF PerBlock
        <5>. QED
          BY <5>1, <5>2 DEF Wire!LastOfBlock
      <4>3. Len(wire)' = Len(wire) + 1 /\ UNCHANGED <<0, extras>>
        BY <1>1, <3>1, <4>1
      <4>. QED
        BY <3>1, <4>1, <4>2, <4>3 DEF Wire!InBand
    <3>3. fr' = Wire!Frame(Wire!InBandPacket)
      BY <1>2, <3>1 DEF Wire!Frame, Wire!InBandPacket, blk, pos, n
    <3>. QED
      BY <3>2, <3>3 DEF Wire!WireNext, fr
  <2>3. CASE ExtraStep(OnWire, buf.pkt, h)
    <3>1. PICK b \in 0..MaxBlocks :
            /\ b < blk /\ b >= blk - MaxRing
            /\ Repair + extras[b] < MaxRepair
            /\ buf.pkt = Wire!Packet(b, PerBlock + extras[b])
            /\ extras' = [extras EXCEPT ![b] = @ + 1]
      BY <1>4, <2>1, <2>3 DEF ExtraStep
    <3>2. pos = 0 /\ blk' = blk /\ pos' = pos
      BY <1>4, <2>1, <2>3 DEF ExtraStep
    <3>3. Wire!Extra(b)
      BY <1>1, <3>1, <3>2, EncAssumption DEF Wire!Extra, blk, pos, n
    <3>4. fr' = Wire!Frame(Wire!ExtraPacket(b))
      BY <1>2, <3>1 DEF Wire!Frame, Wire!ExtraPacket, PerBlock, n
    <3>. QED
      BY <3>3, <3>4 DEF Wire!WireNext, fr
  <2>. QED
    BY <2>1, <2>2, <2>3 DEF Sends
<1>. QED
  BY <1>5, <1>6

(* For every size of block, repair, ring and queue and whatever the three  *)
(* threads and the two channels between them do, what goes on the wire is  *)
(* what EncWire says: every step writes its next frame or is none of its   *)
(* (enc main.rs:264-329, 452-482, 493-517).                                *)
THEOREM WireCorrect == EncSpec => WireSpec
<1>1. EncInit => Wire!WireInit
  BY WireInitOf
<1>2. ASSUME EncTypeOK, PlaceInv /\ EntriesInv /\ OnWay, [EncNext]_encVars
      PROVE  [Wire!WireNext]_(Wire!wireVars)
  <2>1. CASE WriteFrame
    BY <1>2, <2>1, WireStepOf
  <2>2. CASE ~WriteFrame
    <3>. USE DEF readerVars, encoderVars, blockVars, ringVars, writerVars, outVars
    <3>1. UNCHANGED outVars
      BY <1>2, <2>2
         DEF encVars, EncNext, Reader, ReadBlock, ReadEof, ReadError, SendBlock,
             SendBlockFails, Encoder, TakeBlock, InputClosed, EmitSource, EmitRepair,
             EmitDone, MintExtra, SendExtra, Nap, SendFails, Writer, TakePacket,
             StuffNoop, Drained, WriteFails, EncTick
    <3>. QED
      BY <3>1 DEF Wire!wireVars, Wire!senderVars
  <2>. QED
    BY <2>1, <2>2
<1>. QED
  BY <1>1, <1>2, EncTypeCorrect, OnWayCorrect, PTL DEF EncSpec, WireSpec, Wire!WireSpec
-----------------------------------------------------------------------------
(* What was written.  The packets of emit_block are on the wire in the     *)
(* order in which EncWire sends them, and none of them is missing.         *)

PacketAt(n) == Wire!Packet(n \div PerBlock, Esi(n % PerBlock))

InOrder(place) ==
  /\ \A i \in 1..Len(wire) : IsInBand(wire[i]) =>
       place[i] < in_band /\ wire[i].pkt = PacketAt(place[i])
  /\ \A i, j \in 1..Len(wire) :
       IsInBand(wire[i]) /\ IsInBand(wire[j]) /\ i < j => place[i] < place[j]
  /\ \A n \in 0..in_band - 1 :
       \E i \in 1..Len(wire) : IsInBand(wire[i]) /\ place[i] = n

Written == \E place \in [1..Len(wire) -> Nat] : InOrder(place)

LEMMA WrittenStays ==
  ASSUME Written, UNCHANGED <<wire, in_band>>
  PROVE  Written'
<1>1. PICK place \in [1..Len(wire) -> Nat] : InOrder(place)
  BY DEF Written
<1>2. ASSUME NEW n PROVE PacketAt(n)' = PacketAt(n)
  BY DEF PacketAt, PerBlock, Esi, Wire!Esi, Wire!Paired, Wire!rep_interval, Wire!Packet
<1>3. ASSUME NEW fr PROVE IsInBand(fr)' = IsInBand(fr)
  BY DEF IsInBand, IsNoop, IsExtra
<1>4. InOrder(place)'
  BY <1>1, <1>2, <1>3 DEF InOrder
<1>. QED
  BY <1>1, <1>4 DEF Written

LEMMA WrittenStep ==
  ASSUME EncTypeOK, OnWay, Written, WriteFrame
  PROVE  Written'
<1>. DEFINE n == Len(wire)
<1>0. /\ wpc = "write" /\ wire' = Append(wire, buf)
      /\ wire \in Seq(Frames) /\ buf \in Frames /\ in_band \in Nat
  BY DEF WriteFrame, EncTypeOK
<1>1. /\ n \in Nat /\ Len(wire') = n + 1 /\ wire'[n + 1] = buf
      /\ \A i \in 1..n : wire'[i] = wire[i]
      /\ \A i \in 1..n + 1 : i \in 1..n \/ i = n + 1
  BY <1>0, LenProperties, AppendProperties
<1>2. PICK place \in [1..n -> Nat] : InOrder(place)
  BY DEF Written
<1>3. /\ \A i \in 1..n : IsInBand(wire[i]) =>
           place[i] < in_band /\ wire[i].pkt = PacketAt(place[i])
      /\ \A i, j \in 1..n :
           IsInBand(wire[i]) /\ IsInBand(wire[j]) /\ i < j => place[i] < place[j]
      /\ \A k \in 0..in_band - 1 :
           \E i \in 1..n : IsInBand(wire[i]) /\ place[i] = k
  BY <1>2 DEF InOrder
<1>4. PICK at \in Nat : at = in_band
  BY <1>0
<1>5. /\ in_band' = IF IsInBand(buf) THEN at + 1 ELSE at
      /\ IsInBand(buf) => buf.pkt = PacketAt(at)
  <2>1. in_band' = IF IsInBand(buf) THEN at + 1 ELSE at
    BY <1>4 DEF WriteFrame
  <2>2. ASSUME IsInBand(buf) PROVE buf.pkt = PacketAt(at)
    <3>1. PICK h \in SenderStates : Sends(OnWire, buf.pkt, h)
      BY <1>0, <2>2 DEF OnWay, AtWriter, IsInBand
    <3>2. ~ExtraStep(OnWire, buf.pkt, h)
      <4>1. OnWire \in SenderStates
        BY OnWireType
      <4>2. ~(buf.pkt.esi >= PerBlock)
        BY <2>2 DEF IsInBand, IsExtra, PerBlock
      <4>. QED
        BY <3>1, <4>1, <4>2, SentIsPacket
    <3>3. buf.pkt = Wire!Packet(OnWire.blk, Esi(OnWire.pos))
      BY <3>1, <3>2 DEF Sends, InBandStep
    <3>. QED
      BY <1>4, <3>3 DEF OnWire, PacketAt
  <2>. QED
    BY <2>1, <2>2
<1>. HIDE DEF n
<1>6. PICK m \in Nat : m = n
  BY <1>1
<1>7. PICK more \in [1..m + 1 -> Nat] :
        /\ \A i \in 1..m : more[i] = place[i]
        /\ more[m + 1] = at
  <2>. DEFINE q == [i \in 1..m + 1 |-> IF i = m + 1 THEN at ELSE place[i]]
  <2>1. q \in [1..m + 1 -> Nat] /\ q[m + 1] = at /\ \A i \in 1..m : q[i] = place[i]
    BY <1>2, <1>6
  <2>. QED
    BY <2>1
<1>8. /\ \A i \in 1..m + 1 : i \in 1..m \/ i = m + 1
      /\ Len(wire') = m + 1 /\ wire'[m + 1] = buf
      /\ \A i \in 1..m : wire'[i] = wire[i]
  BY <1>1, <1>6
<1>9. ASSUME NEW i \in 1..m + 1, IsInBand(wire'[i])
      PROVE  more[i] < in_band' /\ wire'[i].pkt = PacketAt(more[i])
  <2>1. CASE i = m + 1
    BY <1>4, <1>5, <1>7, <1>8, <1>9, <2>1
  <2>2. CASE i \in 1..m
    <3>1. place[i] < at /\ wire[i].pkt = PacketAt(place[i]) /\ place[i] \in Nat
      BY <1>2, <1>3, <1>4, <1>6, <1>8, <1>9, <2>2
    <3>. QED
      BY <1>5, <1>7, <1>8, <2>2, <3>1
  <2>. QED
    BY <1>8, <2>1, <2>2
<1>10. ASSUME NEW i \in 1..m + 1, NEW j \in 1..m + 1,
              IsInBand(wire'[i]), IsInBand(wire'[j]), i < j
       PROVE  more[i] < more[j]
  <2>1. i \in 1..m
    BY <1>8, <1>10
  <2>2. CASE j = m + 1
    BY <1>3, <1>4, <1>6, <1>7, <1>8, <1>10, <2>1, <2>2
  <2>3. CASE j \in 1..m
    BY <1>3, <1>6, <1>7, <1>8, <1>10, <2>1, <2>3
  <2>. QED
    BY <1>8, <2>2, <2>3
<1>11. ASSUME NEW k \in 0..in_band' - 1
       PROVE  \E i \in 1..m + 1 : IsInBand(wire'[i]) /\ more[i] = k
  <2>1. CASE k \in 0..at - 1
    <3>1. PICK i \in 1..m : IsInBand(wire[i]) /\ place[i] = k
      BY <1>3, <1>4, <1>6, <2>1
    <3>2. i \in 1..m + 1 /\ IsInBand(wire'[i]) /\ more[i] = k
      BY <1>7, <1>8, <3>1
    <3>. QED
      BY <3>2
  <2>2. CASE k = at /\ IsInBand(buf)
    <3>1. m + 1 \in 1..m + 1 /\ IsInBand(wire'[m + 1]) /\ more[m + 1] = k
      BY <1>7, <1>8, <2>2
    <3>. QED
      BY <3>1
  <2>. QED
    BY <1>5, <2>1, <2>2
<1>12. ASSUME NEW k PROVE PacketAt(k)' = PacketAt(k)
  BY DEF PacketAt, PerBlock, Esi, Wire!Esi, Wire!Paired, Wire!rep_interval, Wire!Packet
<1>13. ASSUME NEW i PROVE IsInBand(wire[i])' = IsInBand(wire'[i])
  BY DEF IsInBand, IsNoop, IsExtra
<1>14. InOrder(more)'
  BY <1>8, <1>9, <1>10, <1>11, <1>12, <1>13 DEF InOrder
<1>. QED
  BY <1>7, <1>8, <1>14 DEF Written

LEMMA WrittenCorrect == EncSpec => []Written
<1>1. ASSUME EncInit PROVE Written
  <2>1. Len(wire) = 0 /\ in_band = 0
    BY <1>1, EmptySeq DEF EncInit
  <2>. DEFINE none == [i \in 1..0 |-> 0]
  <2>2. none \in [1..Len(wire) -> Nat]
    BY <2>1
  <2>. HIDE DEF none
  <2>3. InOrder(none)
    BY <2>1 DEF InOrder
  <2>. QED
    BY <2>2, <2>3 DEF Written
<1>2. ASSUME EncTypeOK, PlaceInv /\ EntriesInv /\ OnWay, Written, [EncNext]_encVars
      PROVE  Written'
  <2>1. CASE WriteFrame
    BY <1>2, <2>1, WrittenStep
  <2>2. CASE ~WriteFrame
    <3>. USE DEF readerVars, encoderVars, blockVars, ringVars, writerVars, outVars
    <3>1. UNCHANGED outVars
      BY <1>2, <2>2
         DEF encVars, EncNext, Reader, ReadBlock, ReadEof, ReadError, SendBlock,
             SendBlockFails, Encoder, TakeBlock, InputClosed, EmitSource, EmitRepair,
             EmitDone, MintExtra, SendExtra, Nap, SendFails, Writer, TakePacket,
             StuffNoop, Drained, WriteFails, EncTick
    <3>. QED
      BY <1>2, <3>1, WrittenStays
  <2>. QED
    BY <2>1, <2>2
<1>. QED
  BY <1>1, <1>2, EncTypeCorrect, OnWayCorrect, PTL DEF EncSpec

(* The packet in a place of a block.                                       *)
LEMMA PlaceOf ==
  ASSUME NEW n \in Nat
  PROVE  /\ PacketAt(n).blk = n \div PerBlock
         /\ PacketAt(n).esi = Esi(n % PerBlock)
         /\ n % PerBlock \in 0..PerBlock - 1
<1>1. n % PerBlock \in 0..PerBlock - 1
  BY Divides, Sizes
<1>. QED
  BY <1>1 DEF PacketAt, Wire!Packet

LEMMA SpreadAt ==
  ASSUME EncTypeOK, Written,
         NEW i \in DOMAIN wire, IsInBandRepair(wire[i]),
         NEW s \in DataOnWire, wire[s].pkt.blk = wire[i].pkt.blk,
         wire[s].pkt.esi < K
  PROVE  s < i <=> wire[s].pkt.esi < ((wire[i].pkt.esi - K) + 1) * rep_interval
<1>1. DOMAIN wire = 1..Len(wire) /\ Len(wire) \in Nat
  BY LenProperties DEF EncTypeOK
<1>2. PICK place \in [1..Len(wire) -> Nat] : InOrder(place)
  BY DEF Written
<1>3. i \in 1..Len(wire) /\ DataOnWire \subseteq 1..Len(wire)
  BY <1>1 DEF DataOnWire
<1>4. s \in 1..Len(wire) /\ IsInBand(wire[i]) /\ IsInBand(wire[s])
  <2>1. s \in 1..Len(wire) /\ ~IsNoop(wire[s])
    BY <1>1, <1>3 DEF DataOnWire
  <2>2. wire[s].pkt.esi \in Nat
    <3>1. wire[s] \in Frames
      BY <2>1, ElementOfSeq DEF EncTypeOK
    <3>. QED
      BY <2>1, <3>1 DEF Frames, Packets, IsNoop
  <2>3. ~(wire[s].pkt.esi >= K + Repair)
    <3>1. \A e, k, n \in Nat : e < k => ~(e >= k + n)
      OBVIOUS
    <3>2. K \in Nat /\ Repair \in Nat
      BY EncAssumption
    <3>. QED
      BY <2>2, <3>1, <3>2
  <2>. QED
    BY <1>3, <2>1, <2>3 DEF IsInBand, IsExtra, IsInBandRepair
<1>5. PICK n \in Nat, m \in Nat :
        /\ n = place[i] /\ m = place[s]
        /\ wire[i].pkt = PacketAt(n) /\ wire[s].pkt = PacketAt(m)
        /\ s < i => m < n
        /\ i < s => n < m
  BY <1>2, <1>3, <1>4 DEF InOrder
<1>6. /\ n \div PerBlock = m \div PerBlock
      /\ wire[i].pkt.esi = Esi(n % PerBlock) /\ n % PerBlock \in 0..PerBlock - 1
      /\ wire[s].pkt.esi = Esi(m % PerBlock) /\ m % PerBlock \in 0..PerBlock - 1
  BY <1>3, <1>5, PlaceOf
<1>7. Esi(n % PerBlock) >= K /\ Esi(n % PerBlock) \in Nat
  BY <1>3, <1>6, EsiRange, Sizes DEF IsInBandRepair
<1>8. PICK j \in Nat : j = Esi(n % PerBlock) - K /\ Esi(n % PerBlock) = K + j
  <2>1. Esi(n % PerBlock) - K \in Nat
    BY <1>7, Sizes
  <2>. QED
    BY <1>7, <2>1, Sizes
<1>9. m % PerBlock < n % PerBlock <=> Esi(m % PerBlock) < (j + 1) * R
  BY <1>3, <1>6, <1>8, SpreadOut
<1>10. m < n <=> m % PerBlock < n % PerBlock
  BY <1>6, SameBlock, Sizes
<1>11. s < i <=> m < n
  <2>1. i # s
    BY <1>3, <1>6, <1>7, Sizes
  <2>. QED
    BY <1>3, <1>4, <1>5, <2>1
<1>. QED
  BY <1>6, <1>8, <1>9, <1>10, <1>11 DEF R

LEMMA SpreadOnWire ==
  ASSUME EncTypeOK, Written
  PROVE  RepairIsSpread
<1>1. ASSUME NEW i \in DOMAIN wire, IsInBandRepair(wire[i]), NEW s \in DataOnWire,
             wire[s].pkt.blk = wire[i].pkt.blk, wire[s].pkt.esi < K
      PROVE  s < i <=> wire[s].pkt.esi < ((wire[i].pkt.esi - K) + 1) * rep_interval
  BY <1>1, SpreadAt
<1>. QED
  BY <1>1, Zenon DEF RepairIsSpread

(* For every size of block and repair, with no loss on the way the symbols *)
(* of a block are spread on the wire as interleave lays them out: repair   *)
(* symbol j after the first (j+1) * rep_interval source symbols of its     *)
(* block and before all others (enc main.rs:493-517).                      *)
THEOREM RepairSpread == EncSpec => []RepairIsSpread
<1>1. EncTypeOK /\ Written => RepairIsSpread
  BY SpreadOnWire
<1>. QED
  BY <1>1, EncTypeCorrect, WrittenCorrect, PTL

LEMMA AllOnWire ==
  ASSUME EncTypeOK, PlaceInv, OnWay, Written
  PROVE  ShutdownDrains
<1>1. SUFFICES
        ASSUME wpc = "exited", sink_ok, NEW b \in 0..nread - 1,
               NEW e \in 0..K + Repair - 1
        PROVE  \E i \in DataOnWire : wire[i].pkt.blk = b /\ wire[i].pkt.esi = e
  BY DEF ShutdownDrains
<1>2. /\ epc = "exited" /\ packets = <<>> /\ AtRest
      /\ Taken = nread /\ nread \in Nat /\ in_band \in Nat
  <2>1. epc = "exited" /\ packets = <<>> /\ AtRest /\ blocks = <<>>
    BY <1>1 DEF PlaceInv, EndInv
  <2>2. Len(blocks) = 0 /\ nread \in Nat
    BY <2>1, EmptySeq DEF EncTypeOK
  <2>3. nread - Len(blocks) = nread
    BY <2>2
  <2>. QED
    BY <2>1, <2>2, <2>3 DEF Taken, EncTypeOK
<1>3. in_band \div PerBlock = nread /\ in_band % PerBlock = 0
  <2>1. PICK h \in SenderStates, g \in SenderStates :
          AtWriter(h) /\ Leads(h, packets, g) /\ AtEncoder(g)
    BY DEF OnWay
  <2>2. h = OnWire /\ g = h
    BY <1>1, <1>2, <2>1, LeadsNowhere DEF AtWriter
  <2>3. g.blk = Taken /\ g.pos = 0
    BY <1>2, <2>1, Sizes DEF AtEncoder, AtRest
  <2>. QED
    BY <1>2, <2>2, <2>3 DEF OnWire
<1>4. in_band = nread * PerBlock + 0
  BY <1>2, <1>3, Divides, Sizes
<1>5. e \in 0..PerBlock - 1 /\ b \in Nat /\ b + 1 <= nread
  <2>1. K + Repair - 1 = PerBlock - 1
    BY EncAssumption DEF PerBlock
  <2>. QED
    BY <1>1, <1>2, <2>1
<1>6. PICK p \in 0..PerBlock - 1 : Esi(p) = e
  BY <1>5, SymbolsPlaced
<1>7. PICK n \in 0..in_band - 1 : n = b * PerBlock + p
  <2>1. /\ (b + 1) * PerBlock <= nread * PerBlock
        /\ (b + 1) * PerBlock = b * PerBlock + PerBlock
        /\ b * PerBlock \in Nat /\ nread * PerBlock \in Nat
    BY <1>2, <1>5, Sizes, Times
  <2>2. b * PerBlock + p \in 0..in_band - 1
    BY <1>4, <2>1, Sizes
  <2>. QED
    BY <2>2
<1>8. PICK i \in 1..Len(wire) : IsInBand(wire[i]) /\ wire[i].pkt = PacketAt(n)
  <2>1. PICK place \in [1..Len(wire) -> Nat] : InOrder(place)
    BY DEF Written
  <2>2. PICK i \in 1..Len(wire) : IsInBand(wire[i]) /\ place[i] = n
    BY <2>1 DEF InOrder
  <2>. QED
    BY <2>1, <2>2 DEF InOrder
<1>9. n \div PerBlock = b /\ n % PerBlock = p /\ n \in Nat
  BY <1>2, <1>5, <1>7, DividesOnce, Sizes
<1>10. wire[i].pkt.blk = b /\ wire[i].pkt.esi = e
  BY <1>6, <1>8, <1>9, PlaceOf
<1>11. i \in DataOnWire
  BY <1>8, LenProperties DEF DataOnWire, IsInBand, EncTypeOK
<1>. QED
  BY <1>10, <1>11

(* However long the input and whatever was in the channels when it ended,  *)
(* all of it is on the wire when the writer ends and no write has failed   *)
(* (enc main.rs:175-214, 347-420, 452-482).                                *)
THEOREM ShutdownCorrect == EncSpec => []ShutdownDrains
<1>1. EncTypeOK /\ (PlaceInv /\ EntriesInv /\ OnWay) /\ Written => ShutdownDrains
  BY AllOnWire
<1>. QED
  BY <1>1, EncTypeCorrect, OnWayCorrect, WrittenCorrect, PTL
=============================================================================
