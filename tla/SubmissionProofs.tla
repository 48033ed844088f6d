-------------------------- MODULE SubmissionProofs --------------------------
(***************************************************************************)
(* What the validators, segment_keys and compute_dedup_key guarantee for   *)
(* every body, and what POST /predictions makes of it: for any names, any  *)
(* cap and any number of requests and jobs.                                *)
(***************************************************************************)
EXTENDS Submission, FiniteSetTheorems, TLAPS

(* Every set of natural numbers that is not empty has a least element:     *)
(* induction for the facts below, from the theorem that strict inclusion of*)
(* finite sets is well-founded.                                            *)
LEMMA LeastNumber ==
    ASSUME NEW T \in SUBSET Nat, T # {}
    PROVE  \E m \in T : \A n \in T : m <= n
<1> DEFINE Below == {0 .. n - 1 : n \in T}
<1>1. IsWellFoundedOn(StrictSubsetOrdering(Nat), FiniteSubsetsOf(Nat))
  BY FS_StrictSubsetOrderingWellFounded
<1>2. Below \subseteq FiniteSubsetsOf(Nat)
  <2>1. ASSUME NEW n \in T PROVE 0 .. n - 1 \in FiniteSubsetsOf(Nat)
    BY FS_Interval DEF FiniteSubsetsOf
  <2> QED
    BY <2>1
<1>3. \E x \in Below : \A y \in Below : ~ (<<y, x>> \in StrictSubsetOrdering(Nat))
  <2>1. Below # {}
    OBVIOUS
  <2> HIDE DEF Below
  <2> QED
    BY <1>1, <1>2, <2>1, WFMin, Zenon
<1>4. PICK m \in T :
         \A n \in T : ~ (<<0 .. n - 1, 0 .. m - 1>> \in StrictSubsetOrdering(Nat))
  BY <1>3
<1>5. ASSUME NEW n \in T, n < m PROVE FALSE
  <2>1. /\ 0 .. n - 1 \subseteq 0 .. m - 1 /\ 0 .. m - 1 \subseteq Nat
        /\ n \in 0 .. m - 1 /\ n \notin 0 .. n - 1
    BY <1>5
  <2> QED
    BY <1>4, <2>1 DEF StrictSubsetOrdering
<1> QED
  BY <1>5

LEMMA MaxIs ==
    ASSUME NEW n \in Nat, NEW s \in SUBSET (1 .. n), n \in s PROVE Max(s) = n
<1>1. n >= n /\ \A y \in s : n >= y /\ y \in Int
  OBVIOUS
<1>2. \A x \in s : (\A y \in s : x >= y) => x = n
  BY <1>1
<1> QED
  BY <1>1, <1>2 DEF Max

-----------------------------------------------------------------------------
(* dict.fromkeys takes the names one by one.                               *)
Grown(seen, name) == IF Contains(seen, name) THEN seen ELSE Append(seen, name)

(* What DropDuplicates computes with, as a fold: the result for each set of*)
(* positions.  Defined is what has to hold of it for the positions of T.   *)
Defined(names, T, f) ==
    f = [s \in SUBSET T |-> IF s = {} THEN << >>
                            ELSE Grown(f[s \ {Max(s)}], names[Max(s)])]

LEMMA DefinedExists ==
    ASSUME NEW names, NEW len \in Nat
    PROVE  \E f : Defined(names, 1 .. len, f)
<1> DEFINE Bad == {n \in Nat : ~ \E f : Defined(names, 1 .. n, f)}
<1> SUFFICES ASSUME Bad # {} PROVE FALSE
  OBVIOUS
<1>1. PICK m \in Bad : \A n \in Bad : m <= n
  BY LeastNumber
<1>2. m # 0
  <2>1. SUBSET (1 .. 0) = {{}}
    OBVIOUS
  <2>2. Defined(names, 1 .. 0, [s \in {{}} |-> << >>])
    BY <2>1 DEF Defined
  <2> QED
    BY <2>2
<1>3. m - 1 \in Nat /\ m \in Nat /\ m - 1 \notin Bad
  BY <1>1, <1>2
<1>4. PICK h : Defined(names, 1 .. m - 1, h)
  BY <1>3
<1> DEFINE g == [s \in SUBSET (1 .. m) |->
                    IF m \in s THEN Grown(h[s \ {m}], names[m]) ELSE h[s]]
<1>5. ASSUME NEW s \in SUBSET (1 .. m)
      PROVE  g[s] = IF s = {} THEN << >> ELSE Grown(g[s \ {Max(s)}], names[Max(s)])
  <2>1. CASE m \in s
    <3>1. Max(s) = m
      BY <1>3, <2>1, MaxIs
    <3>2. s \ {m} \in SUBSET (1 .. m) /\ m \notin s \ {m}
      OBVIOUS
    <3>3. g[s \ {m}] = h[s \ {m}]
      BY <3>2
    <3> QED
      BY <2>1, <3>1, <3>3
  <2>2. CASE m \notin s
    <3>1. s \in SUBSET (1 .. m - 1)
      BY <1>3, <2>2
    <3>2. s \ {Max(s)} \in SUBSET (1 .. m) /\ m \notin s \ {Max(s)}
      BY <2>2
    <3>3. g[s \ {Max(s)}] = h[s \ {Max(s)}] /\ g[s] = h[s]
      BY <2>2, <3>2
    <3> QED
      BY <1>4, <3>1, <3>3 DEF Defined
  <2> QED
    BY <2>1, <2>2
<1>6. Defined(names, 1 .. m, g)
  BY <1>5 DEF Defined
<1> QED
  BY <1>6

LEMMA DropDuplicatesFold ==
    ASSUME NEW names, NEW len \in Nat, DOMAIN names = 1 .. len
    PROVE  \E f : /\ Defined(names, DOMAIN names, f)
                  /\ DropDuplicates(names) = f[DOMAIN names]
<1> DEFINE Step(f) == [s \in SUBSET DOMAIN names |->
                          IF s = {} THEN << >>
                                    ELSE Grown(f[s \ {Max(s)}], names[Max(s)])]
<1>1. DropDuplicates(names) = (CHOOSE f : f = Step(f))[DOMAIN names]
  BY DEF DropDuplicates, FoldLeft, MapThenFoldSet, Grown
<1>2. PICK h : Defined(names, DOMAIN names, h)
  BY DefinedExists
<1>3. \E f : f = Step(f)
  BY <1>2 DEF Defined
<1>4. PICK f : f = Step(f) /\ DropDuplicates(names) = f[DOMAIN names]
  BY <1>1, <1>3
<1>5. Defined(names, DOMAIN names, f)
  BY <1>4 DEF Defined
<1> QED
  BY <1>4, <1>5

-----------------------------------------------------------------------------
NoneTwice(seq) == \A i, k \in DOMAIN seq : seq[i] = seq[k] => i = k

LEMMA GrownFacts ==
    ASSUME NEW S, NEW seen \in Seq(S), NoneTwice(seen), NEW name \in S
    PROVE  /\ Grown(seen, name) \in Seq(S)
           /\ NoneTwice(Grown(seen, name))
           /\ ToSet(Grown(seen, name)) = ToSet(seen) \cup {name}
           /\ \/ Grown(seen, name) = seen /\ name \in ToSet(seen)
              \/ Grown(seen, name) = Append(seen, name) /\ name \notin ToSet(seen)
<1>0. DOMAIN seen = 1 .. Len(seen) /\ Len(seen) \in Nat
  OBVIOUS
<1>1. Contains(seen, name) <=> name \in ToSet(seen)
  BY <1>0 DEF Contains, ToSet
<1>2. CASE name \in ToSet(seen)
  BY <1>1, <1>2 DEF Grown
<1>3. CASE name \notin ToSet(seen)
  <2> DEFINE longer == Append(seen, name)
  <2>1. /\ longer \in Seq(S) /\ DOMAIN longer = DOMAIN seen \cup {Len(seen) + 1}
        /\ \A i \in DOMAIN seen : longer[i] = seen[i] /\ i # Len(seen) + 1
        /\ longer[Len(seen) + 1] = name
    BY <1>0
  <2>2. Grown(seen, name) = longer
    BY <1>1, <1>3 DEF Grown
  <2> HIDE DEF longer
  <2>3. ToSet(longer) = ToSet(seen) \cup {name}
    BY <2>1 DEF ToSet
  <2>4. \A i \in DOMAIN seen : longer[i] # name
    BY <1>3, <2>1 DEF ToSet
  <2>5. NoneTwice(longer)
    BY <2>1, <2>4 DEF NoneTwice
  <2> QED
    BY <1>3, <2>1, <2>2, <2>3, <2>5 DEF longer
<1> QED
  BY <1>2, <1>3

(* Of two of the kept names, the first came first.                         *)
InOrder(kept, names, n) ==
    \A a, b \in DOMAIN kept : a < b =>
       \A i \in 1 .. n : names[i] = kept[b] =>
          \E k \in 1 .. n : k < i /\ names[k] = kept[a]

(* list(dict.fromkeys(names)), for every list: the names that are in it,   *)
(* each once, in the order they first came (models.py:62).                 *)
THEOREM DropDuplicatesFacts ==
    ASSUME NEW S, NEW names \in Seq(S)
    PROVE  /\ DropDuplicates(names) \in Seq(S)
           /\ NoneTwice(DropDuplicates(names))
           /\ ToSet(DropDuplicates(names)) = ToSet(names)
           /\ InOrder(DropDuplicates(names), names, Len(names))
<1>0. DOMAIN names = 1 .. Len(names) /\ Len(names) \in Nat
  OBVIOUS
<1>1. PICK f : Defined(names, DOMAIN names, f) /\ DropDuplicates(names) = f[DOMAIN names]
  BY <1>0, DropDuplicatesFold
<1> DEFINE Kept(n) == /\ f[1 .. n] \in Seq(S)
                      /\ NoneTwice(f[1 .. n])
                      /\ ToSet(f[1 .. n]) = {names[i] : i \in 1 .. n}
                      /\ InOrder(f[1 .. n], names, n)
<1>2. Kept(0)
  <2>1. f[1 .. 0] = << >>
    <3>1. 1 .. 0 = {} /\ 1 .. 0 \in SUBSET DOMAIN names
      OBVIOUS
    <3> QED
      BY <1>1, <3>1 DEF Defined
  <2>2. {names[i] : i \in 1 .. 0} = {} /\ ToSet(<< >>) = {}
    BY DEF ToSet
  <2>3. NoneTwice(<< >>) /\ InOrder(<< >>, names, 0)
    BY DEF NoneTwice, InOrder
  <2> QED
    BY <2>1, <2>2, <2>3
<1>3. ASSUME NEW m \in 1 .. Len(names), Kept(m - 1) PROVE Kept(m)
  <2>1. f[1 .. m] = Grown(f[1 .. m - 1], names[m])
    <3>1. m \in 1 .. m /\ 1 .. m \in SUBSET (1 .. m) /\ m \in Nat
      BY <1>0
    <3>2. Max(1 .. m) = m
      BY <3>1, MaxIs
    <3>3. (1 .. m) \ {m} = 1 .. m - 1 /\ 1 .. m # {} /\ 1 .. m \in SUBSET DOMAIN names
      BY <1>0, <3>1
    <3> QED
      BY <1>1, <3>2, <3>3 DEF Defined
  <2> DEFINE seen == f[1 .. m - 1]
             kept == f[1 .. m]
  <2>2. /\ seen \in Seq(S) /\ NoneTwice(seen) /\ InOrder(seen, names, m - 1)
        /\ ToSet(seen) = {names[i] : i \in 1 .. m - 1}
        /\ kept = Grown(seen, names[m]) /\ names[m] \in S /\ m \in Nat /\ m # 0
    BY <1>0, <1>3, <2>1
  <2> HIDE DEF seen, kept
  <2>3. /\ kept \in Seq(S) /\ NoneTwice(kept) /\ ToSet(kept) = ToSet(seen) \cup {names[m]}
        /\ \/ kept = seen /\ names[m] \in ToSet(seen)
           \/ kept = Append(seen, names[m]) /\ names[m] \notin ToSet(seen)
    BY <2>2, GrownFacts
  <2>4. ToSet(kept) = {names[i] : i \in 1 .. m}
    <3>1. 1 .. m = (1 .. m - 1) \cup {m}
      BY <2>2
    <3> QED
      BY <2>2, <2>3, <3>1
  <2>5. \A a \in DOMAIN seen : \E k \in 1 .. m - 1 : names[k] = seen[a]
    <3>1. \A a \in DOMAIN seen : seen[a] \in ToSet(seen)
      BY DEF ToSet
    <3> QED
      BY <2>2, <3>1
  <2>6. InOrder(kept, names, m)
    <3> SUFFICES ASSUME NEW a \in DOMAIN kept, NEW b \in DOMAIN kept, a < b,
                        NEW i \in 1 .. m, names[i] = kept[b]
                 PROVE  \E k \in 1 .. m : k < i /\ names[k] = kept[a]
      BY DEF InOrder
    <3>1. DOMAIN seen = 1 .. Len(seen) /\ Len(seen) \in Nat
      BY <2>2
    <3>2. /\ DOMAIN kept \subseteq 1 .. Len(seen) + 1
          /\ \A x \in DOMAIN seen : x \in DOMAIN kept /\ kept[x] = seen[x]
      <4>1. CASE kept = seen
        BY <3>1, <4>1
      <4>2. CASE kept = Append(seen, names[m])
        <5>1. DOMAIN kept = 1 .. Len(seen) + 1 /\ \A x \in 1 .. Len(seen) : kept[x] = seen[x]
          BY <2>2, <4>2
        <5> QED
          BY <3>1, <5>1
      <4> QED
        BY <2>3, <4>1, <4>2
    <3>3. a \in DOMAIN seen /\ kept[a] = seen[a]
      BY <3>1, <3>2
    <3>4. CASE i = m
      BY <2>2, <2>5, <3>3, <3>4
    <3>5. CASE i # m
      <4>1. i \in 1 .. m - 1
        BY <2>2, <3>5
      <4>2. names[i] \in ToSet(seen)
        BY <2>2, <4>1
      <4>3. PICK c \in DOMAIN seen : seen[c] = kept[b]
        BY <4>2 DEF ToSet
      <4>4. b \in DOMAIN seen /\ kept[b] = seen[b]
        BY <2>3, <3>2, <4>3 DEF NoneTwice
      <4>5. PICK k \in 1 .. m - 1 : k < i /\ names[k] = seen[a]
        BY <2>2, <3>3, <4>1, <4>4 DEF InOrder
      <4> QED
        BY <2>2, <3>3, <4>5
    <3> QED
      BY <3>4, <3>5
  <2> QED
    BY <2>3, <2>4, <2>6 DEF kept
<1>4. Kept(Len(names))
  <2> HIDE DEF Kept
  <2> DEFINE Bad == {n \in 0 .. Len(names) : ~ Kept(n)}
  <2> SUFFICES ASSUME Bad # {} PROVE FALSE
    BY <1>0
  <2>1. Bad \in SUBSET Nat
    BY <1>0
  <2>2. PICK m \in Bad : \A n \in Bad : m <= n
    BY <2>1, LeastNumber
  <2>3. m \in 1 .. Len(names) /\ m - 1 \in 0 .. Len(names)
    BY <1>0, <1>2, <2>2
  <2>4. Kept(m - 1)
    BY <2>1, <2>2, <2>3
  <2> QED
    BY <1>3, <2>2, <2>3, <2>4
<1>5. {names[i] : i \in 1 .. Len(names)} = ToSet(names)
  BY <1>0 DEF ToSet
<1> QED
  BY <1>0, <1>1, <1>4, <1>5

-----------------------------------------------------------------------------
(* Where itertools.product puts a triple: numbers with three digits.       *)
LEMMA Division ==
    ASSUME NEW n \in Nat, NEW d \in Nat \ {0}
    PROVE  /\ n \div d \in Nat /\ n % d \in 0 .. d - 1
           /\ n = (d * (n \div d)) + (n % d)
  OBVIOUS

LEMMA DivisionIs ==
    ASSUME NEW d \in Nat \ {0}, NEW q \in Nat, NEW r \in 0 .. d - 1
    PROVE  ((d * q) + r) \div d = q /\ ((d * q) + r) % d = r
  OBVIOUS

Number(a, b, c, R, P) == (P * ((R * a) + b)) + c

LEMMA DigitsOfNumber ==
    ASSUME NEW R \in Nat \ {0}, NEW P \in Nat \ {0},
           NEW a \in Nat, NEW b \in 0 .. R - 1, NEW c \in 0 .. P - 1
    PROVE  /\ Number(a, b, c, R, P) \in Nat
           /\ Number(a, b, c, R, P) \div (R * P) = a
           /\ (Number(a, b, c, R, P) \div P) % R = b
           /\ Number(a, b, c, R, P) % P = c
<1> DEFINE q == (R * a) + b
           n == Number(a, b, c, R, P)
<1>1. R * P \in Nat \ {0} /\ R * a \in Nat /\ q \in Nat /\ P * q \in Nat /\ P * b \in Nat
  OBVIOUS
<1>2. q % R = b
  BY DivisionIs
<1>3. n \div P = q /\ n % P = c
  <2> HIDE DEF q
  <2> QED
    BY <1>1, DivisionIs DEF Number, q
<1>4. n = ((R * P) * a) + ((P * b) + c)
  BY DEF Number
<1>5. (P * b) + c \in 0 .. (R * P) - 1
  <2>1. b <= R - 1 /\ c <= P - 1 /\ R - 1 \in Nat /\ b \in Nat /\ c \in Nat
    OBVIOUS
  <2>2. P * b <= P * (R - 1)
    BY <2>1
  <2>3. P * (R - 1) = (R * P) - P
    OBVIOUS
  <2> QED
    BY <1>1, <2>1, <2>2, <2>3
<1>6. n \div (R * P) = a
  <2> DEFINE d == R * P
             r == (P * b) + c
  <2>1. n = (d * a) + r /\ d \in Nat \ {0} /\ r \in 0 .. d - 1
    BY <1>1, <1>4, <1>5
  <2> HIDE DEF d, r, n
  <2> QED
    BY <2>1, DivisionIs DEF d
<1>7. n \in Nat
  BY <1>1 DEF Number
<1> QED
  BY <1>2, <1>3, <1>6, <1>7

LEMMA NumberOfDigits ==
    ASSUME NEW R \in Nat \ {0}, NEW P \in Nat \ {0}, NEW n \in Nat
    PROVE  /\ n \div (R * P) \in Nat
           /\ (n \div P) % R \in 0 .. R - 1
           /\ n % P \in 0 .. P - 1
           /\ n = Number(n \div (R * P), (n \div P) % R, n % P, R, P)
<1> DEFINE q == n \div P
           c == n % P
           a == q \div R
           b == q % R
<1>1. q \in Nat /\ c \in 0 .. P - 1 /\ n = (P * q) + c
  BY Division
<1>2. a \in Nat /\ b \in 0 .. R - 1 /\ q = (R * a) + b
  <2> HIDE DEF q
  <2> QED
    BY <1>1, Division DEF a, b
<1> HIDE DEF q, c, a, b
<1>3. n = Number(a, b, c, R, P)
  BY <1>1, <1>2 DEF Number
<1>4. n \div (R * P) = a
  <2>1. Number(a, b, c, R, P) \div (R * P) = a
    BY <1>1, <1>2, DigitsOfNumber
  <2> QED
    BY <1>3, <2>1
<1> QED
  BY <1>1, <1>2, <1>3, <1>4 DEF q, b, c

(* A number is below G * R * P when its first digit is below G.            *)
LEMMA FirstDigit ==
    ASSUME NEW G \in Nat \ {0}, NEW R \in Nat \ {0}, NEW P \in Nat \ {0},
           NEW a \in Nat, NEW b \in 0 .. R - 1, NEW c \in 0 .. P - 1
    PROVE  a < G <=> Number(a, b, c, R, P) < G * R * P
<1> DEFINE n == Number(a, b, c, R, P)
           d == R * P
<1>1. n \in Nat /\ n \div d = a /\ d \in Nat \ {0}
  BY DigitsOfNumber
<1>2. G * R * P = G * d
  OBVIOUS
<1> HIDE DEF n, d
<1>3. n = (d * a) + (n % d) /\ n % d \in 0 .. d - 1
  BY <1>1, Division
<1>4. ASSUME a < G PROVE n < G * d
  <2>1. a <= G - 1 /\ d * a <= d * (G - 1) /\ d * (G - 1) = (G * d) - d
    BY <1>1, <1>4
  <2> QED
    BY <1>1, <1>3, <2>1
<1>5. ASSUME ~ (a < G) PROVE ~ (n < G * d)
  <2>1. d * G <= d * a /\ d * G = G * d
    BY <1>1, <1>5
  <2> QED
    BY <1>1, <1>3, <2>1
<1> QED
  BY <1>2, <1>4, <1>5 DEF n, d

-----------------------------------------------------------------------------
(* The sets of names a body is made of, and what the validators leave.     *)
IsBody(body, S) ==
    /\ body.games \in Seq(S) /\ body.games # << >> /\ NoneTwice(body.games)
    /\ body.regions \in Seq(S) /\ body.regions # << >> /\ NoneTwice(body.regions)
    /\ body.platforms \in Seq(S) /\ body.platforms # << >> /\ NoneTwice(body.platforms)

(* segment_keys, for any three lists: as many triples as the product of the*)
(* lengths says, every triple of the names, and none twice                 *)
(* (models.py:77).                                                         *)
THEOREM SegmentKeysFacts ==
    ASSUME NEW S, NEW body, IsBody(body, S)
    PROVE  /\ SegmentKeys(body) \in Seq(S \X S \X S)
           /\ Len(SegmentKeys(body)) = FanOut(body) /\ FanOut(body) \in Nat \ {0}
           /\ NoneTwice(SegmentKeys(body))
           /\ ToSet(SegmentKeys(body)) = Triples(body)
<1> DEFINE G == Len(body.games)
           R == Len(body.regions)
           P == Len(body.platforms)
           N == FanOut(body)
           keys == SegmentKeys(body)
           A(i) == (i - 1) \div (R * P)
           B(i) == ((i - 1) \div P) % R
           C(i) == (i - 1) % P
           Key(a, b, c) == <<body.games[a + 1], body.regions[b + 1],
                             body.platforms[c + 1]>>
<1>1. /\ G \in Nat \ {0} /\ R \in Nat \ {0} /\ P \in Nat \ {0}
      /\ DOMAIN body.games = 1 .. G /\ DOMAIN body.regions = 1 .. R
      /\ DOMAIN body.platforms = 1 .. P
  BY DEF IsBody
<1>2. N = G * R * P /\ N \in Nat \ {0}
  <2>1. N = G * R * P
    BY DEF FanOut
  <2> HIDE DEF G, R, P, N
  <2>2. G * R \in Nat \ {0}
    BY <1>1
  <2>3. (G * R) * P \in Nat \ {0}
    <3> DEFINE GR == G * R
    <3>1. GR \in Nat \ {0}
      BY <2>2
    <3> HIDE DEF GR
    <3>2. GR * P \in Nat \ {0}
      BY <1>1, <3>1
    <3> QED
      BY <3>2 DEF GR
  <2> QED
    BY <2>1, <2>3
<1>3. keys = [i \in 1 .. N |-> Key(A(i), B(i), C(i))]
  BY DEF SegmentKeys
<1> HIDE DEF G, R, P, N, keys
<1>4. ASSUME NEW i \in 1 .. N
      PROVE  /\ A(i) \in 0 .. G - 1 /\ B(i) \in 0 .. R - 1 /\ C(i) \in 0 .. P - 1
             /\ i = Number(A(i), B(i), C(i), R, P) + 1
  <2>1. i - 1 \in Nat /\ i - 1 < G * R * P
    BY <1>2
  <2>2. /\ A(i) \in Nat /\ B(i) \in 0 .. R - 1 /\ C(i) \in 0 .. P - 1
        /\ i - 1 = Number(A(i), B(i), C(i), R, P)
    BY <1>1, <2>1, NumberOfDigits
  <2> HIDE DEF A, B, C
  <2>3. A(i) < G
    <3>1. Number(A(i), B(i), C(i), R, P) < G * R * P
      BY <2>1, <2>2
    <3> QED
      BY <1>1, <2>2, <3>1, FirstDigit
  <2> QED
    BY <1>1, <2>2, <2>3
<1>5. ASSUME NEW a \in 0 .. G - 1, NEW b \in 0 .. R - 1, NEW c \in 0 .. P - 1
      PROVE  \E i \in 1 .. N : A(i) = a /\ B(i) = b /\ C(i) = c
  <2> DEFINE n == Number(a, b, c, R, P)
  <2>1. a \in Nat /\ a < G
    BY <1>1
  <2>2. /\ n \in Nat /\ n \div (R * P) = a /\ (n \div P) % R = b /\ n % P = c
        /\ n < G * R * P
    <3>1. Number(a, b, c, R, P) < G * R * P
      BY <1>1, <2>1, FirstDigit
    <3>2. /\ Number(a, b, c, R, P) \in Nat
          /\ Number(a, b, c, R, P) \div (R * P) = a
          /\ (Number(a, b, c, R, P) \div P) % R = b
          /\ Number(a, b, c, R, P) % P = c
      BY <1>1, <2>1, DigitsOfNumber
    <3> QED
      BY <3>1, <3>2
  <2> HIDE DEF n
  <2>3. n + 1 \in 1 .. N /\ (n + 1) - 1 = n
    BY <1>2, <2>2
  <2> QED
    BY <2>2, <2>3
<1> HIDE DEF A, B, C
<1>6. \A i \in 1 .. N : A(i) \in 0 .. G - 1 /\ B(i) \in 0 .. R - 1 /\ C(i) \in 0 .. P - 1
  BY <1>4
<1>7. \A i \in 1 .. N :
         /\ A(i) + 1 \in DOMAIN body.games /\ B(i) + 1 \in DOMAIN body.regions
         /\ C(i) + 1 \in DOMAIN body.platforms
  <2>1. \A n \in Nat : \A d \in 0 .. n - 1 : d + 1 \in 1 .. n
    OBVIOUS
  <2> QED
    BY <1>1, <1>6, <2>1
<1>8. keys \in Seq(S \X S \X S) /\ Len(keys) = N /\ DOMAIN keys = 1 .. N
  <2>1. \A i \in 1 .. N : keys[i] \in S \X S \X S
    BY <1>3, <1>7 DEF IsBody
  <2> QED
    BY <1>2, <1>3, <2>1
<1>9. NoneTwice(keys)
  <2> SUFFICES ASSUME NEW i \in 1 .. N, NEW k \in 1 .. N, keys[i] = keys[k]
               PROVE  i = k
    BY <1>8 DEF NoneTwice
  <2>1. /\ body.games[A(i) + 1] = body.games[A(k) + 1]
        /\ body.regions[B(i) + 1] = body.regions[B(k) + 1]
        /\ body.platforms[C(i) + 1] = body.platforms[C(k) + 1]
    BY <1>3
  <2>2. A(i) + 1 = A(k) + 1 /\ B(i) + 1 = B(k) + 1 /\ C(i) + 1 = C(k) + 1
    BY <1>7, <2>1 DEF IsBody, NoneTwice
  <2>3. A(i) = A(k) /\ B(i) = B(k) /\ C(i) = C(k)
    BY <1>6, <2>2
  <2> QED
    BY <1>4, <2>3
<1>10. ToSet(keys) = Triples(body)
  <2>1. ASSUME NEW i \in 1 .. N PROVE keys[i] \in Triples(body)
    BY <1>3, <1>7 DEF Triples, ToSet
  <2>2. ASSUME NEW t \in Triples(body) PROVE \E i \in 1 .. N : keys[i] = t
    <3>1. PICK x \in DOMAIN body.games, y \in DOMAIN body.regions,
               z \in DOMAIN body.platforms :
             t = <<body.games[x], body.regions[y], body.platforms[z]>>
      BY DEF Triples, ToSet
    <3>2. /\ x - 1 \in 0 .. G - 1 /\ y - 1 \in 0 .. R - 1 /\ z - 1 \in 0 .. P - 1
          /\ (x - 1) + 1 = x /\ (y - 1) + 1 = y /\ (z - 1) + 1 = z
      BY <1>1
    <3>3. PICK i \in 1 .. N : A(i) = x - 1 /\ B(i) = y - 1 /\ C(i) = z - 1
      BY <1>5, <3>2
    <3> QED
      BY <1>3, <3>1, <3>2, <3>3
  <2> QED
    BY <1>8, <2>1, <2>2 DEF ToSet
<1> QED
  BY <1>2, <1>8, <1>9, <1>10 DEF N, keys

-----------------------------------------------------------------------------
(* What reaches the handler: the validators' work on an accepted body.     *)
LEMMA AcceptedBody ==
    ASSUME NEW r \in Accepted
    PROVE  IsBody(Body(r), Name) /\ FanOut(Body(r)) <= MaxSegmentsPerRequest
<1>0. r \in [Field -> Seq([name : Name, pad : Nat])] /\ Valid(r)
  BY SubmissionAssumption DEF Accepted
<1>1. ASSUME NEW f \in Field
      PROVE  Cleaned(r[f]) \in Seq(Name) /\ Cleaned(r[f]) # << >> /\ NoneTwice(Cleaned(r[f]))
  <2> DEFINE list == r[f]
             names == [i \in DOMAIN list |-> Strip(list[i])]
             Padded == [name : Name, pad : Nat]
  <2>1. list \in Seq(Padded) /\ list # << >>
    BY <1>0 DEF Valid
  <2> HIDE DEF list, Padded
  <2>2. /\ DOMAIN list = 1 .. Len(list) /\ Len(list) \in Nat \ {0}
        /\ \A i \in DOMAIN list : list[i] \in Padded
    BY <2>1
  <2>3. \A i \in DOMAIN list : Strip(list[i]) \in Name
    BY <2>2 DEF Strip, Padded
  <2>4. names \in Seq(Name) /\ DOMAIN names = DOMAIN list
    BY <2>2, <2>3
  <2>5. names[1] \in ToSet(names)
    BY <2>2, <2>4 DEF ToSet
  <2> HIDE DEF names
  <2>6. DropDuplicates(names) # << >>
    <3>1. ToSet(DropDuplicates(names)) = ToSet(names)
      BY <2>4, DropDuplicatesFacts
    <3>2. ToSet(<< >>) = {}
      BY DEF ToSet
    <3> QED
      BY <2>5, <3>1, <3>2
  <2> QED
    BY <2>4, <2>6, DropDuplicatesFacts DEF Cleaned, names, list
<1>2. /\ Body(r).games = Cleaned(r["games"])
      /\ Body(r).regions = Cleaned(r["regions"])
      /\ Body(r).platforms = Cleaned(r["platforms"])
  BY DEF Body, Field
<1> QED
  BY <1>0, <1>1, <1>2 DEF IsBody, Valid, Field

(* Two sets of triples are equal only if the names are.                    *)
LEMMA TriplesTellNames ==
    ASSUME NEW S, NEW a, NEW b, IsBody(a, S), IsBody(b, S), Triples(a) = Triples(b)
    PROVE  /\ ToSet(a.games) = ToSet(b.games)
           /\ ToSet(a.regions) = ToSet(b.regions)
           /\ ToSet(a.platforms) = ToSet(b.platforms)
<1>1. ASSUME NEW seq \in Seq(S), seq # << >> PROVE ToSet(seq) # {}
  <2>1. 1 \in DOMAIN seq
    BY <1>1
  <2> QED
    BY <2>1 DEF ToSet
<1>2. /\ ToSet(a.games) # {} /\ ToSet(a.regions) # {} /\ ToSet(a.platforms) # {}
      /\ ToSet(b.games) # {} /\ ToSet(b.regions) # {} /\ ToSet(b.platforms) # {}
  BY <1>1 DEF IsBody
<1>3. \A t : t \in Triples(a) <=> t \in Triples(b)
  OBVIOUS
<1>4. \A x, y, z :
         /\ <<x, y, z>> \in Triples(a) <=>
               x \in ToSet(a.games) /\ y \in ToSet(a.regions) /\ z \in ToSet(a.platforms)
         /\ <<x, y, z>> \in Triples(b) <=>
               x \in ToSet(b.games) /\ y \in ToSet(b.regions) /\ z \in ToSet(b.platforms)
  BY DEF Triples
<1>5. \A x, y, z :
         x \in ToSet(a.games) /\ y \in ToSet(a.regions) /\ z \in ToSet(a.platforms)
         <=> x \in ToSet(b.games) /\ y \in ToSet(b.regions) /\ z \in ToSet(b.platforms)
  BY <1>3, <1>4
<1> QED
  BY <1>2, <1>5

P == INSTANCE JobStoreProofs WITH Segment <- Name \X Name \X Name

LEMMA RequestFacts ==
    ASSUME NEW body \in Request
    PROVE  /\ IsBody(body, Name) /\ FanOut(body) <= MaxSegmentsPerRequest
           /\ SegmentsOf[body] \in Seq(Name \X Name \X Name)
           /\ SegmentsOf[body] # << >> /\ NoneTwice(SegmentsOf[body])
           /\ Len(SegmentsOf[body]) = FanOut(body)
           /\ P!Elements(SegmentsOf[body]) = Triples(body)
<1>1. PICK r \in Accepted : body = Body(r)
  BY DEF Request, BodyOf
<1>2. IsBody(body, Name) /\ FanOut(body) <= MaxSegmentsPerRequest
  BY <1>1, AcceptedBody
<1>3. SegmentsOf[body] = SegmentKeys(body)
  BY DEF SegmentsOf
<1>4. /\ SegmentKeys(body) \in Seq(Name \X Name \X Name)
      /\ Len(SegmentKeys(body)) = FanOut(body) /\ FanOut(body) \in Nat \ {0}
      /\ NoneTwice(SegmentKeys(body))
      /\ ToSet(SegmentKeys(body)) = Triples(body)
  BY <1>2, SegmentKeysFacts
<1>5. SegmentKeys(body) # << >>
  BY <1>4
<1>6. P!Elements(SegmentKeys(body)) = Triples(body)
  BY <1>4 DEF P!Elements, ToSet
<1> QED
  BY <1>2, <1>3, <1>4, <1>5, <1>6

(* Two bodies have one key exactly if they name the same triples.          *)
LEMMA KeysTellTriples ==
    ASSUME NEW q \in Request, NEW r \in Request
    PROVE  KeyOf[q] = KeyOf[r] <=> Triples(q) = Triples(r)
<1>1. /\ KeyOf[q] = [f \in Field |-> ToSet(q[f])]
      /\ KeyOf[r] = [f \in Field |-> ToSet(r[f])]
  BY DEF KeyOf, ComputeDedupKey
<1>2. ASSUME KeyOf[q] = KeyOf[r] PROVE Triples(q) = Triples(r)
  <2>1. ASSUME NEW f \in Field PROVE ToSet(q[f]) = ToSet(r[f])
    <3>1. KeyOf[q][f] = KeyOf[r][f]
      BY <1>2
    <3> QED
      BY <1>1, <3>1
  <2> QED
    BY <2>1 DEF Triples, Field
<1>3. ASSUME Triples(q) = Triples(r) PROVE KeyOf[q] = KeyOf[r]
  <2>1. /\ ToSet(q.games) = ToSet(r.games) /\ ToSet(q.regions) = ToSet(r.regions)
        /\ ToSet(q.platforms) = ToSet(r.platforms)
    BY <1>3, RequestFacts, TriplesTellNames
  <2> QED
    BY <1>1, <2>1 DEF Field
<1> QED
  BY <1>2, <1>3

(* The assumption all theorems about the store, the service and the polls  *)
(* rest on holds of what the validators let through (models.py:58), segment*)
(* keys names (models.py:77) and compute_dedup_key tells apart             *)
(* (dedup.py:17), whatever the bodies are.                                 *)
THEOREM ValidatorsKeepTheAssumption == Store!RequestAssumption
<1>1. KeyOf = [r \in Request |-> KeyOf[r]]
  BY DEF KeyOf
<1>2. SegmentsOf \in [Request -> Seq(Name \X Name \X Name)]
  <2>1. SegmentsOf = [r \in Request |-> SegmentsOf[r]]
    BY DEF SegmentsOf
  <2> QED
    BY <2>1, RequestFacts
<1>3. ASSUME NEW q \in Request, NEW r \in Request, KeyOf[q] = KeyOf[r]
      PROVE  Store!Elements(SegmentsOf[q]) = Store!Elements(SegmentsOf[r])
  BY <1>3, RequestFacts, KeysTellTriples DEF P!Elements, Store!Elements
<1> QED
  BY <1>1, <1>2, <1>3, RequestFacts DEF Store!RequestAssumption, NoneTwice

-----------------------------------------------------------------------------
(* Store and P instantiate one module, JobStore, so their definitions say  *)
(* the same; what is proved of P's store is said of Store's below.         *)
LEMMA Assumed == P!RequestAssumption /\ P!StageAssumption
<1>1. P!RequestAssumption <=> Store!RequestAssumption
  BY DEF P!RequestAssumption, Store!RequestAssumption, P!Elements, Store!Elements
<1> QED
  BY <1>1, ValidatorsKeepTheAssumption, SubmissionAssumption DEF P!StageAssumption

LEMMA SameInit == Store!StoreInit => P!StoreInit
  BY DEF P!StoreInit, Store!StoreInit, P!EmptyDict, Store!EmptyDict

LEMMA SameCreate ==
    ASSUME NEW r, NEW j
    PROVE  /\ Store!CreateJob(r, j) <=> P!CreateJob(r, j)
           /\ Store!JoinJob(r, j) <=> P!JoinJob(r, j)
  BY DEF P!CreateJob, Store!CreateJob, P!JoinJob, Store!JoinJob, P!Put, Store!Put,
         P!NewJob, Store!NewJob, P!Elements, Store!Elements, P!storeVars, Store!storeVars,
         P!Pending, Store!Pending, P!Result, Store!Result, P!NoStage, Store!NoStage,
         P!NoError, Store!NoError

LEMMA SameTerminal ==
    ASSUME NEW job PROVE Store!IsTerminal(job) <=> P!IsTerminal(job)
  BY DEF P!IsTerminal, Store!IsTerminal, P!Status, Store!Status, P!Statuses,
         Store!Statuses, P!DeriveJobStatus, Store!DeriveJobStatus, P!OpenStatus,
         Store!OpenStatus, P!TerminalStatus, Store!TerminalStatus

LEMMA SameOpenJobs == Store!OpenJobs = P!OpenJobs
  BY SameTerminal DEF Store!OpenJobs, P!OpenJobs

LEMMA SameStep ==
    ASSUME NEW j, NEW s, NEW result, Store!StepSegment(j, s, result)
    PROVE  P!StepSegment(j, s, result)
<1>1. P!Follows(jobs[j].segments[s], result)
  BY DEF Store!StepSegment, P!Follows, Store!Follows, P!Pending, Store!Pending,
         P!RunningAt, Store!RunningAt, P!NotScheduled, Store!NotScheduled,
         P!Succeeded, Store!Succeeded, P!FailedAt, Store!FailedAt, P!Result,
         Store!Result, P!NoStage, Store!NoStage, P!NoError, Store!NoError,
         P!Stage, Store!Stage, P!FirstStage, Store!FirstStage
<1>2. P!UpdateSegment(j, s, result)
  BY SameTerminal DEF Store!StepSegment, P!UpdateSegment, Store!UpdateSegment,
         P!Updated, Store!Updated, P!Pop, Store!Pop
<1> QED
  BY <1>1, <1>2 DEF P!StepSegment

LEMMA OutcomeType == Outcome \subseteq P!SegmentResult
<1>1. 1 \in P!Stage /\ 0 = P!NoStage
  BY SubmissionAssumption DEF P!Stage, P!FirstStage, P!NoStage
<1> QED
  BY <1>1 DEF Outcome, P!SegmentResult, P!SegmentStatus, P!Error, P!NoError,
         Store!RunningAt, Store!NotScheduled, Store!Succeeded, Store!FailedAt,
         Store!Result, Store!NoStage, Store!NoError

(* A request, and a write, is a step of the store; everything else leaves  *)
(* the store alone.                                                        *)
LEMMA SubmissionIsStore ==
    ASSUME [SubmissionNext]_submissionVars PROVE [P!StoreNext]_P!storeVars
<1>1. ASSUME NEW r \in Raw, NEW j \in JobId, Submit(r, j) PROVE P!StoreNext
  <2>1. r \in Accepted /\ BodyOf[r] \in Request
    BY <1>1 DEF Submit, Request
  <2> QED
    BY <1>1, <2>1, SameCreate DEF Submit, P!StoreNext
<1>2. ASSUME WriteSegment PROVE P!StoreNext
  <2>0. PICK j \in DOMAIN jobs : \E s \in DOMAIN jobs[j].segments :
           \E result \in Outcome : Store!StepSegment(j, s, result)
    BY <1>2 DEF WriteSegment
  <2>1. PICK s \in DOMAIN jobs[j].segments, result \in Outcome :
           Store!StepSegment(j, s, result)
    BY <2>0
  <2>2. P!StepSegment(j, s, result) /\ result \in P!SegmentResult
    BY <2>1, SameStep, OutcomeType
  <2> QED
    BY <2>2 DEF P!StoreNext
<1>3. ASSUME NEW r \in Raw, Refuse(r) PROVE UNCHANGED P!storeVars
  BY <1>3 DEF Refuse, P!storeVars
<1>4. UNCHANGED submissionVars => UNCHANGED P!storeVars
  BY DEF submissionVars, P!storeVars
<1> QED
  BY <1>1, <1>2, <1>3, <1>4 DEF SubmissionNext

-----------------------------------------------------------------------------
(* The job of the last answer was made, now or earlier, for a body with the*)
(* key of the one that was answered.                                       *)
SubmissionInv ==
    /\ P!StoreInv /\ P!KeyedSegments
    /\ raw \in Accepted
    /\ answer # NoJob => answer \in DOMAIN jobs /\ jobs[answer].key = KeyOf[BodyOf[raw]]

LEMMA SubmissionInitInv == SubmissionInit => SubmissionInv
<1> SUFFICES ASSUME SubmissionInit PROVE SubmissionInv
  OBVIOUS
<1>1. P!StoreInit
  BY SameInit DEF SubmissionInit
<1>2. P!StoreInv
  BY <1>1, Assumed, P!StoreInitInv
<1>3. P!KeyedSegments
  BY <1>1, Assumed, P!KeyedSegmentsInit
<1> QED
  BY <1>2, <1>3 DEF SubmissionInit, SubmissionInv

LEMMA SubmissionStepInv ==
    SubmissionInv /\ [SubmissionNext]_submissionVars => SubmissionInv'
<1> SUFFICES ASSUME SubmissionInv, [SubmissionNext]_submissionVars
             PROVE  SubmissionInv'
  OBVIOUS
<1>1. [P!StoreNext]_P!storeVars
  BY SubmissionIsStore
<1>2. P!StoreInv'
  BY <1>1, Assumed, P!StoreStepInv DEF SubmissionInv
<1>3. P!KeyedSegments'
  BY <1>1, Assumed, P!KeyedSegmentsStep DEF SubmissionInv
<1>4. \A j \in DOMAIN jobs : j \in DOMAIN jobs' /\ jobs'[j].key = jobs[j].key
  BY <1>1, Assumed, P!StoreFrame DEF SubmissionInv
<1>5. ASSUME NEW r \in Raw, Refuse(r) PROVE SubmissionInv'
  BY <1>2, <1>3, <1>5 DEF Refuse, SubmissionInv
<1>6. ASSUME NEW r \in Raw, NEW j \in JobId, Submit(r, j) PROVE SubmissionInv'
  <2>1. r \in Accepted /\ raw' = r /\ answer' = j
    BY <1>6 DEF Submit
  <2>2. CASE P!CreateJob(BodyOf[r], j)
    <3>1. j \in DOMAIN jobs' /\ jobs'[j].key = KeyOf[BodyOf[r]]
      BY <2>2 DEF P!CreateJob, P!Put, P!NewJob
    <3> QED
      BY <1>2, <1>3, <2>1, <3>1 DEF SubmissionInv
  <2>3. CASE P!JoinJob(BodyOf[r], j)
    <3>1. KeyOf[BodyOf[r]] \in DOMAIN active /\ j = active[KeyOf[BodyOf[r]]]
      BY <2>3 DEF P!JoinJob
    <3>2. j \in DOMAIN jobs /\ jobs[j].key = KeyOf[BodyOf[r]]
      BY <3>1 DEF SubmissionInv, P!StoreInv, P!IndexIsTheOpenJobs, P!OpenJobs
    <3> QED
      BY <1>2, <1>3, <1>4, <2>1, <3>2 DEF SubmissionInv
  <2> QED
    BY <1>6, <2>2, <2>3, SameCreate DEF Submit
<1>7. ASSUME WriteSegment PROVE SubmissionInv'
  BY <1>2, <1>3, <1>4, <1>7 DEF WriteSegment, SubmissionInv
<1>8. ASSUME UNCHANGED submissionVars PROVE SubmissionInv'
  BY <1>2, <1>3, <1>8 DEF submissionVars, SubmissionInv
<1> QED
  BY <1>5, <1>6, <1>7, <1>8 DEF SubmissionNext

LEMMA SubmissionInductive == SubmissionSpec => []SubmissionInv
  BY SubmissionInitInv, SubmissionStepInv, PTL DEF SubmissionSpec

(* The job of an answer has the segments of the body that was answered.    *)
LEMMA AnsweredSegments ==
    ASSUME SubmissionInv, answer # NoJob
    PROVE  /\ BodyOf[raw] \in Request
           /\ DOMAIN jobs[answer].segments = Triples(BodyOf[raw])
<1>1. BodyOf[raw] \in Request
  BY DEF SubmissionInv, Request
<1> QED
  BY <1>1, RequestFacts DEF SubmissionInv, P!KeyedSegments

(* Whatever order, blanks or repetitions a request is written with, and    *)
(* whether its job was created for it or joined, the caller is answered    *)
(* with a job of exactly the triples it named (models.py:120).             *)
THEOREM AnsweredWithTheWork == SubmissionSpec => []AnswerIsTheWorkAskedFor
<1>1. SubmissionInv => AnswerIsTheWorkAskedFor
  BY AnsweredSegments DEF AnswerIsTheWorkAskedFor
<1> QED
  BY <1>1, SubmissionInductive, PTL

(* Open jobs of the same work have bodies of one key, and the index holds  *)
(* one open job under a key: comparing keys is comparing sets of segments, *)
(* in both directions (dedup.py:17).                                       *)
THEOREM NoWorkTwice == SubmissionSpec => []OneOpenJobPerWork
<1>1. SubmissionInv => OneOpenJobPerWork
  <2> SUFFICES ASSUME SubmissionInv, NEW i \in P!OpenJobs, NEW j \in P!OpenJobs,
                      DOMAIN jobs[i].segments = DOMAIN jobs[j].segments
               PROVE  i = j
    BY SameOpenJobs DEF OneOpenJobPerWork
  <2>1. i \in DOMAIN jobs /\ j \in DOMAIN jobs
    BY DEF P!OpenJobs
  <2>2. jobs[i].key \in P!DedupKey /\ jobs[j].key \in P!DedupKey
    BY <2>1 DEF SubmissionInv, P!StoreInv, P!StoreTypeOK, P!Job
  <2>3. PICK q \in Request : KeyOf[q] = jobs[i].key
    BY <2>2 DEF P!DedupKey
  <2>4. PICK r \in Request : KeyOf[r] = jobs[j].key
    BY <2>2 DEF P!DedupKey
  <2>5. /\ DOMAIN jobs[i].segments = Triples(q)
        /\ DOMAIN jobs[j].segments = Triples(r)
    BY <2>1, <2>3, <2>4, RequestFacts DEF SubmissionInv, P!KeyedSegments
  <2>6. jobs[i].key = jobs[j].key
    BY <2>3, <2>4, <2>5, KeysTellTriples
  <2> QED
    BY <2>6 DEF SubmissionInv, P!StoreInv, P!IndexIsTheOpenJobs
<1> QED
  BY <1>1, SubmissionInductive, PTL

(* No job has more segments than the cap (models.py:69), and segment_keys  *)
(* gives the scheduler each of them once.                                  *)
THEOREM FanOutBounded == SubmissionSpec => []FanOutIsBounded
<1>1. SubmissionInv => FanOutIsBounded
  <2> SUFFICES ASSUME SubmissionInv, answer # NoJob
               PROVE  LET segments == DOMAIN jobs[answer].segments IN
                      /\ Cardinality(segments) <= MaxSegmentsPerRequest
                      /\ Len(SegmentsOf[BodyOf[raw]]) = Cardinality(segments)
    BY DEF FanOutIsBounded
  <2> DEFINE body == BodyOf[raw]
             keys == SegmentsOf[body]
             T == Name \X Name \X Name
  <2>1. body \in Request /\ DOMAIN jobs[answer].segments = Triples(body)
    BY AnsweredSegments
  <2> HIDE DEF body
  <2>2. /\ keys \in Seq(T) /\ NoneTwice(keys) /\ Len(keys) <= MaxSegmentsPerRequest
        /\ P!Elements(keys) = Triples(body)
    BY <2>1, RequestFacts
  <2> HIDE DEF keys, T
  <2>3. /\ DOMAIN keys = 1 .. Len(keys) /\ Len(keys) \in Nat
        /\ keys = [i \in 1 .. Len(keys) |-> keys[i]]
    BY <2>2
  <2>4. \A i \in 1 .. Len(keys) : keys[i] \in P!Elements(keys)
    BY <2>3 DEF P!Elements
  <2>5. keys \in Bijection(1 .. Len(keys), P!Elements(keys))
    BY <2>2, <2>3, <2>4 DEF Bijection, Injection, Surjection, IsInjective, NoneTwice, P!Elements
  <2>6. Cardinality(P!Elements(keys)) = Len(keys)
    BY <2>3, <2>5, FS_CountingElements DEF ExistsBijection
  <2> QED
    BY <2>1, <2>2, <2>6 DEF keys, body
<1> QED
  BY <1>1, SubmissionInductive, PTL
=============================================================================
