-------------------------- MODULE OperatorAppProofs --------------------------
(***************************************************************************)
(* The operator's tab for any wallets, calls, slider, packing and bounds.  *)
(* First the packing: decrypt is a fold over the bytes and the weights are *)
(* defined by recursion, so that decrypt undoes encryptThreshold is proved *)
(* by induction.  Then what is proved of PolicyClient and SwigDelegation   *)
(* is carried over to the client and the exits of the tab, and the pages   *)
(* are followed from step to step: what the policy page awaits and shows,  *)
(* what the audit page's subscription has put into the table, and that     *)
(* sorting the table neither loses nor repeats a row.                      *)
(***************************************************************************)
EXTENDS OperatorApp, FiniteSetTheorems, WellFoundedInduction, TLAPS

-----------------------------------------------------------------------------
(* Counting up.                                                            *)

(* A set of numbers that holds 0, and n + 1 with n, holds them all: the    *)
(* library's NatInduction for a predicate that is given as a set.          *)
LEMMA SetInduction ==
  ASSUME NEW T \in SUBSET Nat, 0 \in T, \A n \in T : n + 1 \in T
  PROVE  T = Nat
<1> DEFINE R == OpToRel(<, Nat)
<1>1. IsWellFoundedOn(R, Nat)
  BY NatLessThanWellFounded
<1>2. \A x, y \in Nat : x < y => <<x, y>> \in R
  BY DEF OpToRel
<1>3. SUFFICES ASSUME Nat \ T # {} PROVE FALSE
  OBVIOUS
<1> HIDE DEF R
<1>4. PICK n \in Nat \ T : \A y \in Nat \ T : ~ (<<y, n>> \in R)
  BY <1>1, <1>3, WFMin
<1>5. n # 0 /\ n - 1 \in Nat /\ n - 1 < n
  BY <1>4
<1>6. n - 1 \in T
  <2>1. <<n - 1, n>> \in R
    BY <1>2, <1>4, <1>5
  <2>2. QED BY <1>4, <1>5, <2>1
<1>7. (n - 1) + 1 \in T
  BY <1>6
<1>8. QED BY <1>4, <1>7

-----------------------------------------------------------------------------
(* Packing and unpacking a number.                                         *)

(* Quotient and remainder are the only ones.                               *)
LEMMA DivisionIsUnique ==
  ASSUME NEW m \in Nat \ {0}, NEW q \in Nat, NEW r \in Nat, r < m
  PROVE  (q * m + r) % m = r
<1> DEFINE n == q * m + r
           p == n \div m
<1>1. n \in Nat /\ p \in Nat /\ n % m \in Nat /\ n % m < m /\ n = p * m + (n % m)
  OBVIOUS
<1> HIDE DEF p
<1>2. CASE p > q
  <2>1. PICK e \in Nat \ {0} : p = q + e
    <3>1. p - q \in Nat \ {0} /\ p = q + (p - q)
      BY <1>1, <1>2
    <3>2. QED BY <3>1
  <2>2. p * m = q * m + e * m /\ e * m >= m
    BY <2>1
  <2>3. QED BY <1>1, <2>2
<1>3. CASE p < q
  <2>1. PICK e \in Nat \ {0} : q = p + e
    <3>1. q - p \in Nat \ {0} /\ q = p + (q - p)
      BY <1>1, <1>3
    <3>2. QED BY <3>1
  <2>2. q * m = p * m + e * m /\ e * m >= m
    BY <1>1, <2>1
  <2>3. QED BY <1>1, <2>2
<1>4. CASE p = q
  BY <1>1, <1>4
<1>5. QED BY <1>1, <1>2, <1>3, <1>4

(* One more digit of a number.                                             *)
LEMMA NextDigit ==
  ASSUME NEW n \in Nat, NEW b \in Nat \ {0}, NEW w \in Nat \ {0}
  PROVE  n % (b * w) = (n % w) + ((n \div w) % b) * w
<1> DEFINE q == n \div w
           r == n % w
           p == q \div b
           d == q % b
<1>1. q \in Nat /\ r \in Nat /\ r < w /\ n = q * w + r
  OBVIOUS
<1> HIDE DEF q, r
<1>2. p \in Nat /\ d \in Nat /\ d < b /\ q = p * b + d
  BY <1>1
<1> HIDE DEF p, d
<1>3. b * w \in Nat \ {0} /\ d * w + r \in Nat
  BY <1>1, <1>2
<1>4. d * w + r < b * w
  <2>1. PICK e \in Nat : b = d + 1 + e
    <3>1. b - d - 1 \in Nat /\ b = d + 1 + (b - d - 1)
      BY <1>2
    <3>2. QED BY <3>1
  <2>2. b * w = d * w + w + e * w /\ e * w >= 0
    BY <1>2, <2>1
  <2>3. QED BY <1>1, <1>2, <2>2
<1>5. n = p * (b * w) + (d * w + r)
  BY <1>1, <1>2
<1>6. n % (b * w) = d * w + r
  BY <1>2, <1>3, <1>4, <1>5, DivisionIsUnique
<1>7. QED BY <1>1, <1>2, <1>6 DEF q, r, d

(* Weight is the function its definition describes.                        *)
LEMMA WeightDefined ==
  Weight = [k \in 0 .. Width |-> IF k = 0 THEN 1 ELSE Base * Weight[k - 1]]
<1> DEFINE IsWeight(n, W) == W = [k \in 0 .. n |-> IF k = 0 THEN 1 ELSE Base * W[k - 1]]
           T == {n \in Nat : \E W : IsWeight(n, W)}
<1>1. 0 \in T
  <2>1. IsWeight(0, [k \in 0 .. 0 |-> 1])
    OBVIOUS
  <2>2. QED BY <2>1
<1>2. ASSUME NEW n \in T PROVE n + 1 \in T
  <2>1. PICK W : IsWeight(n, W)
    OBVIOUS
  <2> DEFINE V == [k \in 0 .. n + 1 |-> IF k = n + 1 THEN Base * W[n] ELSE W[k]]
  <2>2. ASSUME NEW k \in 0 .. n + 1
        PROVE  V[k] = IF k = 0 THEN 1 ELSE Base * V[k - 1]
    <3>1. CASE k = n + 1
      <4>1. k # 0 /\ k - 1 = n /\ n \in 0 .. n + 1 /\ n # n + 1
        BY <3>1
      <4>2. V[k] = Base * W[n] /\ V[n] = W[n]
        BY <3>1, <4>1
      <4>3. QED BY <4>1, <4>2
    <3>2. CASE k = 0
      BY <2>1, <3>2
    <3>3. CASE k \in 1 .. n
      <4>1. k \in 0 .. n /\ k - 1 \in 0 .. n + 1 /\ k - 1 # n + 1 /\ k # n + 1 /\ k # 0
        BY <3>3
      <4>2. W[k] = Base * W[k - 1]
        BY <2>1, <4>1
      <4>3. V[k] = W[k] /\ V[k - 1] = W[k - 1]
        BY <4>1
      <4>4. QED BY <4>1, <4>2, <4>3
    <3>4. QED BY <3>1, <3>2, <3>3
  <2>3. IsWeight(n + 1, V)
    BY <2>2
  <2>4. \E W2 : IsWeight(n + 1, W2)
    <3> HIDE DEF IsWeight, V
    <3> QED BY <2>3
  <2>5. QED BY <2>4
<1>3. Width \in T
  BY <1>1, <1>2, SetInduction, LayoutAssumption
<1>4. \E W : IsWeight(Width, W)
  BY <1>3
<1>5. Weight = CHOOSE W : IsWeight(Width, W)
  BY DEF Weight
<1>6. IsWeight(Width, Weight)
  <2> HIDE DEF IsWeight
  <2> QED BY <1>4, <1>5
<1>7. QED BY <1>6

(* The weights are positive, each Base times the one before it.            *)
LEMMA WeightGrows ==
  /\ Weight[0] = 1
  /\ \A k \in 0 .. Width : Weight[k] \in Nat \ {0}
  /\ \A k \in 0 .. Width - 1 : Weight[k + 1] = Base * Weight[k]
<1> DEFINE T == {n \in Nat : n <= Width => Weight[n] \in Nat \ {0}}
<1>1. 0 \in 0 .. Width /\ Weight[0] = 1
  BY WeightDefined, LayoutAssumption
<1>2. ASSUME NEW k \in 0 .. Width - 1 PROVE Weight[k + 1] = Base * Weight[k]
  <2>1. k + 1 \in 0 .. Width /\ k + 1 # 0 /\ (k + 1) - 1 = k
    BY LayoutAssumption
  <2>2. QED BY <2>1, WeightDefined
<1>3. ASSUME NEW n \in T PROVE n + 1 \in T
  <2>1. CASE n + 1 <= Width
    <3>1. n \in 0 .. Width - 1 /\ Weight[n] \in Nat \ {0} /\ Base \in Nat \ {0}
      BY <2>1, LayoutAssumption
    <3>2. \A a, b \in Nat \ {0} : a * b \in Nat \ {0}
      OBVIOUS
    <3>3. Weight[n + 1] = Base * Weight[n]
      BY <1>2, <3>1
    <3>4. Base * Weight[n] \in Nat \ {0}
      BY <3>1, <3>2
    <3>5. QED BY <3>3, <3>4
  <2>2. CASE ~ (n + 1 <= Width)
    BY <2>2
  <2>3. QED BY <2>1, <2>2
<1>4. T \in SUBSET Nat /\ 0 \in T
  BY <1>1
<1>5. T = Nat
  <2> HIDE DEF T
  <2> QED BY <1>3, <1>4, SetInduction
<1>6. \A k \in 0 .. Width : k \in T /\ k <= Width
  BY <1>5, LayoutAssumption
<1>7. QED BY <1>1, <1>2, <1>6

-----------------------------------------------------------------------------
(* decrypt adds up the bytes in whatever order; the sums up to a position  *)
(* add them up in theirs.                                                  *)
Places == 0 .. Width - 1
PartialSums(f, s) ==
  CHOOSE P \in [0 .. Width -> Nat] :
    /\ P[0] = 0
    /\ \A k \in Places : P[k + 1] = P[k] + (IF k \in s THEN f[k] ELSE 0)

(* There are such sums.                                                    *)
LEMMA PartialSumsExist ==
  ASSUME NEW f \in [Places -> Nat], NEW s
  PROVE  /\ PartialSums(f, s) \in [0 .. Width -> Nat]
         /\ PartialSums(f, s)[0] = 0
         /\ \A k \in Places :
              PartialSums(f, s)[k + 1] = PartialSums(f, s)[k] + (IF k \in s THEN f[k] ELSE 0)
<1> DEFINE c(k) == IF k \in s THEN f[k] ELSE 0
           Sums(n, P) == P[0] = 0 /\ \A k \in 0 .. n - 1 : P[k + 1] = P[k] + c(k)
           T == {n \in Nat : n <= Width => \E P \in [0 .. n -> Nat] : Sums(n, P)}
<1>1. 0 \in T
  <2>1. [k \in 0 .. 0 |-> 0] \in [0 .. 0 -> Nat] /\ Sums(0, [k \in 0 .. 0 |-> 0])
    OBVIOUS
  <2>2. \E P \in [0 .. 0 -> Nat] : Sums(0, P)
    <3> HIDE DEF Sums
    <3> QED BY <2>1
  <2>3. QED BY <2>2
<1>2. ASSUME NEW n \in T PROVE n + 1 \in T
  <2>1. SUFFICES ASSUME n + 1 <= Width PROVE \E P \in [0 .. n + 1 -> Nat] : Sums(n + 1, P)
    OBVIOUS
  <2>2. PICK P \in [0 .. n -> Nat] : Sums(n, P)
    BY <2>1, LayoutAssumption
  <2>3. n \in Places /\ c(n) \in Nat /\ P[n] \in Nat
    BY <2>1, <2>2, LayoutAssumption DEF Places
  <2> HIDE DEF c
  <2> DEFINE Q == [k \in 0 .. n + 1 |-> IF k = n + 1 THEN P[n] + c(n) ELSE P[k]]
  <2>4. Q \in [0 .. n + 1 -> Nat]
    BY <2>3
  <2>5. Q[0] = 0
    BY <2>2
  <2>6. ASSUME NEW k \in 0 .. n PROVE Q[k + 1] = Q[k] + c(k)
    <3>1. CASE k = n
      BY <2>3, <3>1
    <3>2. CASE k \in 0 .. n - 1
      <4>1. P[k + 1] = P[k] + c(k)
        BY <2>2, <3>2
      <4>2. Q[k + 1] = P[k + 1] /\ Q[k] = P[k]
        BY <3>2
      <4>3. QED BY <4>1, <4>2
    <3>3. QED BY <3>1, <3>2
  <2>7. Sums(n + 1, Q)
    BY <2>5, <2>6
  <2>8. QED
    <3> HIDE DEF Sums, Q
    <3> QED BY <2>4, <2>7
<1>3. T \in SUBSET Nat
  OBVIOUS
<1>4. Width \in T
  <2> HIDE DEF T
  <2> QED BY <1>1, <1>2, <1>3, SetInduction, LayoutAssumption
<1>5. \E P \in [0 .. Width -> Nat] : Sums(Width, P)
  BY <1>4
<1>6. PartialSums(f, s) = CHOOSE P \in [0 .. Width -> Nat] : Sums(Width, P)
  BY DEF PartialSums, Places
<1>7. PartialSums(f, s) \in [0 .. Width -> Nat] /\ Sums(Width, PartialSums(f, s))
  <2> HIDE DEF Sums
  <2> QED BY <1>5, <1>6
<1>8. QED BY <1>7 DEF Places

(* A place more in the set is a term more in every sum above it.           *)
LEMMA PartialSumsGrow ==
  ASSUME NEW f \in [Places -> Nat], NEW s, NEW x \in s \cap Places
  PROVE  PartialSums(f, s)[Width] = f[x] + PartialSums(f, s \ {x})[Width]
<1> DEFINE P == PartialSums(f, s)
           Q == PartialSums(f, s \ {x})
           T == {n \in Nat : n <= Width => P[n] = Q[n] + (IF x < n THEN f[x] ELSE 0)}
<1>1. /\ P \in [0 .. Width -> Nat] /\ P[0] = 0
      /\ \A k \in Places : P[k + 1] = P[k] + (IF k \in s THEN f[k] ELSE 0)
  BY PartialSumsExist
<1>2. /\ Q \in [0 .. Width -> Nat] /\ Q[0] = 0
      /\ \A k \in Places : Q[k + 1] = Q[k] + (IF k \in s \ {x} THEN f[k] ELSE 0)
  BY PartialSumsExist
<1>3. x \in Nat /\ x < Width /\ f[x] \in Nat
  BY LayoutAssumption DEF Places
<1> HIDE DEF P, Q
<1>4. 0 \in T
  BY <1>1, <1>2, <1>3
<1>5. ASSUME NEW n \in T PROVE n + 1 \in T
  <2>1. SUFFICES ASSUME n + 1 <= Width
                 PROVE  P[n + 1] = Q[n + 1] + (IF x < n + 1 THEN f[x] ELSE 0)
    OBVIOUS
  <2>2. /\ n \in Places /\ n \in Nat /\ P[n] \in Nat /\ Q[n] \in Nat /\ f[n] \in Nat
        /\ P[n] = Q[n] + (IF x < n THEN f[x] ELSE 0)
    BY <1>1, <1>2, <2>1, LayoutAssumption DEF Places
  <2>3. /\ P[n + 1] = P[n] + (IF n \in s THEN f[n] ELSE 0)
        /\ Q[n + 1] = Q[n] + (IF n \in s \ {x} THEN f[n] ELSE 0)
    BY <1>1, <1>2, <2>2
  <2>4. CASE n = x
    BY <1>3, <2>2, <2>3, <2>4
  <2>5. CASE n # x
    <3>1. (x < n + 1) <=> (x < n)
      BY <1>3, <2>2, <2>5
    <3>2. n \in s <=> n \in s \ {x}
      BY <2>5
    <3>3. QED BY <1>3, <2>2, <2>3, <3>1, <3>2
  <2>6. QED BY <2>4, <2>5
<1>6. T \in SUBSET Nat
  OBVIOUS
<1>7. Width \in T
  <2> HIDE DEF T
  <2> QED BY <1>4, <1>5, <1>6, SetInduction, LayoutAssumption
<1>8. P[Width] = Q[Width] + f[x] /\ Q[Width] \in Nat
  BY <1>2, <1>3, <1>7, LayoutAssumption
<1>9. QED BY <1>3, <1>8 DEF P, Q

(* Nothing adds up to nothing.                                             *)
LEMMA PartialSumsOfNone ==
  ASSUME NEW f \in [Places -> Nat]
  PROVE  PartialSums(f, {})[Width] = 0
<1> DEFINE P == PartialSums(f, {})
           T == {n \in Nat : n <= Width => P[n] = 0}
<1>1. /\ P[0] = 0
      /\ \A k \in Places : P[k + 1] = P[k] + (IF k \in {} THEN f[k] ELSE 0)
  BY PartialSumsExist
<1> HIDE DEF P
<1>2. ASSUME NEW n \in T PROVE n + 1 \in T
  <2>1. SUFFICES ASSUME n + 1 <= Width PROVE P[n + 1] = 0
    OBVIOUS
  <2>2. n \in Places /\ P[n] = 0
    BY <2>1, LayoutAssumption DEF Places
  <2>3. QED BY <1>1, <2>2
<1>3. T \in SUBSET Nat /\ 0 \in T
  BY <1>1
<1>4. Width \in T
  <2> HIDE DEF T
  <2> QED BY <1>2, <1>3, SetInduction, LayoutAssumption
<1>5. QED BY <1>4 DEF P

(* Hence the order in which decrypt takes the bytes does not matter.       *)
LEMMA DecryptSums ==
  ASSUME NEW ct, \A k \in Places : ct[k] \in Nat
  PROVE  decrypt(ct) = PartialSums([k \in Places |-> ct[k] * Weight[k]], Places)[Width]
<1> DEFINE f == [k \in Places |-> ct[k] * Weight[k]]
           Step(I, s) == IF s = {} THEN 0
                         ELSE ct[CHOOSE x \in s : TRUE] * Weight[CHOOSE x \in s : TRUE]
                              + I[s \ {CHOOSE x \in s : TRUE}]
           Adds(I) == I = [s \in SUBSET Places |-> Step(I, s)]
           G == [s \in SUBSET Places |-> PartialSums(f, s)[Width]]
<1>1. f \in [Places -> Nat]
  <2>1. \A k \in Places : Weight[k] \in Nat
    BY WeightGrows, LayoutAssumption DEF Places
  <2>2. \A a, b \in Nat : a * b \in Nat
    OBVIOUS
  <2>3. QED BY <2>1, <2>2
<1>2. decrypt(ct) = (CHOOSE I : Adds(I))[Places]
  BY DEF decrypt, MapThenSumSet, MapThenFoldSet, Places
<1>3. ASSUME NEW s \in SUBSET Places, s # {}
      PROVE  (CHOOSE x \in s : TRUE) \in s
  BY <1>3
<1>4. Adds(G)
  <2>1. ASSUME NEW s \in SUBSET Places PROVE G[s] = Step(G, s)
    <3>1. CASE s = {}
      <4> HIDE DEF f
      <4> QED BY <1>1, <3>1, PartialSumsOfNone
    <3>2. CASE s # {}
      <4> DEFINE x == CHOOSE x \in s : TRUE
      <4>1. x \in s \cap Places /\ s \ {x} \in SUBSET Places
        BY <1>3, <3>2
      <4>2. f[x] = ct[x] * Weight[x]
        BY <4>1
      <4>3. Step(G, s) = ct[x] * Weight[x] + G[s \ {x}]
        BY <3>2
      <4> HIDE DEF f, x, Step
      <4>4. PartialSums(f, s)[Width] = f[x] + PartialSums(f, s \ {x})[Width]
        BY <1>1, <4>1, PartialSumsGrow
      <4>5. QED BY <4>1, <4>2, <4>3, <4>4
    <3>3. QED BY <3>1, <3>2
  <2>2. G = [s \in SUBSET Places |-> Step(G, s)]
    <3> HIDE DEF Step, f
    <3> QED BY <2>1
  <2>3. QED BY <2>2
<1> DEFINE I == CHOOSE J : Adds(J)
<1>5. Adds(I)
  <2> HIDE DEF Adds, G
  <2> QED BY <1>4
<1> HIDE DEF I
<1> DEFINE T == {n \in Nat : \A s \in SUBSET Places :
                              IsFiniteSet(s) /\ Cardinality(s) = n => I[s] = G[s]}
<1>6. 0 \in T
  <2>1. \A s \in SUBSET Places : IsFiniteSet(s) /\ Cardinality(s) = 0 => s = {}
    BY FS_EmptySet
  <2>2. I[{}] = 0
    BY <1>5
  <2>3. G[{}] = 0
    <3>1. G[{}] = Step(G, {})
      BY <1>4
    <3>2. QED BY <3>1
  <2> HIDE DEF G
  <2>4. QED BY <2>1, <2>2, <2>3
<1>7. ASSUME NEW n \in T PROVE n + 1 \in T
  <2>1. SUFFICES ASSUME NEW s \in SUBSET Places, IsFiniteSet(s), Cardinality(s) = n + 1
                 PROVE  I[s] = G[s]
    <3> HIDE DEF G
    <3> QED OBVIOUS
  <2> DEFINE x == CHOOSE x \in s : TRUE
  <2>2. s # {}
    BY <2>1, FS_EmptySet
  <2>3. x \in s /\ s \ {x} \in SUBSET Places
    BY <1>3, <2>2
  <2>4. I[s] = ct[x] * Weight[x] + I[s \ {x}]
    <3>1. I[s] = Step(I, s)
      BY <1>5
    <3>2. QED BY <2>2, <3>1
  <2>5. G[s] = ct[x] * Weight[x] + G[s \ {x}]
    <3>1. G[s] = Step(G, s)
      <4> HIDE DEF Step, G
      <4> QED BY <1>4
    <3> HIDE DEF G
    <3>2. QED BY <2>2, <3>1
  <2> HIDE DEF x, G
  <2>6. IsFiniteSet(s \ {x}) /\ Cardinality(s \ {x}) = n
    BY <2>1, <2>3, FS_RemoveElement
  <2>7. I[s \ {x}] = G[s \ {x}]
    BY <2>3, <2>6
  <2>8. QED BY <2>4, <2>5, <2>7
<1>8. T \in SUBSET Nat
  OBVIOUS
<1>9. IsFiniteSet(Places) /\ Cardinality(Places) \in T
  <2>1. IsFiniteSet(Places)
    BY FS_Interval, LayoutAssumption DEF Places
  <2>2. Cardinality(Places) \in Nat
    BY <2>1, FS_CardinalityType
  <2> HIDE DEF T
  <2>3. QED BY <1>6, <1>7, <1>8, <2>1, <2>2, SetInduction
<1>10. I[Places] = G[Places]
  <2> HIDE DEF G
  <2> QED BY <1>9
<1>11. QED BY <1>2, <1>10 DEF I

(* What encryptThreshold packs, decrypt unpacks: for every number of the   *)
(* width, whatever the base.                                               *)
THEOREM DecryptInverts ==
  ASSUME NEW n \in u64
  PROVE  decrypt(encryptThreshold(n)) = n
<1> DEFINE ct == encryptThreshold(n)
           f == [k \in Places |-> ct[k] * Weight[k]]
           P == PartialSums(f, Places)
           T == {m \in Nat : m <= Width => P[m] = n % Weight[m]}
<1>1. n \in Nat /\ n < Weight[Width] /\ Weight[Width] \in Nat \ {0}
  BY WeightGrows, LayoutAssumption DEF u64
<1>2. ASSUME NEW k \in Places
      PROVE  /\ k \in 0 .. Width /\ Weight[k] \in Nat \ {0} /\ Weight[k + 1] = Base * Weight[k]
             /\ ct[k] = (n \div Weight[k]) % Base
             /\ ct[k] \in Nat /\ f[k] \in Nat /\ f[k] = ct[k] * Weight[k]
  <2>1. k \in 0 .. Width /\ k \in 0 .. CtLen - 1 /\ k < Width
    BY LayoutAssumption DEF Places
  <2>2. Weight[k] \in Nat \ {0} /\ Weight[k + 1] = Base * Weight[k]
    BY <2>1, WeightGrows DEF Places
  <2>3. ct[k] = (n \div Weight[k]) % Base
    BY <2>1 DEF encryptThreshold, Byte
  <2>4. n \div Weight[k] \in Nat
    BY <1>1, <2>2
  <2>5. ct[k] \in Nat
    BY <2>3, <2>4, LayoutAssumption
  <2>6. f[k] = ct[k] * Weight[k]
    OBVIOUS
  <2> HIDE DEF ct, f
  <2>7. \A a, b \in Nat : a * b \in Nat
    OBVIOUS
  <2>8. QED BY <2>1, <2>2, <2>3, <2>5, <2>6, <2>7
<1>3. f \in [Places -> Nat]
  <2> HIDE DEF ct
  <2> QED BY <1>2
<1>4. decrypt(ct) = P[Width]
  <2> HIDE DEF ct
  <2> QED BY <1>2, DecryptSums
<1> HIDE DEF ct, f
<1>5. /\ P[0] = 0
      /\ \A k \in Places : P[k + 1] = P[k] + (IF k \in Places THEN f[k] ELSE 0)
  BY <1>3, PartialSumsExist
<1> HIDE DEF P
<1>6. 0 \in T
  BY <1>1, <1>5, WeightGrows
<1>7. ASSUME NEW m \in T PROVE m + 1 \in T
  <2>1. SUFFICES ASSUME m + 1 <= Width PROVE P[m + 1] = n % Weight[m + 1]
    OBVIOUS
  <2>2. m \in Places /\ P[m] = n % Weight[m]
    BY <2>1, LayoutAssumption DEF Places
  <2>3. P[m + 1] = (n % Weight[m]) + ((n \div Weight[m]) % Base) * Weight[m]
    BY <1>2, <1>5, <2>2
  <2>4. n % (Base * Weight[m]) = (n % Weight[m]) + ((n \div Weight[m]) % Base) * Weight[m]
    <3>1. n \in Nat /\ Base \in Nat \ {0} /\ Weight[m] \in Nat \ {0}
      BY <1>1, <1>2, <2>2, LayoutAssumption
    <3>2. QED BY ONLY <3>1, NextDigit
  <2>5. QED BY <1>2, <2>2, <2>3, <2>4
<1>8. T \in SUBSET Nat
  OBVIOUS
<1>9. Width \in T
  <2> HIDE DEF T
  <2> QED BY <1>6, <1>7, <1>8, SetInduction, LayoutAssumption
<1>10. n % Weight[Width] = n
  BY <1>1, DivisionIsUnique
<1>11. QED BY <1>4, <1>9, <1>10, LayoutAssumption DEF ct

-----------------------------------------------------------------------------
(* The client.                                                             *)

AllSubmissions == {SubmissionOf(w, d) : w \in Wallets, d \in Drawdowns}

ClientProofs == INSTANCE PolicyClientProofs WITH
  Vaults <- Wallets, Equipped <- Calls, Submissions <- AllSubmissions

(* What the slider can be set to is packed into a string of bits with the  *)
(* tag behind it.                                                          *)
LEMMA Packed ==
  ASSUME NEW d \in Drawdowns
  PROVE  /\ encryptThreshold(d) \in [0 .. CtLen - 1 -> {0, 1}]
         /\ HasTag(encryptThreshold(d))
<1>1. d \in Nat
  BY DrawdownsAssumption, WeightGrows, LayoutAssumption DEF u64
<1>2. ASSUME NEW k \in 0 .. CtLen - 1 PROVE encryptThreshold(d)[k] \in {0, 1}
  <2>1. CASE k < Width
    <3>1. k \in 0 .. Width /\ Weight[k] \in Nat \ {0}
      BY <2>1, WeightGrows, LayoutAssumption
    <3>2. \A n \in Nat, m \in Nat \ {0} : (n \div m) % 2 \in {0, 1}
      OBVIOUS
    <3>3. Byte(d, k) \in {0, 1}
      BY <1>1, <3>1, <3>2, BitsAssumption DEF Byte
    <3>4. QED BY <2>1, <3>3 DEF encryptThreshold
  <2>2. CASE ~ (k < Width) /\ k < TagAt
    BY <2>2 DEF encryptThreshold
  <2>3. CASE ~ (k < Width) /\ ~ (k < TagAt)
    <3>1. k - TagAt \in 0 .. CtLen - TagAt - 1
      BY <2>3, LayoutAssumption
    <3>2. STUB[k - TagAt] \in 0 .. Base - 1
      BY <3>1, LayoutAssumption
    <3>3. STUB[k - TagAt] \in {0, 1}
      BY <3>2, BitsAssumption
    <3>4. QED BY <2>3, <3>3 DEF encryptThreshold
  <2>4. QED BY <2>1, <2>2, <2>3
<1>3. HasTag(encryptThreshold(d))
  BY LayoutAssumption DEF HasTag, encryptThreshold
<1>4. DOMAIN encryptThreshold(d) = 0 .. CtLen - 1
  BY DEF encryptThreshold
<1>5. encryptThreshold(d) = [k \in 0 .. CtLen - 1 |-> encryptThreshold(d)[k]]
  BY DEF encryptThreshold
<1>6. QED BY <1>2, <1>3, <1>5

(* What PolicyClient's theorems assume, from this module's assumptions.    *)
LEMMA ClientAssumed ==
  /\ Faults \subseteq ClientProofs!Fault
  /\ /\ AllSubmissions # {}
     /\ \A s \in AllSubmissions :
          /\ s.vault \in Wallets
          /\ s.ciphertext \in [DOMAIN s.ciphertext -> {0, 1}]
  /\ /\ CtLen \in Nat /\ HandleLen \in Nat /\ TagLen \in Nat \ {0}
     /\ StartTime \in Nat \ {0} /\ MaxTime \in Nat
     /\ MaxTxs \in Nat
<1>1. \A w \in Wallets, d \in Drawdowns :
        SubmissionOf(w, d).vault \in Wallets /\
        SubmissionOf(w, d).ciphertext \in [DOMAIN SubmissionOf(w, d).ciphertext -> {0, 1}]
  BY Packed DEF SubmissionOf
<1>2. AllSubmissions # {}
  BY WalletAssumption, DrawdownsAssumption DEF AllSubmissions
<1>3. Faults \subseteq ClientProofs!Fault
  BY ClientAssumption DEF ClientProofs!Fault
<1>4. \A s \in AllSubmissions :
        s.vault \in Wallets /\ s.ciphertext \in [DOMAIN s.ciphertext -> {0, 1}]
  BY <1>1 DEF AllSubmissions
<1>5. QED
  BY <1>2, <1>3, <1>4, ClientAssumption, BoundsAssumption, LayoutAssumption

(* The instance whose theorems are proved is the instance that runs: the   *)
(* same instructions ...                                                   *)
LEMMA SameInstructions ==
  /\ Client!Chain!Init <=> ClientProofs!Chain!Init
  /\ Client!AccountsTyped <=> ClientProofs!AccountsTyped
  /\ \A v, ct, h : Client!Chain!InitPolicy(v, ct, h) <=> ClientProofs!Chain!InitPolicy(v, ct, h)
  /\ \A v, s, ct, h :
       Client!Chain!UpdatePolicy(v, s, ct, h) <=> ClientProofs!Chain!UpdatePolicy(v, s, ct, h)
  /\ \A v : Client!Chain!RefuseInit(v) <=> ClientProofs!Chain!RefuseInit(v)
  /\ \A v, s : Client!Chain!RefuseUpdate(v, s) <=> ClientProofs!Chain!RefuseUpdate(v, s)
<1>1. \A ct, h, i : Client!Chain!Ones(ct, h, i) = ClientProofs!Chain!Ones(ct, h, i)
  BY DEF Client!Chain!Ones, ClientProofs!Chain!Ones, Client!Chain!ByteAt,
     ClientProofs!Chain!ByteAt
<1>2. \A S : Client!Chain!Cardinality(S) = ClientProofs!Chain!Cardinality(S)
  BY DEF Client!Chain!Cardinality, ClientProofs!Chain!Cardinality,
     Client!Chain!IsFiniteSet, ClientProofs!Chain!IsFiniteSet
<1>3. \A ct, h : Client!Chain!XorFold(ct, h) = ClientProofs!Chain!XorFold(ct, h)
  BY <1>1, <1>2 DEF Client!Chain!XorFold, ClientProofs!Chain!XorFold
<1>4. ASSUME NEW v, NEW ct, NEW h
      PROVE  Client!Chain!InitPolicy(v, ct, h) <=> ClientProofs!Chain!InitPolicy(v, ct, h)
  BY <1>3 DEF Client!Chain!InitPolicy, ClientProofs!Chain!InitPolicy
<1>5. \A v, s : Client!Chain!MayUpdate(v, s) <=> ClientProofs!Chain!MayUpdate(v, s)
  BY DEF Client!Chain!MayUpdate, ClientProofs!Chain!MayUpdate
<1>6. ASSUME NEW v, NEW s, NEW ct, NEW h
      PROVE  Client!Chain!UpdatePolicy(v, s, ct, h) <=>
               ClientProofs!Chain!UpdatePolicy(v, s, ct, h)
  BY <1>3, <1>5 DEF Client!Chain!UpdatePolicy, ClientProofs!Chain!UpdatePolicy
<1>7. \A v : Client!Chain!RefuseInit(v) <=> ClientProofs!Chain!RefuseInit(v)
  BY DEF Client!Chain!RefuseInit, ClientProofs!Chain!RefuseInit,
     Client!Chain!vars, ClientProofs!Chain!vars
<1>8. \A v, s : Client!Chain!RefuseUpdate(v, s) <=> ClientProofs!Chain!RefuseUpdate(v, s)
  BY <1>5 DEF Client!Chain!RefuseUpdate, ClientProofs!Chain!RefuseUpdate,
     Client!Chain!vars, ClientProofs!Chain!vars
<1>9. Client!Chain!Init <=> ClientProofs!Chain!Init
  BY DEF Client!Chain!Init, ClientProofs!Chain!Init, Client!Chain!Blank,
     ClientProofs!Chain!Blank
<1>10. Client!AccountsTyped <=> ClientProofs!AccountsTyped
  BY DEF Client!AccountsTyped, ClientProofs!AccountsTyped, Client!Account,
     ClientProofs!Account, Client!Bits, ClientProofs!Bits,
     Client!Bit, ClientProofs!Bit
<1>11. QED BY <1>4, <1>6, <1>7, <1>8, <1>9, <1>10

(* ... and the same actions of the client.                                 *)
LEMMA SameClient ==
  /\ \A c, s : Client!Begin(c, s) <=> ClientProofs!Begin(c, s)
  /\ \A c : /\ Client!Submit(c) <=> ClientProofs!Submit(c)
            /\ Client!ReadFails(c) <=> ClientProofs!ReadFails(c)
            /\ Client!Confirm(c) <=> ClientProofs!Confirm(c)
            /\ Client!Reject(c) <=> ClientProofs!Reject(c)
  /\ \A c, p, e : Client!Settled(c, p, e) <=> ClientProofs!Settled(c, p, e)
  /\ \A t : /\ Client!Land(t) <=> ClientProofs!Land(t)
            /\ Client!Drop(t) <=> ClientProofs!Drop(t)
  /\ Client!Tick <=> ClientProofs!Tick
<1> USE DEF Client!chainVars, ClientProofs!chainVars
<1>1. \A s : Client!Idle(s) = ClientProofs!Idle(s)
  BY DEF Client!Idle, ClientProofs!Idle
<1>2. \A c, p, e : Client!Settled(c, p, e) <=> ClientProofs!Settled(c, p, e)
  BY DEF Client!Settled, ClientProofs!Settled
<1>3. \A c, s : Client!Begin(c, s) <=> ClientProofs!Begin(c, s)
  BY <1>1 DEF Client!Begin, ClientProofs!Begin, Client!Busy, ClientProofs!Busy,
     Client!WellFormed, ClientProofs!WellFormed
<1>4. \A c : Client!Submit(c) <=> ClientProofs!Submit(c)
  BY DEF Client!Submit, ClientProofs!Submit, Client!KindFor, ClientProofs!KindFor
<1>5. \A c : /\ Client!ReadFails(c) <=> ClientProofs!ReadFails(c)
             /\ Client!Confirm(c) <=> ClientProofs!Confirm(c)
             /\ Client!Reject(c) <=> ClientProofs!Reject(c)
  BY <1>2 DEF Client!ReadFails, ClientProofs!ReadFails, Client!Confirm, ClientProofs!Confirm,
     Client!Reject, ClientProofs!Reject
<1>6. \A tx : Client!Signed(tx) <=> ClientProofs!Signed(tx)
  BY DEF Client!Signed, ClientProofs!Signed
<1>7. Client!ArciumHandle = ClientProofs!ArciumHandle
  BY DEF Client!ArciumHandle, ClientProofs!ArciumHandle
<1>8. \A tx : /\ Client!Effective(tx) <=> ClientProofs!Effective(tx)
              /\ Client!Ineffective(tx) <=> ClientProofs!Ineffective(tx)
  BY <1>6, <1>7, SameInstructions DEF Client!Effective, ClientProofs!Effective,
     Client!Ineffective, ClientProofs!Ineffective
<1>9. \A t : Client!Land(t) <=> ClientProofs!Land(t)
  BY <1>8 DEF Client!Land, ClientProofs!Land
<1>10. \A t : Client!Drop(t) <=> ClientProofs!Drop(t)
  BY DEF Client!Drop, ClientProofs!Drop
<1>11. Client!Tick <=> ClientProofs!Tick
  BY DEF Client!Tick, ClientProofs!Tick, Client!Chain!Tick, ClientProofs!Chain!Tick
<1>12. QED BY <1>2, <1>3, <1>4, <1>5, <1>9, <1>10, <1>11

(* Each step is one of the client's, or none to it, or the wallet does not *)
(* sign: the prompt is the tab's, the client has no such failure.          *)
LEMMA StepOfClient ==
  ASSUME wallet \in Wallets \cup {NoWallet}, [Next]_vars
  PROVE  \/ [ClientProofs!Next]_(ClientProofs!vars)
         \/ \E c \in Calls : NotSigned(c)
<1>1. ASSUME NEW c \in Calls, NEW d \in Drawdowns, onSubmit(c, d) PROVE ClientProofs!Next
  <2>1. ClientProofs!Begin(c, SubmissionOf(wallet, d))
    BY <1>1, SameClient DEF onSubmit
  <2>2. SubmissionOf(wallet, d) \in AllSubmissions
    BY <1>1 DEF onSubmit, CanSubmit, AllSubmissions
  <2>3. QED BY <2>1, <2>2 DEF ClientProofs!Next
<1>2. ASSUME NEW c \in Calls, Sign(c) \/ Proposed(c) PROVE ClientProofs!Next
  BY <1>2, SameClient DEF Sign, Proposed, ClientProofs!Next
<1>3. ASSUME NEW c \in Calls, Failed(c), ~ NotSigned(c) PROVE ClientProofs!Next
  BY <1>3, SameClient DEF Failed, Failure, ClientProofs!Next
<1>4. ASSUME NEW t \in DOMAIN txs, LandPolicy(t) PROVE ClientProofs!Next
  BY <1>4, SameClient DEF LandPolicy, ClientProofs!Next
<1>5. ASSUME Tick PROVE ClientProofs!Next
  BY <1>5, SameClient DEF Tick, ClientProofs!Next
<1>6. ASSUME NEW w \in Wallets, Exit(w) PROVE UNCHANGED policyVars
  BY <1>6 DEF Exit, Exits!Execute, policyVars
<1>7. ASSUME NEW l \in listeners, NEW i \in DOMAIN events, Deliver(l, i) PROVE UNCHANGED policyVars
  BY <1>7 DEF Deliver
<1>8. ASSUME NEW w \in Wallets \cup {NoWallet}, SetWallet(w) PROVE UNCHANGED policyVars
  BY <1>8 DEF SetWallet
<1>9. ASSUME Mount \/ Unmount \/ UNCHANGED vars PROVE UNCHANGED policyVars
  BY <1>9 DEF Mount, Unmount, vars
<1>10. UNCHANGED policyVars => UNCHANGED ClientProofs!vars
  BY DEF policyVars, ClientProofs!vars
<1>11. QED
  BY <1>1, <1>2, <1>3, <1>4, <1>5, <1>6, <1>7, <1>8, <1>9, <1>10 DEF Next

(* Whatever the user does, what is proved of the client stays.             *)
LEMMA ClientPreserved ==
  ASSUME ClientProofs!IInv, wallet \in Wallets \cup {NoWallet}, [Next]_vars
  PROVE  ClientProofs!IInv'
<1>1. Faults \subseteq ClientProofs!Fault
  BY ClientAssumed
<1>2. /\ AllSubmissions # {}
      /\ \A s \in AllSubmissions :
           /\ s.vault \in Wallets
           /\ s.ciphertext \in [DOMAIN s.ciphertext -> {0, 1}]
  BY ClientAssumed
<1>3. /\ CtLen \in Nat /\ HandleLen \in Nat /\ TagLen \in Nat \ {0}
      /\ StartTime \in Nat \ {0} /\ MaxTime \in Nat
      /\ MaxTxs \in Nat
  BY ClientAssumed
<1>4. ClientProofs!TypeOK /\ ClientProofs!LogInv /\ ClientProofs!TxsWellFormed
  BY DEF ClientProofs!IInv, ClientProofs!LogInv
<1>5. CASE [ClientProofs!Next]_(ClientProofs!vars)
  <2>1. ClientProofs!TypeOK'
    BY <1>1, <1>2, <1>3, <1>4, <1>5, ClientProofs!TypePreserved
  <2>2. ClientProofs!LogInv'
    BY <1>1, <1>2, <1>3, <1>5, ClientProofs!LogPreserved
  <2>3. QED BY <2>1, <2>2 DEF ClientProofs!IInv
<1>6. ASSUME NEW c \in Calls, NotSigned(c) PROVE ClientProofs!IInv'
  <2>1. UNCHANGED <<clock, exists, policy, txs, landed>>
    BY <1>6 DEF NotSigned
  <2>2. ClientProofs!Settled(c, "rejected", "OnchainRejection")
    BY <1>6, SameClient DEF NotSigned
  <2>3. "OnchainRejection" \in ClientProofs!Error /\ "rejected" \in {"resolved", "rejected"}
    BY DEF ClientProofs!Error
  <2>4. /\ calls' \in [Calls -> ClientProofs!Call]
        /\ calls'[c].phase = "rejected"
        /\ calls'[c].tx = calls[c].tx /\ calls'[c].sub = calls[c].sub
        /\ \A d \in Calls : d # c => calls'[d] = calls[d]
    BY <1>1, <1>2, <1>3, <1>4, <2>2, <2>3, ClientProofs!SettledKeeps
  <2>5. ClientProofs!TypeOK'
    <3>1. ClientProofs!AccountsTyped'
      BY <1>4, <2>1 DEF ClientProofs!TypeOK, ClientProofs!AccountsTyped, ClientProofs!Account,
         ClientProofs!Bits, ClientProofs!Bit
    <3>2. \A e \in Calls : calls'[e].tx <= Len(txs')
      BY <1>4, <2>1, <2>4 DEF ClientProofs!TypeOK
    <3>3. QED BY <1>4, <2>1, <2>4, <3>1, <3>2 DEF ClientProofs!TypeOK
  <2>6. ClientProofs!LogInv'
    BY <1>1, <1>2, <1>3, <1>4, <2>1, <2>4, ClientProofs!OneCallMoves
  <2>7. QED BY <2>5, <2>6 DEF ClientProofs!IInv
<1>7. QED BY <1>5, <1>6, StepOfClient

(* It holds of a tab that has just been opened.                            *)
LEMMA ClientStarts == Init => ClientProofs!IInv
<1>1. Faults \subseteq ClientProofs!Fault
  BY ClientAssumed
<1>2. /\ AllSubmissions # {}
      /\ \A s \in AllSubmissions :
           /\ s.vault \in Wallets
           /\ s.ciphertext \in [DOMAIN s.ciphertext -> {0, 1}]
  BY ClientAssumed
<1>3. /\ CtLen \in Nat /\ HandleLen \in Nat /\ TagLen \in Nat \ {0}
      /\ StartTime \in Nat \ {0} /\ MaxTime \in Nat
      /\ MaxTxs \in Nat
  BY ClientAssumed
<1>4. Init => ClientProofs!Init
  <2> DEFINE s0 == CHOOSE s \in {SubmissionOf(w, d) : w \in Wallets, d \in Drawdowns} : TRUE
  <2> SUFFICES ASSUME Init PROVE ClientProofs!Init
    OBVIOUS
  <2>1. /\ ClientProofs!Chain!Init
        /\ calls = [c \in Calls |-> Client!Idle(s0)]
        /\ txs = <<>> /\ landed = <<>>
    BY SameInstructions DEF Init, Client!Init
  <2>2. \A s : Client!Idle(s) = ClientProofs!Idle(s)
    BY DEF Client!Idle, ClientProofs!Idle
  <2>3. calls = [c \in Calls |-> ClientProofs!Idle(s0)]
    BY <2>1, <2>2
  <2>4. calls = [c \in Calls |-> ClientProofs!Idle(CHOOSE s \in AllSubmissions : TRUE)]
    BY <2>3 DEF AllSubmissions
  <2>5. QED BY <2>1, <2>4 DEF ClientProofs!Init
<1>5. QED BY <1>1, <1>2, <1>3, <1>4, ClientProofs!InitIInv

-----------------------------------------------------------------------------
(* The exits.                                                              *)

AllExits == {ExitOf(w) : w \in Wallets}

ExitsProofs == INSTANCE SwigDelegationProofs WITH
  Policies <- Wallets, Guardians <- {Guardian}, Requests <- AllExits

(* What SwigDelegation's theorems assume.                                  *)
LEMMA ExitsAssumed ==
  /\ RateLimit \in Nat \ {0}
  /\ StartTime \in Nat \ {0} /\ MaxTime \in Nat
  /\ AllExits \subseteq ExitsProofs!Request
BY ClientAssumption DEF AllExits, ExitOf, ExitsProofs!Request, ExitsProofs!RebalanceAction

(* Both instances execute alike.                                           *)
LEMMA SameExits == \A r : Exits!Execute(r) <=> ExitsProofs!Execute(r)
<1>1. \A r : Exits!Outcome(r) = ExitsProofs!Outcome(r)
  BY DEF Exits!Outcome, ExitsProofs!Outcome, Exits!TooSoon, ExitsProofs!TooSoon,
     Exits!ToleranceUnderflows, ExitsProofs!ToleranceUnderflows,
     Exits!SlippageGate, ExitsProofs!SlippageGate, Exits!BPS, ExitsProofs!BPS
<1>2. QED
  BY <1>1 DEF Exits!Execute, ExitsProofs!Execute, Exits!EventOf, ExitsProofs!EventOf

(* No step of the client touches the clock that exits are stamped with.    *)
LEMMA ClientKeepsClock ==
  /\ \A c, s : Client!Begin(c, s) => UNCHANGED clock
  /\ \A c : Client!Submit(c) \/ Client!ReadFails(c) \/ Client!Confirm(c) \/ Client!Reject(c)
              => UNCHANGED clock
  /\ \A t : Client!Land(t) \/ Client!Drop(t) => UNCHANGED clock
<1> USE DEF Client!chainVars
<1>1. \A c, s : Client!Begin(c, s) => UNCHANGED clock
  BY DEF Client!Begin
<1>2. \A c : Client!Submit(c) \/ Client!ReadFails(c) \/ Client!Confirm(c) \/ Client!Reject(c)
               => UNCHANGED clock
  BY DEF Client!Submit, Client!ReadFails, Client!Confirm, Client!Reject
<1>3. \A t : Client!Land(t) \/ Client!Drop(t) => UNCHANGED clock
  BY DEF Client!Land, Client!Drop, Client!Effective, Client!Ineffective,
     Client!Chain!InitPolicy, Client!Chain!UpdatePolicy, Client!Chain!RefuseInit,
     Client!Chain!RefuseUpdate, Client!Chain!vars
<1>4. QED BY <1>1, <1>2, <1>3

(* Each step of the tab, the user and the chain is an exit, the passing of *)
(* time, or none to swig_delegation.                                       *)
LEMMA StepOfExits ==
  ASSUME [Next]_vars
  PROVE  [ExitsProofs!Next]_(ExitsProofs!vars)
<1> DEFINE Kept == UNCHANGED <<clock, exitVars>>
<1>1. ASSUME NEW c \in Calls, NEW d \in Drawdowns, onSubmit(c, d) PROVE Kept
  BY <1>1, ClientKeepsClock DEF onSubmit
<1>2. ASSUME NEW c \in Calls, Sign(c) \/ Proposed(c) \/ Failed(c) PROVE Kept
  BY <1>2, ClientKeepsClock DEF Sign, Proposed, Failed, Failure, NotSigned, Shows
<1>3. ASSUME NEW t \in DOMAIN txs, LandPolicy(t) PROVE Kept
  BY <1>3, ClientKeepsClock DEF LandPolicy
<1>4. ASSUME NEW l \in listeners, NEW i \in DOMAIN events, Deliver(l, i) PROVE Kept
  BY <1>4 DEF Deliver, policyVars
<1>5. ASSUME NEW w \in Wallets \cup {NoWallet}, SetWallet(w) PROVE Kept
  BY <1>5 DEF SetWallet, policyVars
<1>6. ASSUME Mount \/ Unmount \/ UNCHANGED vars PROVE Kept
  BY <1>6 DEF Mount, Unmount, vars, policyVars
<1>7. ASSUME NEW w \in Wallets, Exit(w) PROVE ExitsProofs!Next
  BY <1>7, SameExits DEF Exit, AllExits, ExitsProofs!Next
<1>8. ASSUME Tick PROVE ExitsProofs!Next
  BY <1>8 DEF Tick, Client!Tick, Client!Chain!Tick, exitVars, ExitsProofs!Next, ExitsProofs!Tick
<1>9. Kept => UNCHANGED ExitsProofs!vars
  BY DEF exitVars, ExitsProofs!vars
<1>10. QED
  BY <1>1, <1>2, <1>3, <1>4, <1>5, <1>6, <1>7, <1>8, <1>9 DEF Next

(* Seen through the rate limit and the events alone, the tab and what goes *)
(* on around it run swig_delegation.                                       *)
THEOREM ImplementsProgram == Spec => ExitsProofs!Spec
<1>1. Init => ExitsProofs!Init
  BY DEF Init, Client!Init, Client!Chain!Init, ExitsProofs!Init
<1>2. QED BY <1>1, StepOfExits, PTL DEF Spec, ExitsProofs!Spec

(* So what is proved of the program holds of the exits the page shows.     *)
ExitsKnown == ExitsProofs!TypeOK /\ ExitsProofs!SpacedExecutions
(* The part of it that is used here. *)
LEMMA ExitsAreKnown == Spec => []ExitsKnown
<1>1. RateLimit \in Nat \ {0}
  BY ExitsAssumed
<1>2. StartTime \in Nat \ {0} /\ MaxTime \in Nat
  BY ExitsAssumed
<1>3. AllExits \subseteq ExitsProofs!Request
  BY ExitsAssumed
<1>4. ExitsProofs!Spec => []ExitsProofs!TypeOK
  BY <1>1, <1>2, <1>3, ExitsProofs!TypeCorrect
<1>5. ExitsProofs!Spec => []ExitsProofs!SpacedExecutions
  BY <1>1, <1>2, <1>3, ExitsProofs!SpacingCorrect
<1>6. QED BY <1>4, <1>5, ImplementsProgram, PTL DEF ExitsKnown

-----------------------------------------------------------------------------
(* The policy page.                                                        *)

Made == [wallet : Wallets, drawdown : Drawdowns]

PageTyped ==
  /\ wallet \in Wallets \cup {NoWallet}
  /\ page \in {"policy", "audit"} /\ mounted \in BOOLEAN
  /\ proposal \in ProposalState /\ mine \subseteq Calls
  /\ asked \in [latest : {NoCall} \cup {About("latest", c) : c \in Calls},
                of : [Calls -> {NoCall} \cup Made]]

(* A call that was made submits what the slider said, for the wallet that  *)
(* was connected.                                                          *)
CallsRemember ==
  \A c \in Calls : calls[c].phase # "idle" =>
    /\ asked.of[c] \in Made
    /\ calls[c].sub = SubmissionOf(asked.of[c].wallet, asked.of[c].drawdown)

(* The mounted page awaits at most one call, and says so; what it says is  *)
(* about the latest one, and a call it calls proposed has resolved and has *)
(* not been made again.                                                    *)
PageFollows ==
  /\ \A c \in mine : proposal = About("proposing", c)
  /\ proposal # NoCall => asked.latest = About("latest", proposal.call)
  /\ proposal.kind = "proposed" => calls[proposal.call].phase = "resolved"

PageInv == PageTyped /\ CallsRemember /\ PageFollows
IInv == ClientProofs!IInv /\ PageInv

(* What About and NoCall tell apart.                                       *)
LEMMA AboutTells ==
  /\ NoCall.kind = "idle"
  /\ \A k, c : About(k, c).kind = k /\ About(k, c).call = c
  /\ \A c : \A k \in {"proposing", "proposed", "error"} : About(k, c) # NoCall
BY DEF NoCall, About

(* A call that moves on was pending, and keeps what it submits.            *)
LEMMA BusyMoves ==
  ASSUME ClientProofs!TypeOK, NEW c \in Calls, Sign(c) \/ Proposed(c) \/ Failed(c)
  PROVE  /\ calls[c].phase \in {"reading", "waiting"}
         /\ calls'[c].sub = calls[c].sub
         /\ Proposed(c) => calls'[c].phase = "resolved"
         /\ \A e \in Calls : e # c => calls'[e] = calls[e]
<1>1. /\ calls \in [Calls -> ClientProofs!Call]
      /\ \A s \in ClientProofs!Call : DOMAIN s = {"phase", "sub", "tx", "error"}
  BY DEF ClientProofs!TypeOK, ClientProofs!Call
<1>2. ASSUME NEW ph, NEW e, Client!Settled(c, ph, e)
      PROVE  /\ calls'[c].sub = calls[c].sub /\ calls'[c].phase = ph
             /\ \A d \in Calls : d # c => calls'[d] = calls[d]
  BY <1>1, <1>2 DEF Client!Settled, ClientProofs!Call
<1>3. CASE Sign(c)
  BY <1>1, <1>3, AboutTells DEF Sign, Client!Submit, ClientProofs!Call, Proposed, Client!Confirm
<1>4. CASE Proposed(c)
  BY <1>2, <1>4 DEF Proposed, Client!Confirm
<1>5. CASE Failed(c) /\ ~ Proposed(c)
  BY <1>2, <1>5 DEF Failed, Failure, NotSigned, Client!Reject, Client!ReadFails
<1>6. QED BY <1>3, <1>4, <1>5

(* The button starts a call with what the page shows.                      *)
LEMMA SubmitStarts ==
  ASSUME IInv, NEW c \in Calls, NEW d \in Drawdowns, onSubmit(c, d)
  PROVE  PageInv'
<1>1. PageTyped /\ CallsRemember /\ PageFollows /\ ClientProofs!TypeOK
  BY DEF IInv, PageInv, ClientProofs!IInv
<1>2. /\ wallet \in Wallets /\ proposal.kind # "proposing"
      /\ proposal' = About("proposing", c) /\ mine' = mine \cup {c}
      /\ UNCHANGED <<wallet, page, mounted>>
  BY <1>1 DEF onSubmit, CanSubmit, PageTyped
<1>3. mine = {}
  BY <1>1, <1>2, AboutTells DEF PageFollows
<1> DEFINE m == [wallet |-> wallet, drawdown |-> d]
<1>4. m \in Made /\ m.wallet = wallet /\ m.drawdown = d
  BY <1>2 DEF Made
<1>5. /\ asked'.latest = About("latest", c)
      /\ asked'.of = [asked.of EXCEPT ![c] = m]
      /\ asked' = [latest |-> asked'.latest, of |-> asked'.of]
  BY DEF onSubmit
<1> HIDE DEF m
<1>6. asked.of \in [Calls -> {NoCall} \cup Made]
  BY <1>1 DEF PageTyped
<1>7. /\ asked'.of \in [Calls -> {NoCall} \cup Made] /\ asked'.of[c] = m
      /\ \A e \in Calls : e # c => asked'.of[e] = asked.of[e]
  BY <1>4, <1>5, <1>6
<1>8. PageTyped'
  <2>1. asked' \in [latest : {NoCall} \cup {About("latest", e) : e \in Calls},
                    of : [Calls -> {NoCall} \cup Made]]
    BY <1>5, <1>7
  <2>2. proposal' \in ProposalState
    BY <1>2 DEF ProposalState
  <2>3. mine' \subseteq Calls
    BY <1>1, <1>2 DEF PageTyped
  <2>4. QED BY <1>1, <1>2, <2>1, <2>2, <2>3 DEF PageTyped
<1>9. /\ calls'[c].sub = SubmissionOf(wallet, d)
      /\ \A e \in Calls : e # c => calls'[e] = calls[e]
  <2> DEFINE new == [Client!Idle(SubmissionOf(wallet, d)) EXCEPT !.phase = "reading"]
  <2>1. calls' = [calls EXCEPT ![c] = new]
    BY DEF onSubmit, Client!Begin
  <2>2. new.sub = SubmissionOf(wallet, d)
    BY DEF Client!Idle
  <2> HIDE DEF new
  <2>3. calls \in [Calls -> ClientProofs!Call]
    BY <1>1 DEF ClientProofs!TypeOK
  <2>4. QED BY <2>1, <2>2, <2>3
<1>10. CallsRemember'
  BY <1>1, <1>4, <1>7, <1>9 DEF CallsRemember, SubmissionOf
<1>11. PageFollows'
  BY <1>2, <1>3, <1>5, AboutTells DEF PageFollows
<1>12. QED BY <1>8, <1>10, <1>11 DEF PageInv

(* What a pending call does, and what the page makes of it.                *)
LEMMA MovesKeep ==
  ASSUME IInv, NEW c \in Calls, Sign(c) \/ Proposed(c) \/ Failed(c)
  PROVE  PageInv'
<1>1. PageTyped /\ CallsRemember /\ PageFollows /\ ClientProofs!TypeOK
  BY DEF IInv, PageInv, ClientProofs!IInv
<1>2. /\ calls[c].phase \in {"reading", "waiting"} /\ calls'[c].sub = calls[c].sub
      /\ Proposed(c) => calls'[c].phase = "resolved"
      /\ \A e \in Calls : e # c => calls'[e] = calls[e]
  BY <1>1, BusyMoves
<1>3. UNCHANGED <<wallet, page, mounted, asked>>
  BY DEF Sign, Proposed, Failed, Shows, policyPage
<1>4. CallsRemember'
  BY <1>1, <1>2, <1>3 DEF CallsRemember
<1>5. proposal.kind = "proposed" => proposal.call \in Calls /\ proposal.call # c
                                    /\ calls'[proposal.call].phase = "resolved"
  <2>1. SUFFICES ASSUME proposal.kind = "proposed"
                 PROVE  proposal.call \in Calls /\ proposal.call # c
                        /\ calls'[proposal.call].phase = "resolved"
    OBVIOUS
  <2>2. proposal.call \in Calls
    BY <1>1, <2>1, AboutTells DEF PageTyped, ProposalState
  <2>3. calls[proposal.call].phase = "resolved"
    BY <1>1, <2>1 DEF PageFollows
  <2>4. QED BY <1>2, <2>2, <2>3
<1>6. CASE UNCHANGED <<proposal, mine>>
  BY <1>1, <1>3, <1>4, <1>5, <1>6 DEF PageInv, PageTyped, PageFollows
<1>7. CASE ~ UNCHANGED <<proposal, mine>>
  <2>1. PICK k \in {"proposed", "error"} :
          /\ mine' = mine \ {c}
          /\ proposal' = IF c \in mine THEN About(k, c) ELSE proposal
          /\ k = "proposed" => Proposed(c)
    BY <1>7 DEF Sign, Proposed, Failed, Shows, policyPage
  <2>2. c \in mine
    BY <1>7, <2>1
  <2>3. proposal = About("proposing", c) /\ mine' = {}
    <3>1. \A e \in mine : About("proposing", e) = About("proposing", c)
      BY <1>1, <2>2 DEF PageFollows
    <3>2. \A e \in mine : e = c
      BY <3>1, AboutTells
    <3>3. QED BY <1>1, <2>1, <2>2, <3>2 DEF PageFollows
  <2>4. asked.latest = About("latest", c)
    BY <1>1, <2>3, AboutTells DEF PageFollows
  <2>5. proposal' = About(k, c)
    BY <2>1, <2>2
  <2>6. PageTyped'
    <3>1. About(k, c) \in {About(x, e) : x \in {"proposing", "proposed", "error"}, e \in Calls}
      OBVIOUS
    <3>2. proposal' \in ProposalState
      BY <2>5, <3>1 DEF ProposalState
    <3>3. QED BY <1>1, <1>3, <2>3, <3>2 DEF PageTyped
  <2>7. PageFollows'
    BY <1>2, <1>3, <2>1, <2>3, <2>4, <2>5, AboutTells DEF PageFollows
  <2>8. QED BY <1>4, <2>6, <2>7 DEF PageInv
<1>8. QED BY <1>6, <1>7

(* Every step keeps what the page shows true.                              *)
LEMMA PagePreserved == IInv /\ [Next]_vars => PageInv'
<1> SUFFICES ASSUME IInv, [Next]_vars PROVE PageInv'
  OBVIOUS
<1>1. PageTyped /\ CallsRemember /\ PageFollows
  BY DEF IInv, PageInv
<1>2. ASSUME NEW c \in Calls, NEW d \in Drawdowns, onSubmit(c, d) PROVE PageInv'
  BY <1>2, SubmitStarts
<1>3. ASSUME NEW c \in Calls, Sign(c) \/ Proposed(c) \/ Failed(c) PROVE PageInv'
  BY <1>3, MovesKeep
<1>4. ASSUME UNCHANGED <<calls, proposal, mine, asked>>, UNCHANGED page,
             wallet' \in Wallets \cup {NoWallet}, mounted' \in BOOLEAN
      PROVE  PageInv'
  BY <1>1, <1>4 DEF PageInv, PageTyped, CallsRemember, PageFollows
<1>5. /\ wallet \in Wallets \cup {NoWallet} /\ mounted \in BOOLEAN
      /\ page \in {"policy", "audit"}
  BY <1>1 DEF PageTyped
<1>6. ASSUME NEW l \in listeners, NEW i \in DOMAIN events, Deliver(l, i) PROVE PageInv'
  BY <1>4, <1>5, <1>6 DEF Deliver, policyVars, policyPage
<1>7. ASSUME NEW w \in Wallets \cup {NoWallet}, SetWallet(w) PROVE PageInv'
  BY <1>4, <1>5, <1>7 DEF SetWallet, policyVars, policyPage
<1>8. ASSUME Mount PROVE PageInv'
  BY <1>4, <1>5, <1>8 DEF Mount, policyVars, policyPage
<1>9. ASSUME NEW t \in DOMAIN txs, LandPolicy(t) PROVE PageInv'
  BY <1>4, <1>5, <1>9 DEF LandPolicy, Client!Land, Client!Drop, policyPage
<1>10. ASSUME NEW w \in Wallets, Exit(w) PROVE PageInv'
  BY <1>4, <1>5, <1>10 DEF Exit, policyPage
<1>11. ASSUME Tick \/ UNCHANGED vars PROVE PageInv'
  BY <1>4, <1>5, <1>11 DEF Tick, Client!Tick, vars, policyVars, policyPage
<1>12. ASSUME Unmount PROVE PageInv'
  <2>1. /\ UNCHANGED <<calls, wallet, page>> /\ mounted' = FALSE
        /\ proposal' = NoCall /\ mine' = {} /\ asked' = [asked EXCEPT !.latest = NoCall]
    BY <1>12 DEF Unmount, policyVars
  <2>2. asked'.of = asked.of /\ asked'.latest = NoCall
        /\ asked' \in [latest : {NoCall} \cup {About("latest", c) : c \in Calls},
                       of : [Calls -> {NoCall} \cup Made]]
    BY <1>1, <2>1 DEF PageTyped
  <2>3. PageTyped'
    <3>1. /\ wallet' \in Wallets \cup {NoWallet} /\ page' \in {"policy", "audit"}
          /\ mounted' \in BOOLEAN /\ mine' \subseteq Calls
      BY <1>5, <2>1
    <3>2. proposal' \in ProposalState
      BY <2>1 DEF ProposalState
    <3>3. QED BY <2>2, <3>1, <3>2 DEF PageTyped
  <2>4. CallsRemember'
    BY <1>1, <2>1, <2>2 DEF CallsRemember
  <2>5. PageFollows'
    BY <2>1, AboutTells DEF PageFollows
  <2>6. QED BY <2>3, <2>4, <2>5 DEF PageInv
<1>13. QED
  BY <1>2, <1>3, <1>6, <1>7, <1>8, <1>9, <1>10, <1>11, <1>12 DEF Next

(* The invariant of the policy page holds in every behaviour.              *)
THEOREM Invariance == Spec => []IInv
<1>1. Init => IInv
  <2> SUFFICES ASSUME Init PROVE IInv
    OBVIOUS
  <2>1. /\ wallet = NoWallet /\ page \in {"policy", "audit"} /\ mounted = FALSE
        /\ proposal = NoCall /\ mine = {}
        /\ asked = [latest |-> NoCall, of |-> [c \in Calls |-> NoCall]]
    BY DEF Init
  <2>2. PageTyped
    <3>1. [c \in Calls |-> NoCall] \in [Calls -> {NoCall} \cup Made]
      OBVIOUS
    <3>2. asked \in [latest : {NoCall} \cup {About("latest", c) : c \in Calls},
                    of : [Calls -> {NoCall} \cup Made]]
      BY <2>1, <3>1
    <3>3. /\ wallet \in Wallets \cup {NoWallet} /\ page \in {"policy", "audit"}
          /\ mounted \in BOOLEAN /\ mine \subseteq Calls
      BY <2>1
    <3>4. proposal \in ProposalState
      BY <2>1 DEF ProposalState
    <3>5. QED BY <3>2, <3>3, <3>4 DEF PageTyped
  <2>3. \A c \in Calls : calls[c].phase = "idle"
    BY DEF Init, Client!Init, Client!Idle
  <2>4. PageFollows
    BY <2>1, AboutTells DEF PageFollows
  <2>5. QED BY <2>2, <2>3, <2>4, ClientStarts DEF IInv, PageInv, CallsRemember
<1>2. IInv /\ [Next]_vars => IInv'
  <2> SUFFICES ASSUME IInv, [Next]_vars PROVE IInv'
    OBVIOUS
  <2>1. ClientProofs!IInv'
    BY ClientPreserved DEF IInv, PageInv, PageTyped
  <2>2. QED BY <2>1, PagePreserved DEF IInv
<1>3. QED BY <1>1, <1>2, PTL DEF Spec

(* The policy page, whatever the user, the wallet and the network do: what *)
(* it shows is about the last submission made on it since it was mounted,  *)
(* and "Proposed" that this one, as it was on the slider, has been written *)
(* for the wallet that was connected.                                      *)
THEOREM ShownCorrect == Spec => []ShownIsLastSubmission
<1>1. IInv => ShownIsLastSubmission
  <2> SUFFICES ASSUME IInv, proposal # NoCall
               PROVE  /\ asked.latest = About("latest", proposal.call)
                      /\ proposal.kind = "proposed" =>
                           \E i \in DOMAIN landed :
                             /\ landed[i] = calls[proposal.call].tx
                             /\ txs[landed[i]].sub =
                                  SubmissionOf(asked.of[proposal.call].wallet,
                                               asked.of[proposal.call].drawdown)
    BY DEF ShownIsLastSubmission
  <2>1. PageTyped /\ CallsRemember /\ PageFollows
    BY DEF IInv, PageInv
  <2>2. asked.latest = About("latest", proposal.call)
    BY <2>1 DEF PageFollows
  <2>3. ASSUME proposal.kind = "proposed"
        PROVE  \E i \in DOMAIN landed :
                 /\ landed[i] = calls[proposal.call].tx
                 /\ txs[landed[i]].sub = SubmissionOf(asked.of[proposal.call].wallet,
                                                      asked.of[proposal.call].drawdown)
    <3> DEFINE c == proposal.call
    <3>1. c \in Calls
      BY <2>1, AboutTells DEF PageTyped, ProposalState
    <3>2. calls[c].phase = "resolved"
      BY <2>1, <2>3 DEF PageFollows
    <3> HIDE DEF c
    <3>3. calls[c].sub = SubmissionOf(asked.of[c].wallet, asked.of[c].drawdown)
      BY <2>1, <3>1, <3>2 DEF CallsRemember
    <3>4. /\ calls[c].tx \in DOMAIN txs /\ txs[calls[c].tx].sub = calls[c].sub
          /\ \E i \in DOMAIN landed : landed[i] = calls[c].tx
      BY <3>1, <3>2 DEF IInv, ClientProofs!IInv, ClientProofs!LogInv,
         ClientProofs!CallsHoldTheirTxs, ClientProofs!LandedAreOk
    <3>5. QED BY <3>3, <3>4 DEF c
  <2>4. QED BY <2>2, <2>3
<1>2. QED BY <1>1, Invariance, PTL

(* From the slider to the chain and back: the number that was chosen can   *)
(* be read off the account of the wallet it was chosen with.               *)
THEOREM ThresholdCorrect == Spec => []StoredIsChosen
<1>1. IInv => StoredIsChosen
  <2> SUFFICES ASSUME IInv, NEW c \in Calls, NEW i \in DOMAIN landed,
                      calls[c].phase = "resolved", landed[i] = calls[c].tx,
                      Client!IsLatest(i, asked.of[c].wallet)
               PROVE  /\ HasTag(policy[asked.of[c].wallet].ciphertext)
                      /\ decrypt(policy[asked.of[c].wallet].ciphertext) = asked.of[c].drawdown
    BY DEF StoredIsChosen
  <2>1. ClientProofs!PolicyIsLastLanded /\ ClientProofs!CallsHoldTheirTxs
    BY DEF IInv, ClientProofs!IInv, ClientProofs!LogInv
  <2>2. /\ asked.of[c] \in Made
        /\ calls[c].sub = SubmissionOf(asked.of[c].wallet, asked.of[c].drawdown)
    BY DEF IInv, PageInv, CallsRemember
  <2>3. asked.of[c].wallet \in Wallets /\ asked.of[c].drawdown \in Drawdowns
    BY <2>2 DEF Made
  <2>4. txs[calls[c].tx].sub = calls[c].sub
    BY <2>1 DEF ClientProofs!CallsHoldTheirTxs
  <2>5. ClientProofs!IsLatest(i, asked.of[c].wallet)
    BY DEF Client!IsLatest, ClientProofs!IsLatest, Client!LandedFor, ClientProofs!LandedFor
  <2>6. policy[asked.of[c].wallet].ciphertext = txs[landed[i]].sub.ciphertext
    BY <2>1, <2>3, <2>5 DEF ClientProofs!PolicyIsLastLanded
  <2>7. policy[asked.of[c].wallet].ciphertext = encryptThreshold(asked.of[c].drawdown)
    BY <2>2, <2>4, <2>6 DEF SubmissionOf
  <2>8. QED BY <2>3, <2>7, Packed, DecryptInverts, DrawdownsAssumption
<1>2. QED BY <1>1, Invariance, PTL

-----------------------------------------------------------------------------
(* The audit page.                                                         *)

Row == [policy : Wallets, ts : Nat]
RowOf(i) == [policy |-> events[i].policy, ts |-> events[i].ts]

AuditTyped ==
  /\ listeners \subseteq [wallet : Wallets, from : Nat, got : SUBSET Nat]
  /\ \A l \in listeners : l.got \subseteq l.from + 1 .. Len(events)
  /\ rows \in Seq(Row)

(* Each row is an exit, and no two are the same.                           *)
RowsAreEvents == \A a \in DOMAIN rows : \E i \in DOMAIN events : rows[a] = RowOf(i)
RowsDiffer == \A a, b \in DOMAIN rows : a # b => rows[a] # rows[b]

(* What a listener may still hear of is not in the table.                  *)
UnheardIsUnshown ==
  \A l \in listeners, i \in DOMAIN events :
    i > l.from /\ i \notin l.got => \A a \in DOMAIN rows : rows[a] # RowOf(i)

OneListener == \A l, m \in listeners : l = m

AuditInv == AuditTyped /\ RowsAreEvents /\ RowsDiffer /\ UnheardIsUnshown /\ OneListener

(* Events have the types the program gives them, and tell two exits of a   *)
(* policy apart by their times.                                            *)
EventsApart ==
  /\ Len(events) \in Nat /\ DOMAIN events = 1 .. Len(events)
  /\ \A i \in DOMAIN events : i \in Nat /\ RowOf(i) \in Row
  /\ \A i, j \in DOMAIN events :
       i # j => /\ RowOf(i) # RowOf(j)
                /\ RowOf(i).policy = RowOf(j).policy /\ RowOf(i).ts >= RowOf(j).ts
                     => RowOf(i).ts - RowOf(j).ts >= RateLimit

(* The program's own types and spacing say so.                             *)
LEMMA EventsDiffer == ExitsKnown => EventsApart
<1> SUFFICES ASSUME ExitsKnown PROVE EventsApart
  OBVIOUS
<1>1. events \in Seq(ExitsProofs!Event)
  BY DEF ExitsKnown, ExitsProofs!TypeOK
<1>2. Len(events) \in Nat /\ DOMAIN events = 1 .. Len(events)
  BY <1>1
<1>3. ASSUME NEW i \in DOMAIN events
      PROVE  i \in Nat /\ events[i].policy \in Wallets /\ events[i].ts \in Nat
  <2>1. events[i] \in ExitsProofs!Event /\ i \in Nat
    BY <1>1, <1>2
  <2>2. QED BY <2>1 DEF ExitsProofs!Event
<1>4. ASSUME NEW i \in DOMAIN events, NEW j \in DOMAIN events, i # j,
             events[i].policy = events[j].policy, events[i].ts >= events[j].ts
      PROVE  events[i].ts - events[j].ts >= RateLimit
  <2>1. i < j => events[j].ts - events[i].ts >= RateLimit
    BY <1>4 DEF ExitsKnown, ExitsProofs!SpacedExecutions
  <2>2. j < i => events[i].ts - events[j].ts >= RateLimit
    BY <1>4 DEF ExitsKnown, ExitsProofs!SpacedExecutions
  <2>3. QED BY <1>3, <1>4, <2>1, <2>2, ClientAssumption
<1>5. ASSUME NEW i \in DOMAIN events, NEW j \in DOMAIN events, i # j
      PROVE  /\ RowOf(i) # RowOf(j)
             /\ RowOf(i).policy = RowOf(j).policy /\ RowOf(i).ts >= RowOf(j).ts
                  => RowOf(i).ts - RowOf(j).ts >= RateLimit
  <2>1. \A k : RowOf(k).policy = events[k].policy /\ RowOf(k).ts = events[k].ts
    BY DEF RowOf
  <2>2. RowOf(i).policy = RowOf(j).policy /\ RowOf(i).ts >= RowOf(j).ts
          => RowOf(i).ts - RowOf(j).ts >= RateLimit
    BY <1>4, <1>5, <2>1
  <2>3. RowOf(i) = RowOf(j) => RowOf(i).ts - RowOf(j).ts >= RateLimit
    BY <1>3, <2>1, <2>2
  <2>4. QED BY <1>3, <2>1, <2>2, <2>3, ClientAssumption
<1>6. \A i \in DOMAIN events : RowOf(i) \in Row
  BY <1>3 DEF RowOf, Row
<1>7. QED BY <1>2, <1>3, <1>5, <1>6 DEF EventsApart

(* An event arrives at the subscription and is put on top of the table.    *)
LEMMA DeliverKeeps ==
  ASSUME AuditInv, ExitsKnown, NEW l \in listeners, NEW i \in DOMAIN events, Deliver(l, i)
  PROVE  AuditInv'
<1> DEFINE new == [l EXCEPT !.got = @ \cup {i}]
           n == Len(rows)
<1>1. /\ AuditTyped /\ RowsAreEvents /\ RowsDiffer /\ UnheardIsUnshown /\ OneListener
      /\ i > l.from /\ i \notin l.got /\ i \in Nat /\ i <= Len(events) /\ Len(events) \in Nat
  BY EventsDiffer DEF EventsApart, AuditInv, Deliver
<1>2. /\ l \in [wallet : Wallets, from : Nat, got : SUBSET Nat]
      /\ new \in [wallet : Wallets, from : Nat, got : SUBSET Nat]
      /\ new.from = l.from /\ new.got = l.got \cup {i}
  BY <1>1 DEF AuditTyped
<1>3. listeners' = {new} /\ events' = events
  <2>1. listeners = {l}
    BY <1>1 DEF OneListener
  <2>2. QED BY <2>1 DEF Deliver, exitVars
<1> HIDE DEF new
<1>4. RowOf(i) \in Row /\ rows \in Seq(Row)
  BY <1>1, EventsDiffer DEF EventsApart, AuditTyped
<1>5. rows' = <<RowOf(i)>> \o rows
  BY DEF Deliver, RowOf
<1>6. /\ rows' \in Seq(Row) /\ n \in Nat /\ DOMAIN rows = 1 .. n /\ DOMAIN rows' = 1 .. n + 1
      /\ rows'[1] = RowOf(i)
      /\ \A a \in 1 .. n : rows'[a + 1] = rows[a]
  BY <1>4, <1>5
<1> HIDE DEF n
<1>7. ASSUME NEW a \in DOMAIN rows'
      PROVE  \/ a = 1 /\ rows'[a] = RowOf(i)
             \/ a # 1 /\ a - 1 \in DOMAIN rows /\ rows'[a] = rows[a - 1]
  <2>1. CASE a = 1
    BY <1>6, <2>1
  <2>2. CASE a # 1
    <3>1. a - 1 \in 1 .. n /\ (a - 1) + 1 = a
      BY <1>6, <2>2
    <3>2. QED BY <1>6, <2>2, <3>1
  <2>3. QED BY <2>1, <2>2
<1>8. \A j : RowOf(j)' = RowOf(j)
  BY <1>3 DEF RowOf
<1>9. \A a \in DOMAIN rows : rows[a] # RowOf(i)
  BY <1>1 DEF UnheardIsUnshown
<1>10. AuditTyped'
  BY <1>1, <1>2, <1>3, <1>6 DEF AuditTyped
<1>11. RowsAreEvents'
  BY <1>1, <1>3, <1>7, <1>8 DEF RowsAreEvents
<1>12. RowsDiffer'
  <2>1. ASSUME NEW a \in DOMAIN rows', NEW b \in DOMAIN rows', a # b
        PROVE  rows'[a] # rows'[b]
    <3>1. a \in Nat /\ b \in Nat
      BY <1>6
    <3>2. CASE a = 1
      BY <1>7, <1>9, <2>1, <3>2
    <3>3. CASE b = 1
      BY <1>7, <1>9, <2>1, <3>3
    <3>4. CASE a # 1 /\ b # 1
      <4>1. a - 1 # b - 1
        BY <2>1, <3>1
      <4>2. /\ a - 1 \in DOMAIN rows /\ rows'[a] = rows[a - 1]
            /\ b - 1 \in DOMAIN rows /\ rows'[b] = rows[b - 1]
        BY <1>7, <3>4
      <4>3. QED BY <1>1, <4>1, <4>2 DEF RowsDiffer
    <3>5. QED BY <3>2, <3>3, <3>4
  <2>2. QED BY <2>1 DEF RowsDiffer
<1>13. UnheardIsUnshown'
  <2>1. ASSUME NEW j \in DOMAIN events, j > new.from, j \notin new.got, NEW a \in DOMAIN rows'
        PROVE  rows'[a] # RowOf(j)
    <3>1. j # i /\ j > l.from /\ j \notin l.got
      BY <1>2, <2>1
    <3>2. RowOf(j) # RowOf(i)
      BY <3>1, EventsDiffer DEF EventsApart
    <3>3. \A b \in DOMAIN rows : rows[b] # RowOf(j)
      BY <1>1, <3>1 DEF UnheardIsUnshown
    <3>4. QED BY <1>7, <3>2, <3>3
  <2>2. QED BY <1>3, <1>8, <2>1 DEF UnheardIsUnshown
<1>14. OneListener'
  BY <1>3 DEF OneListener
<1>15. QED BY <1>10, <1>11, <1>12, <1>13, <1>14 DEF AuditInv

(* An exit that lands is new to the table.                                 *)
LEMMA ExitKeeps ==
  ASSUME AuditInv, ExitsKnown, ExitsKnown', NEW w \in Wallets, Exit(w)
  PROVE  AuditInv'
<1> DEFINE n == Len(events)
<1>1. AuditTyped /\ RowsAreEvents /\ RowsDiffer /\ UnheardIsUnshown /\ OneListener
  BY DEF AuditInv
<1>0. EventsApart /\ EventsApart'
  BY EventsDiffer, PTL
<1>2. UNCHANGED <<listeners, rows>> /\ ExitsProofs!Execute(ExitOf(w)) /\ ExitOf(w) \in AllExits
  BY SameExits DEF Exit, auditPage, AllExits
<1>3. /\ n \in Nat /\ DOMAIN events = 1 .. n /\ DOMAIN events' = 1 .. n + 1 /\ Len(events') = n + 1
      /\ \A k \in 1 .. n : events'[k] = events[k]
  <2>1. RateLimit \in Nat \ {0}
    BY ExitsAssumed
  <2>2. StartTime \in Nat \ {0} /\ MaxTime \in Nat
    BY ExitsAssumed
  <2>3. AllExits \subseteq ExitsProofs!Request
    BY ExitsAssumed
  <2>4. /\ n \in Nat /\ DOMAIN events = 1 .. n /\ DOMAIN events' = 1 .. n + 1
        /\ \A k \in 1 .. n : events'[k] = events[k]
    BY <1>2, <2>1, <2>2, <2>3, ExitsProofs!ExecuteAppends DEF ExitsKnown
  <2>5. Len(events') \in Nat /\ DOMAIN events' = 1 .. Len(events')
    BY <1>0 DEF EventsApart
  <2>6. QED BY <2>4, <2>5
<1> HIDE DEF n
<1> DEFINE Now(k) == [policy |-> events'[k].policy, ts |-> events'[k].ts]
<1>4. \A k \in DOMAIN events : Now(k) = RowOf(k) /\ k \in DOMAIN events' /\ k # n + 1
  BY <1>3 DEF RowOf
<1>5. \A k \in DOMAIN events : Now(n + 1) # Now(k)
  <2>1. \A i, j \in DOMAIN events' : i # j => Now(i) # Now(j)
    BY <1>0 DEF EventsApart, RowOf
  <2>2. n + 1 \in DOMAIN events'
    BY <1>3
  <2> HIDE DEF Now
  <2>3. QED BY <1>4, <2>1, <2>2
<1>6. \A a \in DOMAIN rows : rows[a] # Now(n + 1)
  <2> HIDE DEF Now
  <2> QED BY <1>1, <1>4, <1>5 DEF RowsAreEvents
<1>7. AuditTyped'
  <2>1. \A l \in listeners : l.got \subseteq l.from + 1 .. n + 1
    <3>1. \A l \in listeners : l.got \subseteq l.from + 1 .. n /\ l.from \in Nat
      BY <1>1, <1>3 DEF AuditTyped, n
    <3>2. QED BY <1>3, <3>1
  <2>2. QED BY <1>1, <1>2, <1>3, <2>1 DEF AuditTyped
<1>8. RowsAreEvents'
  <2>1. \A a \in DOMAIN rows : \E i \in DOMAIN events' : rows[a] = Now(i)
    <3> HIDE DEF Now
    <3> QED BY <1>1, <1>4 DEF RowsAreEvents
  <2>2. QED BY <1>2, <2>1 DEF RowsAreEvents, RowOf
<1>9. UnheardIsUnshown'
  <2>1. ASSUME NEW l \in listeners, NEW i \in DOMAIN events', i > l.from, i \notin l.got,
               NEW a \in DOMAIN rows
        PROVE  rows[a] # Now(i)
    <3> HIDE DEF Now
    <3>1. CASE i = n + 1
      BY <1>6, <3>1
    <3>2. CASE i # n + 1
      <4>1. i \in DOMAIN events
        BY <1>3, <3>2
      <4>2. QED BY <1>1, <1>4, <2>1, <4>1 DEF UnheardIsUnshown
    <3>3. QED BY <3>1, <3>2
  <2>2. QED BY <1>2, <2>1 DEF UnheardIsUnshown, RowOf
<1>10. RowsDiffer' /\ OneListener'
  BY <1>1, <1>2 DEF RowsDiffer, OneListener
<1>11. QED BY <1>7, <1>8, <1>9, <1>10 DEF AuditInv

(* A new subscription, for whichever wallet, has everything to hear.       *)
LEMMA SubscribeKeeps ==
  ASSUME AuditInv, ExitsKnown, NEW w \in Wallets \cup {NoWallet},
         listeners' = Subscribed(w) \/ listeners' = AfterCleanup,
         rows' = rows \/ rows' = <<>>, UNCHANGED events
  PROVE  AuditInv'
<1> DEFINE new == [wallet |-> w, from |-> Len(events), got |-> {}]
<1>1. AuditTyped /\ RowsAreEvents /\ RowsDiffer
  BY DEF AuditInv
<1>2. Len(events) \in Nat /\ DOMAIN events = 1 .. Len(events)
  BY EventsDiffer DEF EventsApart
<1>3. listeners' = {} \/ (w \in Wallets /\ listeners' = {new})
  BY DEF Subscribed, AfterCleanup
<1>4. /\ new.from = Len(events) /\ new.got = {}
      /\ w \in Wallets => new \in [wallet : Wallets, from : Nat, got : SUBSET Nat]
  BY <1>2
<1> HIDE DEF new
<1>5. rows' \in Seq(Row)
  <2>1. <<>> \in Seq(Row) /\ rows \in Seq(Row)
    BY <1>1 DEF AuditTyped
  <2>2. QED BY <2>1
<1>6. AuditTyped'
  BY <1>3, <1>4, <1>5 DEF AuditTyped
<1>7. RowsAreEvents' /\ RowsDiffer'
  BY <1>1 DEF RowsAreEvents, RowsDiffer, RowOf
<1>8. OneListener'
  BY <1>3 DEF OneListener
<1>9. UnheardIsUnshown'
  BY <1>2, <1>3, <1>4 DEF UnheardIsUnshown
<1>10. QED BY <1>6, <1>7, <1>8, <1>9 DEF AuditInv

(* Every step keeps the table.                                             *)
LEMMA AuditPreserved ==
  ASSUME AuditInv, IInv, ExitsKnown, ExitsKnown', [Next]_vars
  PROVE  AuditInv'
<1>1. wallet \in Wallets \cup {NoWallet}
  BY DEF IInv, PageInv, PageTyped
<1>2. ASSUME UNCHANGED <<events, listeners, rows>> PROVE AuditInv'
  BY <1>2 DEF AuditInv, AuditTyped, RowsAreEvents, RowsDiffer, UnheardIsUnshown, OneListener,
     RowOf
<1>3. ASSUME NEW c \in Calls, NEW d \in Drawdowns, onSubmit(c, d) PROVE AuditInv'
  BY <1>2, <1>3 DEF onSubmit, exitVars, auditPage
<1>4. ASSUME NEW c \in Calls, Sign(c) \/ Proposed(c) \/ Failed(c) PROVE AuditInv'
  BY <1>2, <1>4 DEF Sign, Proposed, Failed, Shows, exitVars, auditPage
<1>5. ASSUME NEW t \in DOMAIN txs, LandPolicy(t) PROVE AuditInv'
  BY <1>2, <1>5 DEF LandPolicy, exitVars, auditPage
<1>6. ASSUME Tick \/ UNCHANGED vars PROVE AuditInv'
  BY <1>2, <1>6 DEF Tick, vars, exitVars, auditPage
<1>7. ASSUME NEW l \in listeners, NEW i \in DOMAIN events, Deliver(l, i) PROVE AuditInv'
  BY <1>7, DeliverKeeps
<1>8. ASSUME NEW w \in Wallets, Exit(w) PROVE AuditInv'
  BY <1>8, ExitKeeps
<1>9. ASSUME NEW w \in Wallets \cup {NoWallet}, SetWallet(w) PROVE AuditInv'
  <2>1. UNCHANGED <<events, rows>> /\ (listeners' = Subscribed(w) \/ listeners' = listeners)
    BY <1>9 DEF SetWallet, exitVars
  <2>2. QED BY <1>2, <2>1, SubscribeKeeps
<1>10. ASSUME Mount PROVE AuditInv'
  <2>1. UNCHANGED <<events, rows>> /\ (listeners' = Subscribed(wallet) \/ listeners' = listeners)
    BY <1>10 DEF Mount, exitVars
  <2>2. QED BY <1>1, <1>2, <2>1, SubscribeKeeps
<1>11. ASSUME Unmount PROVE AuditInv'
  <2>1. UNCHANGED events /\ rows' = <<>> /\ listeners' = AfterCleanup
    BY <1>11 DEF Unmount, exitVars
  <2>2. QED BY <1>1, <2>1, SubscribeKeeps
<1>12. QED
  BY <1>3, <1>4, <1>5, <1>6, <1>7, <1>8, <1>9, <1>10, <1>11 DEF Next

(* The invariant of the audit page holds in every behaviour.               *)
THEOREM AuditInvariance == Spec => []AuditInv
<1>1. Init => AuditInv
  BY DEF Init, AuditInv, AuditTyped, RowsAreEvents, RowsDiffer, UnheardIsUnshown, OneListener
<1>2. AuditInv /\ IInv /\ ExitsKnown /\ ExitsKnown' /\ [Next]_vars => AuditInv'
  BY AuditPreserved
<1>3. QED BY <1>1, <1>2, Invariance, ExitsAreKnown, PTL DEF Spec

(* Type correctness of the tab: what the client and the chain hold, the    *)
(* pages' state and what the subscriptions have delivered.                 *)
THEOREM TypeCorrect == Spec => []TypeOK
<1>1. IInv /\ AuditInv /\ ExitsKnown => TypeOK
  <2> SUFFICES ASSUME IInv, AuditInv, ExitsKnown PROVE TypeOK
    OBVIOUS
  <2>1. PageTyped /\ AuditTyped /\ ClientProofs!TypeOK /\ ExitsProofs!TypeOK
    BY DEF IInv, PageInv, AuditInv, ExitsKnown, ClientProofs!IInv
  <2>2. Client!TypeOK
    <3>1. Client!Call = ClientProofs!Call /\ Client!Tx = ClientProofs!Tx
      BY DEF Client!Call, ClientProofs!Call, Client!Tx, ClientProofs!Tx, Client!Kind,
         ClientProofs!Kind, Client!Error, ClientProofs!Error, AllSubmissions
    <3>2. QED BY <2>1, <3>1, SameInstructions DEF Client!TypeOK, ClientProofs!TypeOK
  <2>3. \A i \in DOMAIN events : events[i] \in Exits!Event
    <3>1. events \in Seq(ExitsProofs!Event)
      BY <2>1 DEF ExitsProofs!TypeOK
    <3>2. Exits!Event = ExitsProofs!Event
      BY DEF Exits!Event, ExitsProofs!Event, Exits!RebalanceAction, ExitsProofs!RebalanceAction
    <3>3. QED BY <3>1, <3>2
  <2>4. initialized \subseteq Wallets /\ lastRebalanced \in [Wallets -> Nat]
    BY <2>1 DEF ExitsProofs!TypeOK
  <2>5. \A i \in DOMAIN rows : rows[i] \in [policy : Wallets, ts : Nat]
    <3>1. rows \in Seq(Row)
      BY <2>1 DEF AuditTyped
    <3>2. \A i \in DOMAIN rows : rows[i] \in Row
      BY <3>1
    <3>3. QED BY <3>2 DEF Row
  <2>6. \A l \in listeners : l.wallet \in Wallets /\ l.got \subseteq l.from + 1 .. Len(events)
    BY <2>1 DEF AuditTyped
  <2>7. QED BY <2>1, <2>2, <2>3, <2>4, <2>5, <2>6 DEF PageTyped, TypeOK
<1>2. QED BY <1>1, Invariance, AuditInvariance, ExitsAreKnown, PTL

(* The order of the table is strict and total.                             *)
LEMMA BeforeOrders ==
  ASSUME rows \in Seq(Row)
  PROVE  /\ Len(rows) \in Nat /\ DOMAIN rows = 1 .. Len(rows)
         /\ \A i \in DOMAIN rows : rows[i].ts \in Nat /\ ~ Before(i, i)
         /\ \A i, j \in DOMAIN rows : i # j => Before(i, j) \/ Before(j, i)
         /\ \A i, j, k \in DOMAIN rows : Before(i, j) /\ Before(j, k) => Before(i, k)
<1>1. Len(rows) \in Nat /\ DOMAIN rows = 1 .. Len(rows)
  OBVIOUS
<1>2. \A i \in DOMAIN rows : i \in Nat /\ rows[i].ts \in Nat
  <2>1. \A i \in DOMAIN rows : i \in Nat /\ rows[i] \in Row
    BY <1>1
  <2>2. QED BY <2>1 DEF Row
<1>3. QED BY <1>1, <1>2 DEF Before

(* Ranks number the rows: each position of the sorted table has one row,   *)
(* and a row of a lower rank is not older.                                 *)
LEMMA RanksSort ==
  ASSUME rows \in Seq(Row)
  PROVE  /\ \A k \in DOMAIN rows : \E j \in DOMAIN rows : Rank(j) = k
         /\ \A i, j \in DOMAIN rows : Rank(i) < Rank(j) => rows[i].ts >= rows[j].ts
<1> DEFINE D == DOMAIN rows
           B(j) == {i \in D : Before(i, j)}
           n == Len(rows)
<1>1. /\ n \in Nat /\ D = 1 .. n
      /\ \A i \in D : i \in Nat /\ rows[i].ts \in Nat /\ ~ Before(i, i)
      /\ \A i, j \in D : i # j => Before(i, j) \/ Before(j, i)
      /\ \A i, j, k \in D : Before(i, j) /\ Before(j, k) => Before(i, k)
  BY BeforeOrders
<1>2. IsFiniteSet(D) /\ Cardinality(D) = n
  BY <1>1, FS_Interval
<1> HIDE DEF n
<1>3. ASSUME NEW j \in D
      PROVE  /\ IsFiniteSet(B(j)) /\ Cardinality(B(j)) \in Nat
             /\ Rank(j) = Cardinality(B(j)) + 1 /\ Rank(j) \in D
  <2>1. IsFiniteSet(D \ {j}) /\ Cardinality(D \ {j}) = n - 1
    BY <1>2, FS_RemoveElement
  <2>2. B(j) \subseteq D \ {j}
    BY <1>1
  <2> HIDE DEF D
  <2>3. IsFiniteSet(B(j)) /\ Cardinality(B(j)) <= n - 1
    <3> HIDE DEF B
    <3> QED BY <2>1, <2>2, FS_Subset
  <2>4. Cardinality(B(j)) \in Nat
    BY <2>3, FS_CardinalityType
  <2>5. Rank(j) = Cardinality(B(j)) + 1
    BY DEF Rank, D
  <2> HIDE DEF B
  <2>6. QED BY <1>1, <2>3, <2>4, <2>5
<1>4. ASSUME NEW i \in D, NEW j \in D, Before(i, j)
      PROVE  Rank(i) < Rank(j)
  <2>1. B(i) \subseteq B(j) /\ i \in B(j) /\ i \notin B(i)
    BY <1>1, <1>4
  <2> HIDE DEF B
  <2>2. Cardinality(B(i)) <= Cardinality(B(j)) /\ Cardinality(B(i)) # Cardinality(B(j))
    BY <1>3, <2>1, FS_Subset
  <2>3. QED BY <1>3, <2>2
<1> DEFINE f == [j \in D |-> Rank(j)]
<1>5. f \in Injection(D, D)
  <2>1. f \in [D -> D]
    <3> HIDE DEF D
    <3> QED BY <1>3
  <2>2. \A i, j \in D : f[i] = f[j] => i = j
    <3>1. \A i \in D : Rank(i) \in Nat /\ f[i] = Rank(i)
      BY <1>1, <1>3
    <3> HIDE DEF f, D
    <3>2. QED BY <1>1, <1>4, <3>1
  <2> HIDE DEF f, D
  <2>3. QED BY <2>1, <2>2 DEF Injection, IsInjective
<1>6. f \in Surjection(D, D)
  <2> HIDE DEF f, D
  <2> QED BY <1>2, <1>5, FS_Injection
<1>7. \A k \in D : \E j \in D : Rank(j) = k
  <2>1. \A k \in D : \E j \in D : f[j] = k
    <3> HIDE DEF f, D
    <3> QED BY <1>6 DEF Surjection
  <2>2. QED BY <2>1
<1>8. ASSUME NEW i \in D, NEW j \in D, Rank(i) < Rank(j)
      PROVE  rows[i].ts >= rows[j].ts
  <2> HIDE DEF B, D
  <2>1. ~ Before(j, i) /\ Rank(i) \in Nat /\ Rank(j) \in Nat
    <3>1. Rank(i) \in Nat /\ Rank(j) \in Nat
      BY <1>1, <1>3
    <3>2. Before(j, i) => Rank(j) < Rank(i)
      BY <1>4
    <3>3. QED BY <1>8, <3>1, <3>2
  <2>2. i # j
    BY <1>8, <2>1
  <2>3. Before(i, j)
    BY <1>1, <2>1, <2>2
  <2>4. QED BY <1>1, <2>3 DEF Before
<1> HIDE DEF B, f
<1>9. QED BY <1>7, <1>8

(* The table shows each exit once, the latest first: of two rows of one    *)
(* policy the upper one is a rate-limit window later.                      *)
THEOREM RowsCorrect == Spec => []RowsAreDistinctExits
<1>1. AuditInv /\ ExitsKnown => RowsAreDistinctExits
  <2> SUFFICES ASSUME AuditInv, ExitsKnown, NEW a \in DOMAIN Sorted, NEW b \in DOMAIN Sorted,
                      a < b, Sorted[a].policy = Sorted[b].policy
               PROVE  Sorted[a].ts - Sorted[b].ts >= RateLimit
    BY DEF RowsAreDistinctExits
  <2>1. rows \in Seq(Row) /\ EventsApart /\ RowsAreEvents /\ RowsDiffer
    BY EventsDiffer DEF AuditInv, AuditTyped
  <2>2. ASSUME NEW k \in DOMAIN rows
        PROVE  \E j \in DOMAIN rows : Rank(j) = k /\ Sorted[k] = rows[j]
    <3> DEFINE j == CHOOSE j \in DOMAIN rows : Rank(j) = k
    <3>1. j \in DOMAIN rows /\ Rank(j) = k
      BY <2>1, RanksSort
    <3>2. Sorted[k] = rows[j]
      BY DEF Sorted
    <3>3. QED BY <3>1, <3>2
  <2>3. a \in DOMAIN rows /\ b \in DOMAIN rows
    BY DEF Sorted
  <2>4. PICK i \in DOMAIN rows : Rank(i) = a /\ Sorted[a] = rows[i]
    BY <2>2, <2>3
  <2>5. PICK j \in DOMAIN rows : Rank(j) = b /\ Sorted[b] = rows[j]
    BY <2>2, <2>3
  <2>6. a \in Nat /\ b \in Nat /\ i # j
    BY <2>1, <2>3, <2>4, <2>5
  <2>7. rows[i].ts >= rows[j].ts /\ rows[i] # rows[j] /\ rows[i].policy = rows[j].policy
    BY <2>1, <2>4, <2>5, <2>6, RanksSort DEF RowsDiffer
  <2>8. PICK x \in DOMAIN events, y \in DOMAIN events : rows[i] = RowOf(x) /\ rows[j] = RowOf(y)
    BY <2>1 DEF RowsAreEvents
  <2>9. x # y
    BY <2>7, <2>8
  <2>10. rows[i].ts - rows[j].ts >= RateLimit
    BY <2>1, <2>7, <2>8, <2>9 DEF EventsApart
  <2>11. QED BY <2>4, <2>5, <2>10
<1>2. QED BY <1>1, AuditInvariance, ExitsAreKnown, PTL
=============================================================================
