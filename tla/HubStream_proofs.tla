-------------------------- MODULE HubStream_proofs --------------------------
(***************************************************************************)
(* Frames survive every cut of the byte stream: for every base and length  *)
(* of the header, every limit and payload, and any traffic of any number   *)
(* of connections, the decoder of a connection and what is under way hold  *)
(* exactly the frames that the room has not been handed yet.               *)
(***************************************************************************)
EXTENDS HubConn_proofs, SequenceTheorems

-----------------------------------------------------------------------------
(***************************************************************************)
(* The codec.  Streams and lengths are read by folds from the left, which  *)
(* take the last element of a sequence away; a run of such a fold is the   *)
(* function from the number of elements taken to what they come to.        *)
(***************************************************************************)
\* A recursion over the naturals up to n has a solution.
Recurrences(Y, F, b, n) ==
    {v \in [0 .. n -> Y] : v[0] = b /\ \A k \in 1 .. n : v[k] = F[k][v[k - 1]]}

LEMMA Recurrence ==
    ASSUME NEW Y, NEW b \in Y, NEW F \in [Nat -> [Y -> Y]], NEW n \in Nat
    PROVE  Recurrences(Y, F, b, n) # {}
<1> DEFINE Run(m, v) == v[0] = b /\ \A k \in 1 .. m : v[k] = F[k][v[k - 1]]
           P == {m \in Nat : \E v \in [0 .. m -> Y] : Run(m, v)}
<1>1. 0 \in P
  <2> DEFINE v == [k \in 0 .. 0 |-> b]
  <2>1. v \in [0 .. 0 -> Y] /\ Run(0, v)
    OBVIOUS
  <2> HIDE DEF v, Run
  <2>2. \E w \in [0 .. 0 -> Y] : Run(0, w)
    BY <2>1
  <2> QED BY <2>2
<1>2. ASSUME NEW m \in P PROVE m + 1 \in P
  <2>1. m \in Nat /\ m + 1 \in Nat /\ (m + 1) - 1 = m
    OBVIOUS
  <2>2. PICK v \in [0 .. m -> Y] : Run(m, v)
    OBVIOUS
  <2> DEFINE w == [k \in 0 .. m + 1 |-> IF k = m + 1 THEN F[k][v[m]] ELSE v[k]]
  <2>3. v[m] \in Y /\ F[m + 1][v[m]] \in Y
    BY <2>1
  <2>4. w \in [0 .. m + 1 -> Y]
    BY <2>1, <2>3
  <2>5. \A k \in 0 .. m : w[k] = v[k] /\ k \in 0 .. m + 1
    BY <2>1
  <2>6. w[m + 1] = F[m + 1][v[m]]
    BY <2>1
  <2> HIDE DEF w
  <2>7. w[0] = b
    BY <2>1, <2>2, <2>5
  <2>8. ASSUME NEW k \in 1 .. m + 1 PROVE w[k] = F[k][w[k - 1]]
    <3>1. CASE k = m + 1
      BY <2>1, <2>5, <2>6, <3>1
    <3>2. CASE k # m + 1
      <4>1. k \in 1 .. m /\ k \in 0 .. m /\ k - 1 \in 0 .. m
        BY <2>1, <3>2
      <4> QED BY <2>2, <2>5, <4>1
    <3> QED BY <3>1, <3>2
  <2>9. Run(m + 1, w)
    BY <2>7, <2>8
  <2> HIDE DEF Run
  <2>10. \E x \in [0 .. m + 1 -> Y] : Run(m + 1, x)
    BY <2>4, <2>9
  <2> QED BY <2>1, <2>10
<1>3. P = Nat
  <2>1. P \in SUBSET Nat
    OBVIOUS
  <2> HIDE DEF P
  <2> QED BY <1>1, <1>2, <2>1, SetInduction
<1>4. n \in P
  BY <1>3
<1>5. PICK v \in [0 .. n -> Y] : Run(n, v)
  BY <1>4
<1> QED BY <1>5 DEF Recurrences

\* The greatest element of a set of positions.
LEMMA MaxIs ==
    ASSUME NEW n \in Nat, NEW s \in SUBSET (1 .. n), s # {}
    PROVE  Max(s) \in s /\ \A x \in s : Max(s) >= x
<1> DEFINE P == {m \in Nat : \A t \in SUBSET (1 .. m) :
                     t # {} => \E x \in t : \A y \in t : x >= y}
<1>1. 0 \in P
  <2>1. \A t \in SUBSET (1 .. 0) : t = {}
    OBVIOUS
  <2> QED BY <2>1
<1>2. ASSUME NEW m \in P PROVE m + 1 \in P
  <2>1. m \in Nat /\ m + 1 \in Nat
    OBVIOUS
  <2> SUFFICES ASSUME NEW t \in SUBSET (1 .. m + 1), t # {}
               PROVE  \E x \in t : \A y \in t : x >= y
    BY <2>1
  <2>2. CASE m + 1 \in t
    <3>1. \A y \in t : m + 1 >= y
      BY <2>1
    <3> QED BY <2>2, <3>1
  <2>3. CASE m + 1 \notin t
    <3>1. t \in SUBSET (1 .. m)
      BY <2>1, <2>3
    <3> QED BY <3>1
  <2> QED BY <2>2, <2>3
<1>3. P = Nat
  <2>1. P \in SUBSET Nat
    OBVIOUS
  <2> HIDE DEF P
  <2> QED BY <1>1, <1>2, <2>1, SetInduction
<1>4. n \in P
  BY <1>3
<1>5. \E x \in s : \A y \in s : x >= y
  BY <1>4
<1> DEFINE Top(x) == \A y \in s : x >= y
<1>6. Max(s) = CHOOSE x \in s : Top(x)
  BY Zenon DEF Max
<1>7. \E x \in s : Top(x)
  BY <1>5
<1> HIDE DEF Top
<1>8. Max(s) \in s /\ Top(Max(s))
  BY <1>6, <1>7, Zenon
<1> QED BY <1>8 DEF Top

\* One step of a fold from the left: F takes a position and what came before.
LeftStep(F, b, g, s) == IF s = {} THEN b ELSE F[Max(s)][g[s \ {Max(s)}]]

LeftRuns(Y, F, b, n) ==
    {g \in [SUBSET (1 .. n) -> Y] :
        \A s \in SUBSET (1 .. n) : g[s] = LeftStep(F, b, g, s)}

\* The recursion of such a fold has a solution.
LEMMA LeftExists ==
    ASSUME NEW Y, NEW b \in Y, NEW F \in [Nat -> [Y -> Y]], NEW n \in Nat
    PROVE  LeftRuns(Y, F, b, n) # {}
<1> DEFINE Run(m, g) == \A s \in SUBSET (1 .. m) : g[s] = LeftStep(F, b, g, s)
           P == {m \in Nat : \E g \in [SUBSET (1 .. m) -> Y] : Run(m, g)}
<1>1. 0 \in P
  <2> DEFINE g == [s \in SUBSET (1 .. 0) |-> b]
  <2>1. \A s \in SUBSET (1 .. 0) : s = {}
    OBVIOUS
  <2>2. g \in [SUBSET (1 .. 0) -> Y]
    OBVIOUS
  <2>3. Run(0, g)
    BY <2>1 DEF LeftStep
  <2> HIDE DEF g, Run
  <2>4. \E h \in [SUBSET (1 .. 0) -> Y] : Run(0, h)
    BY <2>2, <2>3
  <2> QED BY <2>4
<1>2. ASSUME NEW m \in P PROVE m + 1 \in P
  <2>1. m \in Nat /\ m + 1 \in Nat
    OBVIOUS
  <2>2. PICK g \in [SUBSET (1 .. m) -> Y] : Run(m, g)
    OBVIOUS
  <2> DEFINE h == [s \in SUBSET (1 .. m + 1) |->
                      IF m + 1 \in s THEN F[m + 1][g[s \ {m + 1}]] ELSE g[s]]
  <2>3. ASSUME NEW s \in SUBSET (1 .. m + 1)
        PROVE  /\ s \ {m + 1} \in SUBSET (1 .. m)
               /\ s \ {m + 1} \in SUBSET (1 .. m + 1)
               /\ m + 1 \notin s => s \in SUBSET (1 .. m)
    <3>1. \A x \in 1 .. m + 1 : x # m + 1 => x \in 1 .. m
      BY <2>1
    <3> QED BY <3>1
  <2>4. h \in [SUBSET (1 .. m + 1) -> Y]
    <3>1. ASSUME NEW s \in SUBSET (1 .. m + 1)
          PROVE  IF m + 1 \in s THEN F[m + 1][g[s \ {m + 1}]] \in Y ELSE g[s] \in Y
      <4>1. CASE m + 1 \in s
        <5>1. g[s \ {m + 1}] \in Y
          BY <2>3
        <5> QED BY <2>1, <4>1, <5>1
      <4>2. CASE m + 1 \notin s
        BY <2>3, <4>2
      <4> QED BY <4>1, <4>2
    <3> QED BY <3>1
  <2>5. ASSUME NEW s \in SUBSET (1 .. m) PROVE h[s] = g[s]
    <3>1. s \in SUBSET (1 .. m + 1) /\ m + 1 \notin s
      BY <2>1
    <3> QED BY <3>1
  <2>6. ASSUME NEW s \in SUBSET (1 .. m + 1), m + 1 \in s
        PROVE  h[s] = F[m + 1][h[s \ {m + 1}]] /\ Max(s) = m + 1
    <3>1. h[s] = F[m + 1][g[s \ {m + 1}]]
      BY <2>6
    <3> HIDE DEF h
    <3>2. h[s \ {m + 1}] = g[s \ {m + 1}]
      BY <2>3, <2>5
    <3>3. Max(s) \in s /\ \A x \in s : Max(s) >= x
      BY <2>1, <2>6, MaxIs
    <3>4. Max(s) \in 1 .. m + 1 /\ Max(s) >= m + 1
      BY <2>6, <3>3
    <3>5. \A x \in 1 .. m + 1 : x >= m + 1 => x = m + 1
      BY <2>1
    <3> QED BY <3>1, <3>2, <3>4, <3>5
  <2> HIDE DEF h
  <2>7. ASSUME NEW s \in SUBSET (1 .. m + 1) PROVE h[s] = LeftStep(F, b, h, s)
    <3>1. CASE m + 1 \in s
      BY <2>6, <3>1 DEF LeftStep
    <3>2. CASE m + 1 \notin s
      <4>1. s \in SUBSET (1 .. m) /\ s \ {Max(s)} \in SUBSET (1 .. m)
        BY <2>3, <3>2
      <4>2. h[s] = g[s] /\ h[s \ {Max(s)}] = g[s \ {Max(s)}]
        BY <2>5, <4>1
      <4>3. g[s] = LeftStep(F, b, g, s)
        BY <2>2, <4>1
      <4> QED BY <4>2, <4>3 DEF LeftStep
    <3> QED BY <3>1, <3>2
  <2>8. Run(m + 1, h)
    BY <2>7
  <2> HIDE DEF Run
  <2>9. \E k \in [SUBSET (1 .. m + 1) -> Y] : Run(m + 1, k)
    BY <2>4, <2>8
  <2> QED BY <2>1, <2>9
<1>3. P = Nat
  <2>1. P \in SUBSET Nat
    OBVIOUS
  <2> HIDE DEF P
  <2> QED BY <1>1, <1>2, <2>1, SetInduction
<1>4. n \in P
  BY <1>3
<1>5. PICK g \in [SUBSET (1 .. n) -> Y] : Run(n, g)
  BY <1>4
<1> QED BY <1>5 DEF LeftRuns

\* from_be_bytes reads a sequence of digits one by one.
LEMMA Reads ==
    ASSUME NEW bytes \in Seq(Byte)
    PROVE  \E v \in [0 .. Len(bytes) -> Nat] :
               /\ v[0] = 0
               /\ \A k \in 1 .. Len(bytes) : v[k] = v[k - 1] * Base + bytes[k]
               /\ from_be_bytes(bytes) = v[Len(bytes)]
<1> DEFINE n == Len(bytes)
           Digit(k) == IF k \in 1 .. n THEN bytes[k] ELSE 0
           F == [k \in Nat |-> [y \in Nat |-> y * Base + Digit(k)]]
           Next1(k, s) == IF s = {} THEN 0
                          ELSE k[s \ {Max(s)}] * Base + bytes[Max(s)]
           Rec(k) == k = [s \in SUBSET DOMAIN bytes |-> Next1(k, s)]
           h == CHOOSE k : Rec(k)
<1>1. /\ n \in Nat /\ DOMAIN bytes = 1 .. n /\ Base \in Nat
      /\ \A k \in 1 .. n : bytes[k] \in Nat
  BY WireAssumption DEF Byte
<1>2. from_be_bytes(bytes) = h[1 .. n]
  <2>1. from_be_bytes(bytes) = h[DOMAIN bytes]
    BY DEF from_be_bytes, FoldLeft, MapThenFoldSet
  <2> QED BY <1>1, <2>1
<1> HIDE DEF n, h
<1>3. Rec(h)
  <2>1. F \in [Nat -> [Nat -> Nat]]
    <3>1. ASSUME NEW k \in Nat, NEW y \in Nat PROVE y * Base + Digit(k) \in Nat
      <4>1. Digit(k) \in Nat
        BY <1>1
      <4> HIDE DEF Digit
      <4> QED BY <1>1, <4>1
    <3> HIDE DEF Digit
    <3> QED BY <3>1
  <2> HIDE DEF F
  <2>2. PICK g \in [SUBSET (1 .. n) -> Nat] :
            \A s \in SUBSET (1 .. n) : g[s] = LeftStep(F, 0, g, s)
    <3>1. LeftRuns(Nat, F, 0, n) # {}
      BY <1>1, <2>1, LeftExists
    <3> QED BY <3>1 DEF LeftRuns
  <2>3. ASSUME NEW s \in SUBSET (1 .. n) PROVE g[s] = Next1(g, s)
    <3>1. CASE s = {}
      BY <2>2, <3>1 DEF LeftStep
    <3>2. CASE s # {}
      <4>1. Max(s) \in 1 .. n
        BY <1>1, <3>2, MaxIs
      <4>2. s \ {Max(s)} \in SUBSET (1 .. n)
        OBVIOUS
      <4>3. g[s \ {Max(s)}] \in Nat /\ Max(s) \in Nat
        BY <4>1, <4>2
      <4>4. g[s] = F[Max(s)][g[s \ {Max(s)}]]
        BY <2>2, <3>2 DEF LeftStep
      <4>5. F[Max(s)][g[s \ {Max(s)}]] = g[s \ {Max(s)}] * Base + Digit(Max(s))
        BY <4>3 DEF F
      <4> QED BY <3>2, <4>1, <4>4, <4>5
    <3> QED BY <3>1, <3>2
  <2> HIDE DEF Next1
  <2>4. g = [s \in SUBSET (1 .. n) |-> Next1(g, s)]
    BY <2>3
  <2>5. Rec(g)
    BY <1>1, <2>4
  <2> HIDE DEF Rec
  <2> QED BY <2>5, Zenon DEF h
<1>4. \A s \in SUBSET (1 .. n) : h[s] = Next1(h, s)
  <2> HIDE DEF Next1
  <2> QED BY <1>1, <1>3
<1> DEFINE v == [k \in 0 .. n |-> h[1 .. k]]
<1>5. h[1 .. 0] = 0
  <2>1. 1 .. 0 = {} /\ {} \in SUBSET (1 .. n)
    OBVIOUS
  <2> QED BY <1>4, <2>1
<1>6. ASSUME NEW k \in 1 .. n
      PROVE  h[1 .. k] = h[1 .. k - 1] * Base + bytes[k]
  <2>1. 1 .. k \in SUBSET (1 .. n) /\ k \in 1 .. k /\ (1 .. k) \ {k} = 1 .. k - 1
    BY <1>1
  <2>2. Max(1 .. k) \in 1 .. k /\ Max(1 .. k) >= k
    BY <1>1, <2>1, MaxIs
  <2>3. Max(1 .. k) = k
    BY <1>1, <2>2
  <2> QED BY <1>4, <2>1, <2>3
<1>7. \A k \in 0 .. n : h[1 .. k] \in Nat
  <2> DEFINE P == {k \in Nat : k <= n => h[1 .. k] \in Nat}
  <2>1. 0 \in P
    BY <1>5
  <2>2. ASSUME NEW k \in P PROVE k + 1 \in P
    <3> SUFFICES ASSUME k + 1 <= n PROVE h[1 .. k + 1] \in Nat
      OBVIOUS
    <3>1. k \in Nat /\ k <= n /\ k + 1 \in 1 .. n /\ (k + 1) - 1 = k
      BY <1>1
    <3>2. h[1 .. k] \in Nat
      BY <3>1
    <3>3. h[1 .. k + 1] = h[1 .. k] * Base + bytes[k + 1]
      BY <1>6, <3>1
    <3>4. \A x, y \in Nat : x * Base + y \in Nat
      BY <1>1
    <3>5. bytes[k + 1] \in Nat
      BY <1>1, <3>1
    <3> QED BY <3>2, <3>3, <3>4, <3>5
  <2>3. P = Nat
    <3>1. P \in SUBSET Nat
      OBVIOUS
    <3> HIDE DEF P
    <3> QED BY <2>1, <2>2, <3>1, SetInduction
  <2> QED BY <1>1, <2>3
<1>8. /\ v \in [0 .. n -> Nat] /\ v[0] = 0 /\ from_be_bytes(bytes) = v[n]
      /\ \A k \in 1 .. n : v[k] = v[k - 1] * Base + bytes[k]
  <2>1. \A k \in 0 .. n : v[k] = h[1 .. k]
    OBVIOUS
  <2>2. 0 \in 0 .. n /\ n \in 0 .. n /\ \A k \in 1 .. n : k \in 0 .. n /\ k - 1 \in 0 .. n
    BY <1>1
  <2>3. v \in [0 .. n -> Nat]
    BY <1>7
  <2> HIDE DEF v
  <2> QED BY <1>2, <1>5, <1>6, <2>1, <2>2, <2>3
<1> HIDE DEF v
<1> QED BY <1>8 DEF n

\* The weights of the digits.
LEMMA Weights ==
    /\ Weight \in [0 .. HeaderLen -> Nat \ {0}] /\ Weight[0] = 1
    /\ \A k \in 1 .. HeaderLen : Weight[k] = Base * Weight[k - 1]
<1> DEFINE Y == Nat \ {0}
           F == [k \in Nat |-> [y \in Y |-> Base * y]]
           Rec(w) == w = [k \in 0 .. HeaderLen |->
                             IF k = 0 THEN 1 ELSE Base * w[k - 1]]
<1>1. Base \in Nat \ {0} /\ HeaderLen \in Nat /\ HeaderLen >= 1
  BY WireAssumption
<1>2. PICK v \in [0 .. HeaderLen -> Y] :
          v[0] = 1 /\ \A k \in 1 .. HeaderLen : v[k] = F[k][v[k - 1]]
  <2>1. \A x, y \in Y : x * y \in Y
    OBVIOUS
  <2>2. F \in [Nat -> [Y -> Y]] /\ 1 \in Y
    BY <1>1, <2>1
  <2> HIDE DEF F, Y
  <2>3. Recurrences(Y, F, 1, HeaderLen) # {}
    BY <1>1, <2>2, Recurrence
  <2> QED BY <2>3 DEF Recurrences
<1>3. \A k \in 1 .. HeaderLen : v[k] = Base * v[k - 1]
  <2>1. \A k \in 1 .. HeaderLen : k \in Nat /\ v[k - 1] \in Y
    BY <1>1
  <2> QED BY <1>2, <2>1
<1>4. Rec(v)
  <2>1. \A k \in 0 .. HeaderLen : k # 0 => k \in 1 .. HeaderLen
    OBVIOUS
  <2> HIDE DEF F, Y
  <2> QED BY <1>2, <1>3, <2>1
<1>5. Rec(Weight)
  <2> DEFINE h == CHOOSE w : Rec(w)
  <2>1. Weight = h
    BY DEF Weight
  <2> HIDE DEF Rec
  <2>2. Rec(h)
    BY <1>4, Zenon
  <2> QED BY <2>1, <2>2, Zenon
<1>6. Weight[0] = 1 /\ \A k \in 1 .. HeaderLen : Weight[k] = Base * Weight[k - 1]
  <2> DEFINE W == Weight
  <2>1. Rec(W)
    BY <1>5
  <2> HIDE DEF W
  <2>2. W[0] = 1 /\ \A k \in 1 .. HeaderLen : W[k] = Base * W[k - 1]
    BY <1>1, <2>1
  <2> QED BY <2>2 DEF W
<1>7. \A k \in 0 .. HeaderLen : Weight[k] \in Y
  <2> DEFINE P == {k \in Nat : k <= HeaderLen => Weight[k] \in Y}
  <2>1. 0 \in P
    BY <1>6
  <2>2. ASSUME NEW k \in P PROVE k + 1 \in P
    <3> SUFFICES ASSUME k + 1 <= HeaderLen PROVE Weight[k + 1] \in Y
      OBVIOUS
    <3>1. k \in Nat /\ k + 1 \in 1 .. HeaderLen /\ k <= HeaderLen /\ (k + 1) - 1 = k
      BY <1>1
    <3>2. Weight[k] \in Y /\ Weight[k + 1] = Base * Weight[k]
      BY <1>6, <3>1
    <3>3. \A x, y \in Y : x * y \in Y
      OBVIOUS
    <3>4. Base \in Y
      BY <1>1
    <3> HIDE DEF Y
    <3> QED BY <3>2, <3>3, <3>4
  <2>3. P = Nat
    <3>1. P \in SUBSET Nat
      OBVIOUS
    <3> HIDE DEF P
    <3> QED BY <2>1, <2>2, <3>1, SetInduction
  <2> QED BY <1>1, <2>3
<1>8. Weight \in [0 .. HeaderLen -> Y]
  <2> DEFINE W == Weight
  <2>1. Rec(W) /\ \A k \in 0 .. HeaderLen : W[k] \in Y
    BY <1>5, <1>7
  <2>2. W = [k \in 0 .. HeaderLen |-> W[k]]
    BY <2>1
  <2> HIDE DEF W, Y
  <2>3. W \in [0 .. HeaderLen -> Y]
    BY <2>1, <2>2
  <2> QED BY <2>3 DEF W
<1> QED BY <1>6, <1>8

\* Division and its remainder, for a weight and the next.
LEMMA Divides ==
    ASSUME NEW n \in Nat, NEW q \in Nat \ {0}
    PROVE  /\ n \div q \in Nat /\ (n \div q) % Base \in Byte
           /\ n \div q = (n \div (Base * q)) * Base + ((n \div q) % Base)
           /\ n < q => n \div q = 0
           /\ n \div 1 = n
<1>1. Base \in Nat \ {0}
  BY WireAssumption
<1>2. \A a \in Nat, b \in Nat \ {0} : a \div b \in Nat
  OBVIOUS
<1>3. \A a \in Nat, b \in Nat \ {0} : a % b \in 0 .. b - 1
  OBVIOUS
<1>4. \A a \in Nat, b \in Nat \ {0} : a = (a \div b) * b + (a % b)
  OBVIOUS
<1>5. n \div (Base * q) = (n \div q) \div Base
  <2>1. \A a \in Nat, b \in Nat \ {0}, d \in Nat \ {0} :
            a \div (b * d) = (a \div b) \div d
    OBVIOUS
  <2>2. Base * q = q * Base
    BY <1>1
  <2> QED BY <1>1, <2>1, <2>2
<1>6. n < q => n \div q = 0
  OBVIOUS
<1>7. n \div 1 = n
  OBVIOUS
<1>8. n \div q \in Nat
  BY <1>2
<1> DEFINE a == n \div q
<1>9. a \in Nat /\ n \div (Base * q) = a \div Base
  BY <1>5, <1>8
<1> HIDE DEF a
<1>10. a % Base \in Byte /\ a = (a \div Base) * Base + (a % Base)
  BY <1>1, <1>3, <1>4, <1>9 DEF Byte
<1> QED BY <1>6, <1>7, <1>8, <1>9, <1>10 DEF a

\* A length that the header can hold is read back as it was written.
LEMMA ReadsBack ==
    ASSUME NEW n \in 0 .. Weight[HeaderLen] - 1
    PROVE  /\ to_be_bytes(n) \in Seq(Byte) /\ Len(to_be_bytes(n)) = HeaderLen
           /\ from_be_bytes(to_be_bytes(n)) = n
<1> DEFINE W(k) == Weight[HeaderLen - k]
           bytes == to_be_bytes(n)
<1>1. /\ Base \in Nat \ {0} /\ HeaderLen \in Nat /\ HeaderLen >= 1
      /\ Weight[HeaderLen] \in Nat /\ n \in Nat /\ n < Weight[HeaderLen]
  <2>1. Base \in Nat \ {0} /\ HeaderLen \in Nat /\ HeaderLen >= 1
    BY WireAssumption
  <2>2. Weight[HeaderLen] \in Nat
    BY <2>1, Weights
  <2> QED BY <2>1, <2>2
<1>2. ASSUME NEW k \in 0 .. HeaderLen PROVE W(k) \in Nat \ {0}
  <2>1. HeaderLen - k \in 0 .. HeaderLen
    BY <1>1
  <2> QED BY <2>1, Weights
<1>3. ASSUME NEW k \in 1 .. HeaderLen PROVE W(k - 1) = Base * W(k)
  <2>1. HeaderLen - k + 1 \in 1 .. HeaderLen /\ HeaderLen - (k - 1) = HeaderLen - k + 1
        /\ (HeaderLen - k + 1) - 1 = HeaderLen - k
    BY <1>1
  <2> QED BY <2>1, Weights
<1>4. W(0) = Weight[HeaderLen] /\ W(HeaderLen) = 1
  <2>1. HeaderLen - 0 = HeaderLen /\ HeaderLen - HeaderLen = 0
    BY <1>1
  <2> QED BY <2>1, Weights
<1>5. bytes = [k \in 1 .. HeaderLen |-> (n \div W(k)) % Base]
  BY DEF to_be_bytes
<1> HIDE DEF W, bytes
<1>6. ASSUME NEW k \in 1 .. HeaderLen PROVE bytes[k] = (n \div W(k)) % Base
  BY <1>5
<1>7. bytes \in Seq(Byte) /\ Len(bytes) = HeaderLen
  <2>1. ASSUME NEW k \in 1 .. HeaderLen PROVE (n \div W(k)) % Base \in Byte
    <3>1. W(k) \in Nat \ {0}
      BY <1>2
    <3> QED BY <1>1, <3>1, Divides
  <2>2. bytes \in [1 .. HeaderLen -> Byte]
    BY <1>5, <2>1
  <2>3. bytes \in Seq(Byte)
    BY <1>1, <2>2
  <2> QED BY <1>1, <2>2, <2>3
<1>8. PICK v \in [0 .. HeaderLen -> Nat] :
          /\ v[0] = 0 /\ from_be_bytes(bytes) = v[HeaderLen]
          /\ \A k \in 1 .. HeaderLen : v[k] = v[k - 1] * Base + bytes[k]
  BY <1>7, Reads
<1>9. \A k \in 0 .. HeaderLen : v[k] = n \div W(k)
  <2> DEFINE P == {k \in Nat : k <= HeaderLen => v[k] = n \div W(k)}
  <2>1. 0 \in P
    <3>1. n \div W(0) = 0
      <4>1. W(0) \in Nat \ {0} /\ n < W(0)
        BY <1>1, <1>2, <1>4
      <4> QED BY <1>1, <4>1, Divides
    <3> QED BY <1>8, <3>1
  <2>2. ASSUME NEW k \in P PROVE k + 1 \in P
    <3> SUFFICES ASSUME k + 1 <= HeaderLen PROVE v[k + 1] = n \div W(k + 1)
      OBVIOUS
    <3>1. k \in Nat /\ k + 1 \in 1 .. HeaderLen /\ k <= HeaderLen /\ (k + 1) - 1 = k
          /\ k + 1 \in 0 .. HeaderLen
      BY <1>1
    <3>2. v[k] = n \div W(k)
      BY <3>1
    <3>3. W(k) = Base * W(k + 1) /\ W(k + 1) \in Nat \ {0}
      BY <1>2, <1>3, <3>1
    <3>4. n \div W(k + 1) = (n \div (Base * W(k + 1))) * Base + ((n \div W(k + 1)) % Base)
      BY <1>1, <3>3, Divides
    <3>5. v[k + 1] = v[k] * Base + ((n \div W(k + 1)) % Base)
      BY <1>6, <1>8, <3>1
    <3> QED BY <3>2, <3>3, <3>4, <3>5, Zenon
  <2>3. P = Nat
    <3>1. P \in SUBSET Nat
      OBVIOUS
    <3> HIDE DEF P
    <3> QED BY <2>1, <2>2, <3>1, SetInduction
  <2> QED BY <1>1, <2>3
<1>10. v[HeaderLen] = n
  <2>1. v[HeaderLen] = n \div 1
    BY <1>1, <1>4, <1>9
  <2> QED BY <1>1, <2>1
<1> QED BY <1>7, <1>8, <1>10 DEF bytes

\* The frames that clients send, and what their bytes are: a length, and as
\* much after it if it is one that frames may have.
Legal == {f \in DOMAIN Payload \cup {Zero, Garbage} :
             f \in DOMAIN Payload => Encodable(f)}

LEMMA FrameShape ==
    ASSUME NEW f \in Legal
    PROVE  \E n \in 0 .. Weight[HeaderLen] - 1, p \in Seq(Byte) :
               /\ Bytes(f) = to_be_bytes(n) \o p
               /\ n \in 1 .. MAX_FRAME_LEN =>
                      Len(p) = n /\ f \in DOMAIN Payload /\ Payload[f] = p
               /\ n \notin 1 .. MAX_FRAME_LEN => p = << >>
               /\ n = 0 => f = Zero
               /\ n > MAX_FRAME_LEN => f = Garbage
<1>1. /\ MAX_FRAME_LEN \in Nat /\ MAX_FRAME_LEN >= 1 /\ Weight[HeaderLen] \in Nat
      /\ MAX_FRAME_LEN + 1 <= Weight[HeaderLen] - 1
  <2>1. HeaderLen \in 0 .. HeaderLen
    BY WireAssumption
  <2>2. Weight[HeaderLen] \in Nat
    BY <2>1, Weights
  <2>3. MAX_FRAME_LEN \in 1 .. Weight[HeaderLen] - 2
    BY WireAssumption
  <2> HIDE DEF Weight
  <2> QED BY <2>2, <2>3
<1>2. ASSUME NEW n \in 0 .. Weight[HeaderLen] - 1
      PROVE  to_be_bytes(n) \in Seq(Byte) /\ to_be_bytes(n) \o << >> = to_be_bytes(n)
  <2>1. to_be_bytes(n) \in Seq(Byte)
    BY ReadsBack
  <2> QED BY <2>1
<1>3. CASE f = Zero
  <2>1. /\ 0 \in 0 .. Weight[HeaderLen] - 1 /\ 0 \notin 1 .. MAX_FRAME_LEN
        /\ ~(0 > MAX_FRAME_LEN)
    BY <1>1
  <2>2. Bytes(f) = to_be_bytes(0)
    BY <1>3 DEF Bytes, Zero, Garbage
  <2>3. << >> \in Seq(Byte)
    OBVIOUS
  <2>4. Bytes(f) = to_be_bytes(0) \o << >>
    BY <1>2, <2>1, <2>2
  <2> QED BY <1>3, <2>1, <2>3, <2>4
<1>4. CASE f = Garbage
  <2> DEFINE m == MAX_FRAME_LEN + 1
  <2>1. m \in 0 .. Weight[HeaderLen] - 1 /\ m \notin 1 .. MAX_FRAME_LEN /\ m # 0
    BY <1>1
  <2>2. Bytes(f) = to_be_bytes(m)
    BY <1>4 DEF Bytes, Zero, Garbage
  <2>3. << >> \in Seq(Byte)
    OBVIOUS
  <2> HIDE DEF m
  <2>4. Bytes(f) = to_be_bytes(m) \o << >>
    BY <1>2, <2>1, <2>2
  <2> QED BY <1>4, <2>1, <2>3, <2>4
<1>5. CASE f # Zero /\ f # Garbage
  <2> DEFINE p == Payload[f]
             m == Len(p)
  <2>1. f \in DOMAIN Payload /\ m <= MAX_FRAME_LEN
    BY <1>5 DEF Legal, Encodable
  <2>2. p \in Seq(Byte) /\ p # << >>
    BY <2>1, WireAssumption
  <2>3. m \in Nat /\ m >= 1
    <3> HIDE DEF p
    <3> QED BY <2>2
  <2>4. Bytes(f) = to_be_bytes(m) \o p
    BY <1>5 DEF Bytes, encode_framed
  <2> HIDE DEF m
  <2>5. /\ m \in 0 .. Weight[HeaderLen] - 1 /\ m \in 1 .. MAX_FRAME_LEN
        /\ m # 0 /\ ~(m > MAX_FRAME_LEN)
    BY <1>1, <2>1, <2>3
  <2> QED BY <2>1, <2>2, <2>4, <2>5 DEF m
<1> QED BY <1>3, <1>4, <1>5

LEMMA FrameBytes ==
    ASSUME NEW f \in Legal
    PROVE  Bytes(f) \in Seq(Byte)
<1>1. PICK n \in 0 .. Weight[HeaderLen] - 1, p \in Seq(Byte) :
          Bytes(f) = to_be_bytes(n) \o p
  BY FrameShape
<1>2. to_be_bytes(n) \in Seq(Byte)
  BY ReadsBack
<1> QED BY <1>1, <1>2

\* Stream appends the bytes of one frame after the other.
Flows(s) ==
    {e \in [0 .. Len(s) -> Seq(Byte)] :
        /\ e[0] = << >>
        /\ \A k \in 1 .. Len(s) : e[k] = e[k - 1] \o Bytes(s[k])
        /\ Stream(s) = e[Len(s)]}

LEMMA Flowing ==
    ASSUME NEW s \in Seq(Legal)
    PROVE  Flows(s) # {}
<1> DEFINE Y == Seq(Byte)
           n == Len(s)
           Chunk(k) == IF k \in 1 .. n THEN Bytes(s[k]) ELSE << >>
           F == [k \in Nat |-> [y \in Y |-> y \o Chunk(k)]]
           Next1(k, t) == IF t = {} THEN << >>
                          ELSE k[t \ {Max(t)}] \o Bytes(s[Max(t)])
           Rec(k) == k = [t \in SUBSET DOMAIN s |-> Next1(k, t)]
           h == CHOOSE k : Rec(k)
<1>1. n \in Nat /\ DOMAIN s = 1 .. n /\ \A k \in 1 .. n : s[k] \in Legal
  OBVIOUS
<1>2. \A k \in 1 .. n : Bytes(s[k]) \in Y
  BY <1>1, FrameBytes
<1>3. Stream(s) = h[1 .. n]
  <2>1. Stream(s) = h[DOMAIN s]
    BY DEF Stream, FoldLeft, MapThenFoldSet
  <2> QED BY <1>1, <2>1
<1>4. << >> \in Y /\ \A x, y \in Y : x \o y \in Y
  OBVIOUS
<1> HIDE DEF n, h, Y
<1>5. Rec(h)
  <2>1. F \in [Nat -> [Y -> Y]]
    <3>1. ASSUME NEW k \in Nat, NEW y \in Y PROVE y \o Chunk(k) \in Y
      BY <1>2, <1>4
    <3> HIDE DEF Chunk
    <3> QED BY <3>1
  <2> HIDE DEF F
  <2>2. PICK g \in [SUBSET (1 .. n) -> Y] :
            \A t \in SUBSET (1 .. n) : g[t] = LeftStep(F, << >>, g, t)
    <3>1. LeftRuns(Y, F, << >>, n) # {}
      BY <1>1, <1>4, <2>1, LeftExists
    <3> QED BY <3>1 DEF LeftRuns
  <2>3. ASSUME NEW t \in SUBSET (1 .. n) PROVE g[t] = Next1(g, t)
    <3>1. CASE t = {}
      BY <2>2, <3>1 DEF LeftStep
    <3>2. CASE t # {}
      <4>1. Max(t) \in 1 .. n
        BY <1>1, <3>2, MaxIs
      <4>2. t \ {Max(t)} \in SUBSET (1 .. n)
        OBVIOUS
      <4>3. g[t \ {Max(t)}] \in Y /\ Max(t) \in Nat
        BY <4>1, <4>2
      <4>4. g[t] = F[Max(t)][g[t \ {Max(t)}]]
        BY <2>2, <3>2 DEF LeftStep
      <4>5. F[Max(t)][g[t \ {Max(t)}]] = g[t \ {Max(t)}] \o Chunk(Max(t))
        BY <4>3 DEF F
      <4> QED BY <3>2, <4>1, <4>4, <4>5
    <3> QED BY <3>1, <3>2
  <2> HIDE DEF Next1
  <2>4. g = [t \in SUBSET (1 .. n) |-> Next1(g, t)]
    BY <2>3
  <2>5. Rec(g)
    BY <1>1, <2>4
  <2> HIDE DEF Rec
  <2> QED BY <2>5, Zenon DEF h
<1>6. \A t \in SUBSET (1 .. n) : h[t] = Next1(h, t)
  <2> HIDE DEF Next1
  <2> QED BY <1>1, <1>5
<1> DEFINE e == [k \in 0 .. n |-> h[1 .. k]]
<1>7. h[1 .. 0] = << >>
  <2>1. 1 .. 0 = {} /\ {} \in SUBSET (1 .. n)
    OBVIOUS
  <2> QED BY <1>6, <2>1
<1>8. ASSUME NEW k \in 1 .. n PROVE h[1 .. k] = h[1 .. k - 1] \o Bytes(s[k])
  <2>1. 1 .. k \in SUBSET (1 .. n) /\ k \in 1 .. k /\ (1 .. k) \ {k} = 1 .. k - 1
    BY <1>1
  <2>2. Max(1 .. k) \in 1 .. k /\ Max(1 .. k) >= k
    BY <1>1, <2>1, MaxIs
  <2>3. Max(1 .. k) = k
    BY <1>1, <2>2
  <2> QED BY <1>6, <2>1, <2>3
<1>9. \A k \in 0 .. n : h[1 .. k] \in Y
  <2> DEFINE P == {k \in Nat : k <= n => h[1 .. k] \in Y}
  <2>1. 0 \in P
    BY <1>4, <1>7
  <2>2. ASSUME NEW k \in P PROVE k + 1 \in P
    <3> SUFFICES ASSUME k + 1 <= n PROVE h[1 .. k + 1] \in Y
      OBVIOUS
    <3>1. k \in Nat /\ k <= n /\ k + 1 \in 1 .. n /\ (k + 1) - 1 = k
      BY <1>1
    <3>2. h[1 .. k] \in Y
      BY <3>1
    <3>3. h[1 .. k + 1] = h[1 .. k] \o Bytes(s[k + 1])
      BY <1>8, <3>1
    <3> QED BY <1>2, <1>4, <3>1, <3>2, <3>3
  <2>3. P = Nat
    <3>1. P \in SUBSET Nat
      OBVIOUS
    <3> HIDE DEF P
    <3> QED BY <2>1, <2>2, <3>1, SetInduction
  <2> QED BY <1>1, <2>3
<1>10. /\ e \in [0 .. n -> Y] /\ e[0] = << >> /\ Stream(s) = e[n]
       /\ \A k \in 1 .. n : e[k] = e[k - 1] \o Bytes(s[k])
  <2>1. \A k \in 0 .. n : e[k] = h[1 .. k]
    OBVIOUS
  <2>2. 0 \in 0 .. n /\ n \in 0 .. n /\ \A k \in 1 .. n : k \in 0 .. n /\ k - 1 \in 0 .. n
    BY <1>1
  <2>3. e \in [0 .. n -> Y]
    BY <1>9
  <2> HIDE DEF e
  <2> QED BY <1>3, <1>7, <1>8, <2>1, <2>2, <2>3
<1> HIDE DEF e
<1> QED BY <1>10 DEF Flows, n, Y

\* A stream by its last frame, and by its first.
LEMMA StreamNone == Stream(<< >>) = << >>
<1>1. << >> \in Seq(Legal) /\ Len(<< >>) = 0
  OBVIOUS
<1>2. PICK e : e \in Flows(<< >>)
  BY <1>1, Flowing
<1> QED BY <1>1, <1>2 DEF Flows

LEMMA StreamType ==
    ASSUME NEW s \in Seq(Legal)
    PROVE  Stream(s) \in Seq(Byte)
<1>1. PICK e : e \in Flows(s)
  BY Flowing
<1>2. Len(s) \in Nat
  OBVIOUS
<1> QED BY <1>1, <1>2 DEF Flows

LEMMA StreamAppend ==
    ASSUME NEW s \in Seq(Legal), NEW f \in Legal
    PROVE  Stream(Append(s, f)) = Stream(s) \o Bytes(f)
<1> DEFINE t == Append(s, f)
           n == Len(s)
<1>1. /\ t \in Seq(Legal) /\ n \in Nat /\ Len(t) = n + 1 /\ t[n + 1] = f
      /\ \A k \in 1 .. n : t[k] = s[k]
  OBVIOUS
<1> HIDE DEF t
<1>2. PICK e : e \in Flows(s)
  BY Flowing
<1>3. PICK d : d \in Flows(t)
  BY <1>1, Flowing
<1> HIDE DEF n
<1>4. /\ e[0] = << >> /\ Stream(s) = e[n]
      /\ \A k \in 1 .. n : e[k] = e[k - 1] \o Bytes(s[k])
  BY <1>2 DEF Flows, n
<1>5. /\ d[0] = << >> /\ Stream(t) = d[n + 1]
      /\ \A k \in 1 .. n + 1 : d[k] = d[k - 1] \o Bytes(t[k])
  BY <1>1, <1>3 DEF Flows
<1> DEFINE P == {k \in Nat : k <= n => d[k] = e[k]}
<1>6. 0 \in P
  BY <1>4, <1>5
<1>7. ASSUME NEW k \in P PROVE k + 1 \in P
  <2> SUFFICES ASSUME k + 1 <= n PROVE d[k + 1] = e[k + 1]
    OBVIOUS
  <2>1. k \in Nat /\ k <= n /\ k + 1 \in 1 .. n /\ k + 1 \in 1 .. n + 1 /\ (k + 1) - 1 = k
    BY <1>1
  <2>2. d[k] = e[k]
    BY <2>1
  <2> QED BY <1>1, <1>4, <1>5, <2>1, <2>2
<1>8. P = Nat
  <2>1. P \in SUBSET Nat
    OBVIOUS
  <2> HIDE DEF P
  <2> QED BY <1>6, <1>7, <2>1, SetInduction
<1>9. d[n] = e[n] /\ n + 1 \in 1 .. n + 1 /\ (n + 1) - 1 = n
  BY <1>1, <1>8
<1>10. d[n + 1] = d[n] \o Bytes(f)
  BY <1>1, <1>5, <1>9
<1> QED BY <1>4, <1>5, <1>9, <1>10 DEF t

LEMMA StreamHead ==
    ASSUME NEW s \in Seq(Legal), s # << >>
    PROVE  Stream(s) = Bytes(s[1]) \o Stream(Tail(s))
<1> DEFINE t == Tail(s)
           n == Len(t)
           b == Bytes(s[1])
<1>1. /\ t \in Seq(Legal) /\ n \in Nat /\ Len(s) = n + 1 /\ s[1] \in Legal
      /\ \A k \in 1 .. n : t[k] = s[k + 1] /\ t[k] \in Legal
  OBVIOUS
<1> HIDE DEF t
<1>2. PICK e : e \in Flows(s)
  BY Flowing
<1>3. PICK d : d \in Flows(t)
  BY <1>1, Flowing
<1>4. d \in [0 .. n -> Seq(Byte)]
  BY <1>3 DEF Flows
<1> HIDE DEF n
<1>5. /\ e[0] = << >> /\ Stream(s) = e[n + 1]
      /\ \A k \in 1 .. n + 1 : e[k] = e[k - 1] \o Bytes(s[k])
  BY <1>1, <1>2 DEF Flows
<1>6. /\ d[0] = << >> /\ Stream(t) = d[n]
      /\ \A k \in 1 .. n : d[k] = d[k - 1] \o Bytes(t[k])
  BY <1>3 DEF Flows, n
<1>7. b \in Seq(Byte)
  BY <1>1, FrameBytes
<1> HIDE DEF b
<1>8. \A x, y, z \in Seq(Byte) : /\ (x \o y) \o z = x \o (y \o z)
                                 /\ << >> \o x = x /\ x \o << >> = x
  OBVIOUS
<1> DEFINE P == {k \in Nat : k <= n => e[k + 1] = b \o d[k]}
<1>9. 0 \in P
  <2>1. 1 \in 1 .. n + 1 /\ 1 - 1 = 0
    BY <1>1
  <2>2. e[1] = << >> \o b
    BY <1>5, <2>1 DEF b
  <2>3. e[1] = b \o d[0] /\ 0 + 1 = 1
    BY <1>6, <1>7, <1>8, <2>2
  <2> QED BY <2>3
<1>10. ASSUME NEW k \in P PROVE k + 1 \in P
  <2> SUFFICES ASSUME k + 1 <= n PROVE e[(k + 1) + 1] = b \o d[k + 1]
    OBVIOUS
  <2>1. /\ k \in Nat /\ k <= n /\ k + 1 \in 1 .. n /\ (k + 1) - 1 = k
        /\ (k + 1) + 1 \in 1 .. n + 1 /\ ((k + 1) + 1) - 1 = k + 1
        /\ k \in 0 .. n
    BY <1>1
  <2>2. e[k + 1] = b \o d[k] /\ d[k] \in Seq(Byte)
    BY <1>4, <2>1
  <2>3. e[(k + 1) + 1] = e[k + 1] \o Bytes(t[k + 1])
    BY <1>1, <1>5, <2>1
  <2>4. d[k + 1] = d[k] \o Bytes(t[k + 1]) /\ Bytes(t[k + 1]) \in Seq(Byte)
    BY <1>1, <1>6, <2>1, FrameBytes
  <2>5. (b \o d[k]) \o Bytes(t[k + 1]) = b \o (d[k] \o Bytes(t[k + 1]))
    BY <1>7, <1>8, <2>2, <2>4
  <2> QED BY <2>2, <2>3, <2>4, <2>5, Zenon
<1>11. P = Nat
  <2>1. P \in SUBSET Nat
    OBVIOUS
  <2> HIDE DEF P
  <2> QED BY <1>9, <1>10, <2>1, SetInduction
<1>12. e[n + 1] = b \o d[n]
  <2>1. n \in P
    BY <1>1, <1>11
  <2>2. n <= n
    BY <1>1
  <2>3. n <= n => e[n + 1] = b \o d[n]
    BY <2>1, Zenon
  <2> QED BY <2>2, <2>3
<1> QED BY <1>5, <1>6, <1>12 DEF t, b
-----------------------------------------------------------------------------
(***************************************************************************)
(* The stream of a connection.                                             *)
(***************************************************************************)
LEMMA ConcatRight ==
    ASSUME NEW S, NEW x \in Seq(S), NEW y \in Seq(S), NEW j \in 1 .. Len(y)
    PROVE  (x \o y)[Len(x) + j] = y[j]
OBVIOUS

\* What is left of a stream when its first part is taken out of the front of
\* its two halves.
LEMMA Taken ==
    ASSUME NEW S, NEW x \in Seq(S), NEW y \in Seq(S), NEW b \in Seq(S),
           NEW r \in Seq(S), x \o y = b \o r, Len(b) <= Len(x)
    PROVE  /\ SubSeq(x, 1, Len(b)) = b
           /\ SubSeq(x, Len(b) + 1, Len(x)) \o y = r
<1> DEFINE m == Len(b)
           u == SubSeq(x, 1, m)
           z == SubSeq(x, m + 1, Len(x))
<1>1. m \in Nat /\ Len(x) \in Nat /\ Len(y) \in Nat /\ Len(r) \in Nat /\ m <= Len(x)
  OBVIOUS
<1>2. Len(x) + Len(y) = m + Len(r)
  <2>1. Len(x \o y) = Len(x) + Len(y) /\ Len(b \o r) = m + Len(r)
    OBVIOUS
  <2> QED BY <2>1
<1>3. \A i \in 1 .. m : x[i] = b[i]
  <2>1. \A i \in 1 .. m : (x \o y)[i] = x[i] /\ (b \o r)[i] = b[i]
    BY <1>1
  <2> QED BY <2>1
<1>4. /\ u \in Seq(S) /\ Len(u) = m /\ \A i \in 1 .. m : u[i] = x[i]
      /\ z \in Seq(S) /\ Len(z) = Len(x) - m
      /\ \A i \in 1 .. Len(x) - m : z[i] = x[m + i]
  BY <1>1
<1>5. u = b
  <2>1. Len(u) = Len(b) /\ \A i \in 1 .. Len(u) : u[i] = b[i]
    BY <1>3, <1>4
  <2> HIDE DEF u
  <2> QED BY <1>4, <2>1, SeqEqual
<1> HIDE DEF u, z
<1>6. z \o y = r
  <2>1. z \o y \in Seq(S) /\ Len(z \o y) = Len(r)
    BY <1>1, <1>2, <1>4
  <2>2. ASSUME NEW i \in 1 .. Len(r) PROVE (z \o y)[i] = r[i]
    <3>1. r[i] = (b \o r)[m + i]
      BY <1>1
    <3> HIDE DEF m
    <3>2. CASE i \in 1 .. Len(x) - m
      <4>1. (z \o y)[i] = z[i]
        BY <1>1, <1>4, <3>2
      <4>2. m + i \in 1 .. Len(x)
        BY <1>1, <3>2
      <4>3. (x \o y)[m + i] = x[m + i]
        BY <4>2
      <4> QED BY <1>4, <3>1, <3>2, <4>1, <4>3
    <3>3. CASE i \notin 1 .. Len(x) - m
      <4> DEFINE j == i - (Len(x) - m)
      <4>1. i = (Len(x) - m) + j /\ m + i = Len(x) + j /\ j \in Int
        BY <1>1
      <4>2. j \in 1 .. Len(y)
        BY <1>1, <1>2, <3>3
      <4> HIDE DEF j
      <4>3. (z \o y)[Len(z) + j] = y[j]
        <5>1. z \in Seq(S)
          BY <1>4, Zenon
        <5> QED BY <4>2, <5>1, ConcatRight, Zenon
      <4>4. (x \o y)[Len(x) + j] = y[j]
        BY <4>2, ConcatRight
      <4>5. i = Len(z) + j
        BY <1>1, <1>4, <4>1
      <4> QED BY <3>1, <4>1, <4>3, <4>4, <4>5
    <3> QED BY <3>2, <3>3
  <2>3. \A i \in 1 .. Len(z \o y) : (z \o y)[i] = r[i]
    BY <2>1, <2>2
  <2> QED BY <2>1, <2>3, SeqEqual
<1> QED BY <1>5, <1>6 DEF u, z

\* What is handled of a stream, and what is not.
Unhandled(c) == SubSeq(sent[c], handled[c] + 1, Len(sent[c]))

StreamTyped ==
    /\ decoder \in [Conns -> Seq(Byte)] /\ net \in [Conns -> Seq(Byte)]
    /\ sent \in [Conns -> Seq(Legal)] /\ handled \in [Conns -> Nat]
    /\ \A c \in Conns : handled[c] <= Len(sent[c])

StreamInv ==
    /\ StreamTyped
    /\ \A c \in Conns : decoder[c] \o net[c] = Stream(Unhandled(c))

\* The outcomes of try_next, by the length in the header.
LEMMA Outcomes ==
    ASSUME NEW x \in Seq(Byte), Len(x) >= HeaderLen, NEW n \in Nat,
           from_be_bytes(SubSeq(x, 1, HeaderLen)) = n
    PROVE  /\ n = 0 => try_next(x) = Decoded(Zero, Drained(x, HeaderLen))
           /\ n > MAX_FRAME_LEN => try_next(x) = Failure(x)
           /\ n \in 1 .. MAX_FRAME_LEN =>
                 IF Complete(x, n)
                 THEN try_next(x) = decode_payload(
                          SubSeq(x, HeaderLen + 1, HeaderLen + n),
                          Drained(x, HeaderLen + n))
                 ELSE try_next(x) = Nothing(x)
<1>1. MAX_FRAME_LEN \in Nat /\ HeaderLen \in Nat /\ Len(x) \in Nat
  <2>1. HeaderLen \in 0 .. HeaderLen
    BY WireAssumption
  <2>2. Weight[HeaderLen] \in Nat
    BY <2>1, Weights
  <2> QED BY <2>2, WireAssumption
<1>2. ~(Len(x) < HeaderLen)
  BY <1>1
<1>3. try_next(x) =
        CASE n = 0 -> Decoded(Zero, Drained(x, HeaderLen))
          [] n > MAX_FRAME_LEN -> Failure(x)
          [] n \in 1 .. MAX_FRAME_LEN /\ ~Complete(x, n) -> Nothing(x)
          [] OTHER -> decode_payload(SubSeq(x, HeaderLen + 1, HeaderLen + n),
                                     Drained(x, HeaderLen + n))
  BY <1>2, Zenon DEF try_next
<1> DEFINE t == try_next(x)
           A == Decoded(Zero, Drained(x, HeaderLen))
           B == Failure(x)
           C == Nothing(x)
           D == decode_payload(SubSeq(x, HeaderLen + 1, HeaderLen + n),
                               Drained(x, HeaderLen + n))
           full == Complete(x, n)
           L == 1 .. MAX_FRAME_LEN
<1>4. t = CASE n = 0 -> A [] n > MAX_FRAME_LEN -> B
            [] n \in L /\ ~full -> C [] OTHER -> D
  BY <1>3
<1>5. /\ n = 0 => ~(n > MAX_FRAME_LEN) /\ n \notin L
      /\ n > MAX_FRAME_LEN => n # 0 /\ n \notin L
      /\ n \in L => n # 0 /\ ~(n > MAX_FRAME_LEN)
  BY <1>1
<1> HIDE DEF t, A, B, C, D, full, L
<1>6. /\ n = 0 => t = A
      /\ n > MAX_FRAME_LEN => t = B
      /\ n \in L => IF full THEN t = D ELSE t = C
  BY <1>4, <1>5
<1> QED BY <1>6 DEF t, A, B, C, D, full, L

LEMMA Rests ==
    /\ \A f, b : Decoded(f, b).rest = b
    /\ \A b : Failure(b).outcome = "error" /\ Nothing(b).outcome = "none"
    /\ \A p, b : decode_payload(p, b).rest = b
<1>1. \A f, b : Decoded(f, b).rest = b
  BY DEF Decoded
<1>2. \A b : /\ Failure(b).outcome = "error" /\ Nothing(b).outcome = "none"
             /\ Failure(b).rest = b
  BY DEF Failure, Nothing
<1> QED BY <1>1, <1>2, Zenon DEF decode_payload

LEMMA Associates ==
    ASSUME NEW x \in Seq(Byte), NEW y \in Seq(Byte), NEW z \in Seq(Byte)
    PROVE  x \o y \in Seq(Byte) /\ (x \o y) \o z = x \o (y \o z)
OBVIOUS

\* The payload of a complete frame, cut out of the buffer that starts with it.
LEMMA PayloadTaken ==
    ASSUME NEW x \in Seq(Byte), NEW y \in Seq(Byte), NEW h \in Seq(Byte),
           NEW p \in Seq(Byte), NEW r \in Seq(Byte),
           x \o y = (h \o p) \o r, Len(h \o p) <= Len(x)
    PROVE  SubSeq(x, Len(h) + 1, Len(h) + Len(p)) = p
<1> DEFINE b == h \o p
           q == SubSeq(x, Len(h) + 1, Len(h) + Len(p))
<1>1. /\ b \in Seq(Byte) /\ Len(b) = Len(h) + Len(p)
      /\ Len(h) \in Nat /\ Len(p) \in Nat /\ Len(x) \in Nat
  OBVIOUS
<1>2. \A i \in 1 .. Len(p) : b[Len(h) + i] = p[i]
  BY ConcatRight
<1>3. SubSeq(x, 1, Len(b)) = b
  <2> HIDE DEF b
  <2> QED BY <1>1, Taken DEF b
<1> HIDE DEF b
<1>4. \A i \in 1 .. Len(b) : x[i] = b[i]
  <2>1. \A i \in 1 .. Len(b) : SubSeq(x, 1, Len(b))[i] = x[i]
    BY <1>1 DEF b
  <2> QED BY <1>3, <2>1
<1>5. /\ q \in Seq(Byte) /\ Len(q) = Len(p)
      /\ \A i \in 1 .. Len(p) : q[i] = x[Len(h) + i]
  BY <1>1 DEF b
<1> HIDE DEF q
<1>6. \A i \in 1 .. Len(q) : q[i] = p[i]
  <2> SUFFICES ASSUME NEW i \in 1 .. Len(p) PROVE q[i] = p[i]
    BY <1>5
  <2>1. Len(h) + i \in 1 .. Len(b)
    BY <1>1
  <2>2. x[Len(h) + i] = b[Len(h) + i]
    BY <1>4, <2>1, Zenon
  <2> QED BY <1>2, <1>5, <2>2, Zenon
<1>7. q = p
  BY <1>5, <1>6, SeqEqual
<1> QED BY <1>7 DEF q

\* A frame leaves the decoder as it came into the stream, and only what is no
\* frame makes the decoder fail.
LEMMA FrameTaken ==
    ASSUME NEW s \in Seq(Legal), NEW x \in Seq(Byte), NEW y \in Seq(Byte),
           x \o y = Stream(s), try_next(x).outcome # "none"
    PROVE  /\ s # << >>
           /\ try_next(x).outcome = "error" => s[1] = Garbage
           /\ try_next(x).outcome = "frame" =>
                  /\ try_next(x).frame = s[1]
                  /\ try_next(x).rest \in Seq(Byte)
                  /\ try_next(x).rest \o y = Stream(Tail(s))
<1>1. HeaderLen \in Nat /\ HeaderLen >= 1 /\ Len(x) \in Nat /\ Len(y) \in Nat
  BY WireAssumption
<1>2. Len(x) >= HeaderLen
  <2>1. ASSUME Len(x) < HeaderLen PROVE try_next(x).outcome = "none"
    BY <2>1 DEF try_next, Nothing
  <2> QED BY <1>1, <2>1
<1>3. s # << >>
  <2>1. ASSUME s = << >> PROVE FALSE
    <3>1. x \o y = << >>
      BY <2>1, StreamNone
    <3>2. Len(x \o y) = Len(x) + Len(y) /\ Len(<< >>) = 0
      OBVIOUS
    <3> QED BY <1>1, <1>2, <3>1, <3>2
  <2> QED BY <2>1
<1>4. s[1] \in Legal /\ Tail(s) \in Seq(Legal)
  BY <1>3
<1> DEFINE r == Stream(Tail(s))
<1>5. Stream(s) = Bytes(s[1]) \o r /\ r \in Seq(Byte)
  BY <1>3, <1>4, StreamHead, StreamType
<1> HIDE DEF r
<1>6. PICK n \in 0 .. Weight[HeaderLen] - 1, p \in Seq(Byte) :
          /\ Bytes(s[1]) = to_be_bytes(n) \o p
          /\ n \in 1 .. MAX_FRAME_LEN =>
                 Len(p) = n /\ s[1] \in DOMAIN Payload /\ Payload[s[1]] = p
          /\ n \notin 1 .. MAX_FRAME_LEN => p = << >>
          /\ n = 0 => s[1] = Zero
          /\ n > MAX_FRAME_LEN => s[1] = Garbage
  BY <1>4, FrameShape
<1> DEFINE h == to_be_bytes(n)
<1>7. h \in Seq(Byte) /\ Len(h) = HeaderLen /\ from_be_bytes(h) = n
  BY ReadsBack
<1>8. n \in Nat /\ MAX_FRAME_LEN \in Nat
  <2>1. HeaderLen \in 0 .. HeaderLen
    BY <1>1
  <2>2. Weight[HeaderLen] \in Nat
    BY <2>1, Weights
  <2> QED BY <2>2, WireAssumption
<1> HIDE DEF h
<1>9. x \o y = h \o (p \o r) /\ x \o y = (h \o p) \o r /\ p \o r \in Seq(Byte)
  <2>1. (h \o p) \o r = h \o (p \o r) /\ p \o r \in Seq(Byte)
    BY <1>5, <1>7, Associates, Zenon
  <2>2. x \o y = (h \o p) \o r
    BY <1>5, <1>6, Zenon DEF h
  <2> QED BY <2>1, <2>2, Zenon
<1>10. SubSeq(x, 1, HeaderLen) = h
  BY <1>2, <1>5, <1>7, <1>9, Taken
<1>11. from_be_bytes(SubSeq(x, 1, HeaderLen)) = n
  BY <1>7, <1>10
<1>12. \A k \in Nat : SubSeq(x, k + 1, Len(x)) \in Seq(Byte)
  BY <1>1
<1>13. CASE n = 0
  <2>1. /\ try_next(x).rest = SubSeq(x, HeaderLen + 1, Len(x))
        /\ try_next(x).frame = Zero /\ try_next(x).outcome = "frame"
    <3>1. try_next(x) = Decoded(Zero, Drained(x, HeaderLen))
      BY <1>2, <1>8, <1>11, <1>13, Outcomes
    <3>2. /\ Decoded(Zero, Drained(x, HeaderLen)).rest = Drained(x, HeaderLen)
          /\ Decoded(Zero, Drained(x, HeaderLen)).frame = Zero
          /\ Decoded(Zero, Drained(x, HeaderLen)).outcome = "frame"
      BY DEF Decoded
    <3>3. Drained(x, HeaderLen) = SubSeq(x, HeaderLen + 1, Len(x))
      BY DEF Drained
    <3> QED BY <3>1, <3>2, <3>3, Zenon
  <2>2. p \o r = r
    <3>1. n \notin 1 .. MAX_FRAME_LEN
      BY <1>8, <1>13
    <3>2. p = << >>
      BY <1>6, <3>1
    <3> QED BY <1>5, <3>2
  <2>3. SubSeq(x, HeaderLen + 1, Len(x)) \o y = p \o r
    BY <1>2, <1>5, <1>7, <1>9, Taken
  <2>4. SubSeq(x, HeaderLen + 1, Len(x)) \in Seq(Byte)
    BY <1>1, <1>12
  <2>5. s[1] = Zero
    BY <1>6, <1>13
  <2> QED BY <1>3, <2>1, <2>2, <2>3, <2>4, <2>5 DEF r
<1>14. CASE n > MAX_FRAME_LEN
  <2>1. try_next(x).outcome = "error"
    BY <1>2, <1>8, <1>11, <1>14, Outcomes, Rests
  <2>2. s[1] = Garbage
    BY <1>6, <1>14
  <2> QED BY <1>3, <2>1, <2>2
<1>15. CASE n \in 1 .. MAX_FRAME_LEN
  <2> DEFINE m == HeaderLen + n
  <2>1. Complete(x, n)
    <3>1. ASSUME ~Complete(x, n) PROVE try_next(x).outcome = "none"
      BY <1>2, <1>8, <1>11, <1>15, <3>1, Outcomes, Rests
    <3> QED BY <3>1
  <2>2. try_next(x) = decode_payload(SubSeq(x, HeaderLen + 1, m), Drained(x, m))
    BY <1>2, <1>8, <1>11, <1>15, <2>1, Outcomes
  <2>3. try_next(x).rest = SubSeq(x, m + 1, Len(x))
    <3> DEFINE z == Drained(x, m)
               q == SubSeq(x, HeaderLen + 1, m)
    <3>1. z = SubSeq(x, m + 1, Len(x))
      BY DEF Drained
    <3>2. try_next(x) = decode_payload(q, z)
      BY <2>2
    <3> HIDE DEF z, q
    <3>3. decode_payload(q, z).rest = z
      BY Rests
    <3> QED BY <3>1, <3>2, <3>3, Zenon
  <2>4. m \in Nat /\ Len(x) >= m
    BY <1>1, <1>8, <2>1 DEF Complete
  <2>5. Len(h \o p) = m /\ h \o p \in Seq(Byte)
    <3>1. Len(p) = n
      BY <1>6, <1>15
    <3>2. \A u, v \in Seq(Byte) : Len(u \o v) = Len(u) + Len(v) /\ u \o v \in Seq(Byte)
      OBVIOUS
    <3> QED BY <1>7, <3>1, <3>2, Zenon
  <2> HIDE DEF m
  <2>6. SubSeq(x, m + 1, Len(x)) \o y = r
    <3> DEFINE b == h \o p
    <3>1. b \in Seq(Byte) /\ Len(b) = m /\ x \o y = b \o r /\ Len(b) <= Len(x)
      BY <1>1, <1>9, <2>4, <2>5
    <3> HIDE DEF b
    <3>2. SubSeq(x, Len(b) + 1, Len(x)) \o y = r
      BY <1>5, <3>1, Taken
    <3> QED BY <3>1, <3>2
  <2>7. SubSeq(x, m + 1, Len(x)) \in Seq(Byte)
    BY <1>12, <2>4
  <2>8. try_next(x).outcome = "frame" /\ try_next(x).frame = s[1]
    <3> DEFINE z == Drained(x, m)
               q == SubSeq(x, HeaderLen + 1, m)
    <3>1. q = p
      <4>1. SubSeq(x, Len(h) + 1, Len(h) + Len(p)) = p
        BY <1>5, <1>7, <1>9, <2>4, <2>5, PayloadTaken
      <4>2. Len(h) = HeaderLen /\ Len(p) = n
        BY <1>6, <1>7, <1>15
      <4> QED BY <4>1, <4>2 DEF m
    <3>2. /\ s[1] \in DOMAIN Payload /\ Payload[s[1]] = p
          /\ \A f \in DOMAIN Payload : Payload[f] = p => f = s[1]
      <4>1. s[1] \in DOMAIN Payload /\ Payload[s[1]] = p
        BY <1>6, <1>15
      <4> QED BY <4>1, WireAssumption
    <3>3. try_next(x) = decode_payload(q, z)
      BY <2>2
    <3> HIDE DEF z, q
    <3>4. decode_payload(q, z) = Decoded(s[1], z)
      BY <3>1, <3>2 DEF decode_payload
    <3> QED BY <3>3, <3>4 DEF Decoded
  <2> QED BY <1>3, <2>3, <2>6, <2>7, <2>8 DEF r
<1>16. n = 0 \/ n > MAX_FRAME_LEN \/ n \in 1 .. MAX_FRAME_LEN
  BY <1>8
<1> QED BY <1>13, <1>14, <1>15, <1>16

\* What steps do to the stream of a connection: bytes are added at its end,
\* move from the network to the decoder, or leave with the frame they are.
Sends(c) ==
    \E f \in Legal :
        /\ sent' = [sent EXCEPT ![c] = Append(sent[c], f)]
        /\ net' = [net EXCEPT ![c] = net[c] \o Bytes(f)]
        /\ UNCHANGED <<decoder, handled>>

Moves(c) ==
    \E n \in 1 .. Len(net[c]) :
        /\ decoder' = [decoder EXCEPT ![c] = decoder[c] \o SubSeq(net[c], 1, n)]
        /\ net' = [net EXCEPT ![c] = SubSeq(net[c], n + 1, Len(net[c]))]
        /\ UNCHANGED <<sent, handled>>

Takes(c) ==
    /\ try_next(decoder[c]).outcome = "frame"
    /\ decoder' = [decoder EXCEPT ![c] = try_next(decoder[c]).rest]
    /\ handled' = [handled EXCEPT ![c] = handled[c] + 1]
    /\ UNCHANGED <<sent, net>>

LEMMA StreamSteps ==
    ASSUME StreamTyped, Next
    PROVE  \/ UNCHANGED <<decoder, net, sent, handled>>
           \/ \E d \in Conns : Sends(d) \/ Moves(d) \/ Takes(d)
<1>1. PICK d \in Conns : ConnStep(d) \/ WriterStep(d) \/ BillerStep(d)
                         \/ Overdue(d) \/ ClientCloses(d) \/ ClientSends(d)
  BY DEF Next
<1>2. CASE HandlerStep(d)
  BY <1>2 DEF HandlerStep, Collect, FanDone, Count, Notify, Tell, Shut, Fan,
              clientVars
<1>3. ASSUME NEW f, NextFrame(d, f) PROVE Takes(d)
  BY <1>3 DEF NextFrame, Takes
<1>4. CASE Receive(d)
  BY <1>4 DEF Receive, Moves
<1>5. CASE DecodeFails(d) \/ ReadClose(d)
  BY <1>5 DEF DecodeFails, ReadClose, clientVars
<1>6. CASE \/ HandleZero(d) \/ HandlePresence(d)
           \/ \E e \in Conns : HandleKick(d, e) \/ HandleDeny(d, e)
  <2>1. \E f : NextFrame(d, f)
    BY <1>6 DEF HandleZero, HandlePresence, HandleKick, HandleDeny
  <2> QED BY <1>3, <2>1
<1>7. CASE handle_disconnect(d)
  BY <1>7 DEF handle_disconnect, clientVars
<1>8. CASE WriterStep(d)
  BY <1>8 DEF WriterStep, Write, WriteFails, WriterEnds, taskVars, clientVars
<1>9. CASE BillerStep(d) \/ Overdue(d)
  BY <1>9 DEF BillerStep, BillerCloses, BillerEnds, Overdue, clientVars
<1>10. CASE ClientCloses(d)
  BY <1>10 DEF ClientCloses, taskVars
<1>11. CASE ClientSends(d)
  <2>1. PICK script \in Scripts[d] :
          LET f == script[Len(sent[d]) + 1] IN
          /\ Len(sent[d]) < Len(script)
          /\ f \in DOMAIN Payload => Encodable(f)
          /\ sent' = [sent EXCEPT ![d] = Append(sent[d], f)]
          /\ net' = [net EXCEPT ![d] = net[d] \o Bytes(f)]
    BY <1>11 DEF ClientSends
  <2> DEFINE k == Len(sent[d]) + 1
             f == script[k]
  <2>2. script \in Seq(DOMAIN Payload \cup {Zero, Garbage})
    BY ConnAssumption
  <2>3. k \in 1 .. Len(script)
    <3>1. sent[d] \in Seq(Legal)
      BY DEF StreamTyped
    <3>2. Len(sent[d]) \in Nat /\ Len(script) \in Nat
      BY <2>2, <3>1
    <3> QED BY <2>1, <3>2
  <2>4. f \in DOMAIN Payload \cup {Zero, Garbage}
    <3> HIDE DEF k
    <3> QED BY <2>2, <2>3
  <2>5. UNCHANGED <<decoder, handled>>
    BY <1>11 DEF ClientSends, taskVars
  <2>6. f \in Legal
    <3> HIDE DEF k
    <3> QED BY <2>1, <2>4 DEF Legal, k
  <2>7. /\ sent' = [sent EXCEPT ![d] = Append(sent[d], f)]
        /\ net' = [net EXCEPT ![d] = net[d] \o Bytes(f)]
    BY <2>1
  <2> HIDE DEF f
  <2> QED BY <2>5, <2>6, <2>7 DEF Sends
<1> QED BY <1>1, <1>2, <1>4, <1>5, <1>6, <1>7, <1>8, <1>9, <1>10, <1>11
        DEF ConnStep, ReaderStep

\* A stream that grows at its end, and one that loses its first frame.
LEMMA SendsEffect ==
    ASSUME StreamInv, NEW c \in Conns, Sends(c)
    PROVE  StreamInv'
<1>1. PICK f \in Legal :
          /\ sent' = [sent EXCEPT ![c] = Append(sent[c], f)]
          /\ net' = [net EXCEPT ![c] = net[c] \o Bytes(f)]
          /\ UNCHANGED <<decoder, handled>>
  BY DEF Sends
<1> DEFINE s == sent[c]
           h == handled[c]
           t == Append(s, f)
<1>2. /\ s \in Seq(Legal) /\ h \in Nat /\ h <= Len(s) /\ Len(s) \in Nat
      /\ t \in Seq(Legal) /\ Len(t) = Len(s) + 1
  <2>1. s \in Seq(Legal) /\ h \in Nat /\ h <= Len(s)
    BY DEF StreamInv, StreamTyped
  <2> QED BY <2>1
<1>3. /\ decoder[c] \in Seq(Byte) /\ net[c] \in Seq(Byte) /\ Bytes(f) \in Seq(Byte)
      /\ net[c] \o Bytes(f) \in Seq(Byte)
  <2>1. decoder[c] \in Seq(Byte) /\ net[c] \in Seq(Byte) /\ Bytes(f) \in Seq(Byte)
    BY FrameBytes DEF StreamInv, StreamTyped
  <2> QED BY <2>1
<1>4. /\ sent'[c] = t /\ net'[c] = net[c] \o Bytes(f)
      /\ \A d \in Conns \ {c} : sent'[d] = sent[d] /\ net'[d] = net[d]
  BY <1>1 DEF StreamInv, StreamTyped
<1>5. StreamTyped'
  <2>1. sent' \in [Conns -> Seq(Legal)] /\ net' \in [Conns -> Seq(Byte)]
    BY <1>1, <1>2, <1>3 DEF StreamInv, StreamTyped
  <2>2. decoder' \in [Conns -> Seq(Byte)] /\ handled' \in [Conns -> Nat]
    BY <1>1 DEF StreamInv, StreamTyped
  <2>3. ASSUME NEW d \in Conns PROVE handled'[d] <= Len(sent'[d])
    <3>1. CASE d = c
      BY <1>1, <1>2, <1>4, <3>1
    <3>2. CASE d # c
      BY <1>1, <1>4, <3>2 DEF StreamInv, StreamTyped
    <3> QED BY <3>1, <3>2
  <2> QED BY <2>1, <2>2, <2>3 DEF StreamTyped
<1>6. SubSeq(t, h + 1, Len(t)) = Append(SubSeq(s, h + 1, Len(s)), f)
      /\ SubSeq(s, h + 1, Len(s)) \in Seq(Legal)
  <2> DEFINE w == SubSeq(s, h + 1, Len(s))
             z == SubSeq(t, h + 1, Len(t))
  <2>1. \A i \in 1 .. Len(s) : t[i] = s[i]
    <3> HIDE DEF s
    <3> QED BY <1>2
  <2>2. t[Len(s) + 1] = f
    <3> HIDE DEF s
    <3> QED BY <1>2
  <2> HIDE DEF s, h, t
  <2>3. /\ w \in Seq(Legal) /\ Len(w) = Len(s) - h
        /\ \A i \in 1 .. Len(s) - h : w[i] = s[h + i]
    BY <1>2
  <2>4. /\ z \in Seq(Legal) /\ Len(z) = Len(s) + 1 - h
        /\ \A i \in 1 .. Len(s) + 1 - h : z[i] = t[h + i]
    BY <1>2
  <2> HIDE DEF w, z
  <2>5. /\ Append(w, f) \in Seq(Legal) /\ Len(Append(w, f)) = Len(w) + 1
        /\ \A i \in 1 .. Len(w) : Append(w, f)[i] = w[i]
        /\ Append(w, f)[Len(w) + 1] = f
    BY <2>3
  <2>6. Len(z) = Len(Append(w, f))
    BY <1>2, <2>3, <2>4, <2>5
  <2>7. ASSUME NEW i \in 1 .. Len(z) PROVE z[i] = Append(w, f)[i]
    <3>1. CASE i \in 1 .. Len(w)
      <4>1. h + i \in 1 .. Len(s) /\ i \in 1 .. Len(s) - h
        BY <1>2, <2>3, <3>1
      <4> QED BY <2>1, <2>3, <2>4, <2>5, <3>1, <4>1
    <3>2. CASE i \notin 1 .. Len(w)
      <4>1. i = Len(w) + 1 /\ h + i = Len(s) + 1
        BY <1>2, <2>3, <2>4, <3>2
      <4> QED BY <2>2, <2>4, <2>5, <4>1
    <3> QED BY <3>1, <3>2
  <2>8. z = Append(w, f)
    BY <2>4, <2>5, <2>6, <2>7, SeqEqual
  <2> QED BY <2>3, <2>8 DEF w, z
<1>7. ASSUME NEW d \in Conns PROVE decoder'[d] \o net'[d] = Stream(Unhandled(d))'
  <2>1. decoder[d] \o net[d] = Stream(Unhandled(d))
    BY DEF StreamInv
  <2>2. CASE d = c
    <3>1. Unhandled(c) = SubSeq(s, h + 1, Len(s))
      BY DEF Unhandled
    <3>2. Unhandled(c)' = SubSeq(t, h + 1, Len(t))
      BY <1>1, <1>4 DEF Unhandled
    <3>3. Stream(Unhandled(c)') = Stream(Unhandled(c)) \o Bytes(f)
      <4> DEFINE w == Unhandled(c)
      <4>1. w \in Seq(Legal) /\ Unhandled(c)' = Append(w, f)
        BY <1>6, <3>1, <3>2
      <4> HIDE DEF w
      <4>2. Stream(Append(w, f)) = Stream(w) \o Bytes(f)
        BY <4>1, StreamAppend
      <4> QED BY <4>1, <4>2, Zenon DEF w
    <3>4. decoder'[c] \o net'[c] = decoder[c] \o (net[c] \o Bytes(f))
      BY <1>1, <1>4
    <3>5. (decoder[c] \o net[c]) \o Bytes(f) = decoder[c] \o (net[c] \o Bytes(f))
      <4> DEFINE x == decoder[c]
                 y == net[c]
                 z == Bytes(f)
      <4>1. x \in Seq(Byte) /\ y \in Seq(Byte) /\ z \in Seq(Byte)
        BY <1>3
      <4> HIDE DEF x, y, z
      <4>2. x \o y \in Seq(Byte) /\ (x \o y) \o z = x \o (y \o z)
        BY <4>1, Associates
      <4> QED BY <4>2 DEF x, y, z
    <3> QED BY <2>1, <2>2, <3>3, <3>4, <3>5, Zenon
  <2>3. CASE d # c
    <3>1. sent'[d] = sent[d] /\ net'[d] = net[d] /\ decoder' = decoder
          /\ handled' = handled
      BY <1>1, <1>4, <2>3
    <3>2. Unhandled(d)' = Unhandled(d)
      BY <3>1 DEF Unhandled
    <3> QED BY <2>1, <3>1, <3>2, Zenon
  <2> QED BY <2>2, <2>3
<1> QED BY <1>5, <1>7 DEF StreamInv

LEMMA MovesEffect ==
    ASSUME StreamInv, NEW c \in Conns, Moves(c)
    PROVE  StreamInv'
<1> DEFINE x == decoder[c]
           y == net[c]
<1>1. PICK n \in 1 .. Len(y) :
          /\ decoder' = [decoder EXCEPT ![c] = x \o SubSeq(y, 1, n)]
          /\ net' = [net EXCEPT ![c] = SubSeq(y, n + 1, Len(y))]
          /\ UNCHANGED <<sent, handled>>
  BY DEF Moves
<1>2. x \in Seq(Byte) /\ y \in Seq(Byte)
  BY DEF StreamInv, StreamTyped
<1> DEFINE u == SubSeq(y, 1, n)
           v == SubSeq(y, n + 1, Len(y))
<1>3. u \in Seq(Byte) /\ v \in Seq(Byte) /\ u \o v = y
  <2> HIDE DEF y
  <2>1. Len(y) \in Nat /\ n \in Nat /\ n >= 1 /\ n <= Len(y)
    BY <1>2
  <2>2. /\ u \in Seq(Byte) /\ Len(u) = n /\ \A i \in 1 .. n : u[i] = y[i]
        /\ v \in Seq(Byte) /\ Len(v) = Len(y) - n
        /\ \A i \in 1 .. Len(y) - n : v[i] = y[n + i]
    BY <1>2, <2>1
  <2> HIDE DEF u, v
  <2>3. u \o v \in Seq(Byte) /\ Len(u \o v) = Len(y)
    BY <2>1, <2>2
  <2>4. ASSUME NEW i \in 1 .. Len(y) PROVE (u \o v)[i] = y[i]
    <3>1. CASE i \in 1 .. n
      BY <2>1, <2>2, <3>1
    <3>2. CASE i \notin 1 .. n
      <4> DEFINE j == i - n
      <4>1. j \in 1 .. Len(y) - n /\ i = n + j
        BY <2>1, <3>2
      <4> HIDE DEF j
      <4>2. j \in 1 .. Len(v)
        BY <2>2, <4>1
      <4>3. (u \o v)[Len(u) + j] = v[j]
        BY <2>2, <4>2, ConcatRight
      <4> QED BY <2>2, <4>1, <4>3
    <3> QED BY <3>1, <3>2
  <2>5. \A i \in 1 .. Len(u \o v) : (u \o v)[i] = y[i]
    BY <2>3, <2>4
  <2> QED BY <1>2, <2>2, <2>3, <2>5, SeqEqual
<1>4. x \o u \in Seq(Byte) /\ (x \o u) \o v = x \o y
  <2> HIDE DEF u, v, x, y
  <2>1. x \o u \in Seq(Byte) /\ (x \o u) \o v = x \o (u \o v)
    <3>1. x \in Seq(Byte) /\ u \in Seq(Byte) /\ v \in Seq(Byte)
      BY <1>2, <1>3
    <3> QED BY <3>1, Associates, Zenon
  <2> QED BY <1>3, <2>1, Zenon
<1>5. /\ decoder'[c] = x \o u /\ net'[c] = v
      /\ \A d \in Conns \ {c} : decoder'[d] = decoder[d] /\ net'[d] = net[d]
  BY <1>1 DEF StreamInv, StreamTyped
<1>6. StreamTyped'
  <2>1. decoder' \in [Conns -> Seq(Byte)] /\ net' \in [Conns -> Seq(Byte)]
    BY <1>1, <1>3, <1>4 DEF StreamInv, StreamTyped
  <2> QED BY <1>1, <2>1 DEF StreamInv, StreamTyped
<1>7. ASSUME NEW d \in Conns PROVE decoder'[d] \o net'[d] = Stream(Unhandled(d))'
  <2>1. decoder[d] \o net[d] = Stream(Unhandled(d))
    BY DEF StreamInv
  <2>2. Unhandled(d)' = Unhandled(d)
    BY <1>1 DEF Unhandled
  <2>3. decoder'[d] \o net'[d] = decoder[d] \o net[d]
    <3>1. CASE d = c
      BY <1>4, <1>5, <3>1, Zenon
    <3>2. CASE d # c
      BY <1>5, <3>2
    <3> QED BY <3>1, <3>2
  <2> QED BY <2>1, <2>2, <2>3, Zenon
<1> QED BY <1>6, <1>7 DEF StreamInv

LEMMA TakesEffect ==
    ASSUME StreamInv, NEW c \in Conns, Takes(c)
    PROVE  StreamInv'
<1> DEFINE s == sent[c]
           h == handled[c]
           u == Unhandled(c)
           x == decoder[c]
           r == try_next(x).rest
<1>1. s \in Seq(Legal) /\ h \in Nat /\ h <= Len(s) /\ Len(s) \in Nat
  <2>1. s \in Seq(Legal) /\ h \in Nat /\ h <= Len(s)
    BY DEF StreamInv, StreamTyped
  <2> QED BY <2>1
<1>2. u = SubSeq(s, h + 1, Len(s)) /\ u \in Seq(Legal)
  <2>1. u = SubSeq(s, h + 1, Len(s))
    BY DEF Unhandled
  <2> HIDE DEF s, h, u
  <2> QED BY <1>1, <2>1
<1>3. x \in Seq(Byte) /\ net[c] \in Seq(Byte)
  BY DEF StreamInv, StreamTyped
<1>4. /\ x \o net[c] = Stream(u) /\ try_next(x).outcome = "frame"
      /\ try_next(x).outcome # "none"
  BY DEF StreamInv, Takes
<1>5. u # << >> /\ r \in Seq(Byte) /\ r \o net[c] = Stream(Tail(u))
  <2> HIDE DEF u, x
  <2> QED BY <1>2, <1>3, <1>4, FrameTaken
<1>6. h + 1 <= Len(s) /\ Tail(u) = SubSeq(s, (h + 1) + 1, Len(s))
  <2> HIDE DEF s, h, u
  <2>1. h + 1 <= Len(s)
    BY <1>1, <1>2, <1>5
  <2> DEFINE w == SubSeq(s, (h + 1) + 1, Len(s))
  <2>2. /\ w \in Seq(Legal) /\ Len(w) = Len(s) - (h + 1)
        /\ \A i \in 1 .. Len(s) - (h + 1) : w[i] = s[(h + 1) + i]
    BY <1>1, <2>1
  <2>3. Len(u) = Len(s) - h /\ \A i \in 1 .. Len(s) - h : u[i] = s[h + i]
    BY <1>1, <1>2
  <2> HIDE DEF w
  <2>4. /\ Tail(u) \in Seq(Legal) /\ Len(Tail(u)) = Len(u) - 1
        /\ \A i \in 1 .. Len(u) - 1 : Tail(u)[i] = u[i + 1]
    BY <1>2, <1>5
  <2>5. Len(Tail(u)) = Len(w)
    BY <1>1, <2>2, <2>3, <2>4
  <2>6. ASSUME NEW i \in 1 .. Len(w) PROVE Tail(u)[i] = w[i]
    <3>1. i \in 1 .. Len(u) - 1 /\ i + 1 \in 1 .. Len(s) - h
          /\ h + (i + 1) = (h + 1) + i
      BY <1>1, <2>2, <2>3
    <3> QED BY <2>2, <2>3, <2>4, <3>1
  <2>7. Tail(u) = w
    BY <2>2, <2>4, <2>5, <2>6, SeqEqual
  <2> QED BY <2>1, <2>7 DEF w
<1>7. /\ decoder'[c] = r /\ handled'[c] = h + 1 /\ UNCHANGED <<sent, net>>
      /\ \A d \in Conns \ {c} : decoder'[d] = decoder[d] /\ handled'[d] = handled[d]
  BY DEF Takes, StreamInv, StreamTyped
<1>8. StreamTyped'
  <2>1. decoder' \in [Conns -> Seq(Byte)]
    BY <1>5 DEF Takes, StreamInv, StreamTyped
  <2>2. handled' \in [Conns -> Nat]
    BY <1>1 DEF Takes, StreamInv, StreamTyped
  <2>3. ASSUME NEW d \in Conns PROVE handled'[d] <= Len(sent'[d])
    <3>1. CASE d = c
      BY <1>6, <1>7, <3>1
    <3>2. CASE d # c
      BY <1>7, <3>2 DEF StreamInv, StreamTyped
    <3> QED BY <3>1, <3>2
  <2> QED BY <1>7, <2>1, <2>2, <2>3 DEF StreamInv, StreamTyped
<1>9. ASSUME NEW d \in Conns PROVE decoder'[d] \o net'[d] = Stream(Unhandled(d))'
  <2>1. decoder[d] \o net[d] = Stream(Unhandled(d))
    BY DEF StreamInv
  <2>2. CASE d = c
    <3>1. Unhandled(c)' = Tail(u)
      BY <1>6, <1>7 DEF Unhandled
    <3>2. decoder'[c] \o net'[c] = r \o net[c]
      BY <1>7
    <3> QED BY <1>5, <2>2, <3>1, <3>2, Zenon
  <2>3. CASE d # c
    <3>1. Unhandled(d)' = Unhandled(d)
      BY <1>7, <2>3 DEF Unhandled
    <3>2. decoder'[d] \o net'[d] = decoder[d] \o net[d]
      BY <1>7, <2>3
    <3> QED BY <2>1, <3>1, <3>2, Zenon
  <2> QED BY <2>2, <2>3
<1> QED BY <1>8, <1>9 DEF StreamInv

LEMMA StreamNext == StreamInv /\ [Next]_vars => StreamInv'
<1> SUFFICES ASSUME StreamInv, [Next]_vars PROVE StreamInv'
  OBVIOUS
<1>1. CASE \E d \in Conns : Sends(d) \/ Moves(d) \/ Takes(d)
  BY <1>1, SendsEffect, MovesEffect, TakesEffect
<1>2. CASE UNCHANGED <<decoder, net, sent, handled>>
  <2>1. StreamTyped'
    BY <1>2 DEF StreamInv, StreamTyped
  <2>2. ASSUME NEW d \in Conns PROVE decoder'[d] \o net'[d] = Stream(Unhandled(d))'
    <3>1. decoder[d] \o net[d] = Stream(Unhandled(d))
      BY DEF StreamInv
    <3>2. Unhandled(d)' = Unhandled(d) /\ decoder' = decoder /\ net' = net
      BY <1>2 DEF Unhandled
    <3> QED BY <3>1, <3>2, Zenon
  <2> QED BY <2>1, <2>2 DEF StreamInv
<1>3. CASE Next
  BY <1>1, <1>2, <1>3, StreamSteps DEF StreamInv
<1>4. CASE UNCHANGED vars
  BY <1>2, <1>4 DEF vars, taskVars, clientVars
<1> QED BY <1>3, <1>4

LEMMA StreamInit == Init => StreamInv
<1> SUFFICES ASSUME Init PROVE StreamInv
  OBVIOUS
<1>1. StreamTyped
  <2>1. << >> \in Seq(Byte) /\ << >> \in Seq(Legal) /\ Len(<< >>) = 0
    OBVIOUS
  <2> QED BY <2>1 DEF Init, StreamTyped
<1>2. ASSUME NEW c \in Conns PROVE decoder[c] \o net[c] = Stream(Unhandled(c))
  <2>1. sent[c] = << >> /\ handled[c] = 0 /\ decoder[c] = << >> /\ net[c] = << >>
    BY DEF Init
  <2>2. Unhandled(c) = SubSeq(<< >>, 0 + 1, Len(<< >>))
    BY <2>1 DEF Unhandled
  <2>3. SubSeq(<< >>, 0 + 1, Len(<< >>)) = << >> /\ << >> \o << >> = << >>
    OBVIOUS
  <2> QED BY <2>1, <2>2, <2>3, StreamNone
<1> QED BY <1>1, <1>2 DEF StreamInv

\* However the network cuts the bytes of a client, what its connection's
\* decoder holds and what is under way is the encoding of exactly the frames
\* that handle_frame has not seen: for every base, length of the header and
\* limit, every payload and every traffic.
THEOREM StreamsIntact == Spec => []StreamIntact
<1>1. StreamInv => StreamIntact
  BY DEF StreamInv, StreamIntact, Unhandled
<1> QED BY <1>1, StreamInit, StreamNext, PTL DEF Spec

\* The frame that handle_frame is given is the next one that the client sent,
\* and the connection of a client that sends frames never fails to decode.
FramesInOrder ==
    \A c \in Conns :
        /\ \A f : NextFrame(c, f) =>
               handled[c] < Len(sent[c]) /\ f = sent[c][handled[c] + 1]
        /\ DecodeFails(c) =>
               handled[c] < Len(sent[c]) /\ sent[c][handled[c] + 1] = Garbage

LEMMA NextOfStream ==
    ASSUME StreamInv, NEW c \in Conns, try_next(decoder[c]).outcome # "none"
    PROVE  LET d == try_next(decoder[c])
               f == sent[c][handled[c] + 1]
           IN  /\ handled[c] < Len(sent[c])
               /\ d.outcome = "frame" => d.frame = f
               /\ d.outcome = "error" => f = Garbage
<1> DEFINE s == sent[c]
           h == handled[c]
           u == Unhandled(c)
           x == decoder[c]
<1>1. s \in Seq(Legal) /\ h \in Nat /\ h <= Len(s) /\ Len(s) \in Nat
  <2>1. s \in Seq(Legal) /\ h \in Nat /\ h <= Len(s)
    BY DEF StreamInv, StreamTyped
  <2> QED BY <2>1
<1>2. x \in Seq(Byte) /\ net[c] \in Seq(Byte) /\ x \o net[c] = Stream(u)
  BY DEF StreamInv, StreamTyped
<1>3. u = SubSeq(s, h + 1, Len(s))
  BY DEF Unhandled
<1> HIDE DEF s, h, u
<1>4. u \in Seq(Legal)
  BY <1>1, <1>3
<1>5. /\ u # << >>
      /\ try_next(x).outcome = "error" => u[1] = Garbage
      /\ try_next(x).outcome = "frame" => try_next(x).frame = u[1]
  <2>1. try_next(x).outcome # "none"
    OBVIOUS
  <2> HIDE DEF x
  <2> QED BY <1>2, <1>4, <2>1, FrameTaken
<1>6. h < Len(s) /\ u[1] = s[h + 1]
  <2>1. h < Len(s)
    BY <1>1, <1>3, <1>5
  <2> QED BY <1>1, <1>3, <2>1
<1> QED BY <1>5, <1>6 DEF s, h

\* However the network cuts and glues the bytes, handle_frame is called with
\* the frames the client sent, each once and in the order they were sent, and
\* the decoder fails on nothing but what is no frame.
THEOREM HandledInOrder == Spec => [][FramesInOrder]_vars
<1>1. StreamInv => FramesInOrder
  <2> SUFFICES ASSUME StreamInv, NEW c \in Conns
               PROVE  /\ \A f : NextFrame(c, f) =>
                             /\ handled[c] < Len(sent[c])
                             /\ f = sent[c][handled[c] + 1]
                      /\ DecodeFails(c) =>
                             /\ handled[c] < Len(sent[c])
                             /\ sent[c][handled[c] + 1] = Garbage
    BY DEF FramesInOrder
  <2>1. ASSUME NEW f, NextFrame(c, f)
        PROVE  handled[c] < Len(sent[c]) /\ f = sent[c][handled[c] + 1]
    <3>1. try_next(decoder[c]).outcome = "frame" /\ try_next(decoder[c]).frame = f
      BY <2>1 DEF NextFrame
    <3> QED BY <3>1, NextOfStream
  <2>2. ASSUME DecodeFails(c)
        PROVE  handled[c] < Len(sent[c]) /\ sent[c][handled[c] + 1] = Garbage
    <3>1. try_next(decoder[c]).outcome = "error"
      BY <2>2 DEF DecodeFails
    <3> QED BY <3>1, NextOfStream
  <2> QED BY <2>1, <2>2
<1>2. Spec => []StreamInv
  BY StreamInit, StreamNext, PTL DEF Spec
<1> QED BY <1>1, <1>2, PTL
-----------------------------------------------------------------------------
\* The types of HubConn: nothing has been handled that was not sent, ...
BillerTyped == biller \in [Conns -> {"running", "told", "ended"}]

LEMMA BillerNext == BillerTyped /\ [Next]_vars => BillerTyped'
<1> SUFFICES ASSUME BillerTyped, [Next]_vars PROVE BillerTyped'
  OBVIOUS
<1>1. ASSUME NEW c \in Conns, ConnStep(c) \/ WriterStep(c) PROVE UNCHANGED biller
  <2>1. CASE WriterStep(c)
    BY <2>1 DEF WriterStep, Write, WriteFails, WriterEnds, taskVars
  <2>2. CASE HandlerStep(c)
    BY <2>2 DEF HandlerStep, Collect, FanDone, Count, Notify, Tell, Shut, Fan
  <2>3. CASE ReaderStep(c)
    <3>1. ASSUME Receive(c) \/ DecodeFails(c) \/ ReadClose(c) PROVE UNCHANGED biller
      BY <3>1 DEF Receive, DecodeFails, ReadClose
    <3>2. ASSUME NEW f, NextFrame(c, f) PROVE UNCHANGED biller
      BY <3>2 DEF NextFrame
    <3> QED BY <2>3, <3>1, <3>2 DEF ReaderStep, HandleZero, HandlePresence,
               HandleKick, HandleDeny
  <2>4. CASE handle_disconnect(c)
    BY <2>4 DEF handle_disconnect
  <2> QED BY <1>1, <2>1, <2>2, <2>3, <2>4 DEF ConnStep
<1>2. ASSUME NEW c \in Conns, ClientCloses(c) \/ ClientSends(c) PROVE UNCHANGED biller
  BY <1>2 DEF ClientCloses, ClientSends, taskVars
<1>3. ASSUME NEW c \in Conns, BillerStep(c) \/ Overdue(c) PROVE BillerTyped'
  BY <1>3 DEF BillerTyped, BillerStep, BillerCloses, BillerEnds, Overdue
<1>4. CASE Next
  BY <1>1, <1>2, <1>3, <1>4 DEF Next, BillerTyped
<1>5. CASE UNCHANGED vars
  BY <1>5 DEF vars, taskVars, BillerTyped
<1> QED BY <1>4, <1>5

\* ... no queue holds more than its places, and the room and the tasks keep
\* their types, for any number of connections.
THEOREM ConnTypeCorrect == Spec => []ConnTypeOK
<1> DEFINE TypeInv == ReadersInv /\ BillerTyped /\ StreamInv
<1>1. Init => BillerTyped
  BY DEF Init, BillerTyped
<1>2. Init => TypeInv
  BY <1>1, ReadersInit, StreamInit
<1>3. TypeInv /\ [Next]_vars => TypeInv'
  BY ReadersNext, BillerNext, StreamNext
<1>4. TypeInv => ConnTypeOK
  BY DEF ConnTypeOK, ReadersInv, Typed, RoomTyped, TasksTyped, QueuesTyped,
         BillerTyped, StreamInv, StreamTyped
<1> QED BY <1>2, <1>3, <1>4, PTL DEF Spec
=============================================================================
