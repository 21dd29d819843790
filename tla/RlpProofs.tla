----------------------------- MODULE RlpProofs -----------------------------
(***************************************************************************)
(* Proofs of the properties of Rlp: whatever the items, paths, numbers and *)
(* hashes, what is encoded comes back, and no byte is lost on the way.     *)
(***************************************************************************)
EXTENDS Rlp, PowersProofs, FiniteSetTheorems

---------------------------------------------------------------------------
(* Big-endian numbers *)

(* Dividing by a product is dividing twice. *)
LEMMA DivideTwice ==
  ASSUME NEW x \in Nat, NEW P \in Nat \ {0}, NEW Q \in Nat \ {0}
  PROVE  x \div (Q * P) = (x \div P) \div Q
<1> DEFINE a == x \div P
           b == a \div Q
<1>1. a \in Nat /\ a * P <= x /\ x < (a + 1) * P
  <2>1. x = a * P + (x % P) /\ a \in Nat /\ x % P \in Nat /\ x % P < P
    BY Division
  <2> HIDE DEF a
  <2>2. (a + 1) * P = a * P + P /\ a * P \in Nat
    BY <2>1
  <2>. QED BY <2>1, <2>2
<1>2. b \in Nat /\ b * Q <= a /\ a + 1 <= (b + 1) * Q
  <2> HIDE DEF a
  <2>1. a = b * Q + (a % Q) /\ b \in Nat /\ a % Q \in Nat /\ a % Q < Q
    BY <1>1, Division
  <2> HIDE DEF b
  <2>2. (b + 1) * Q = b * Q + Q /\ b * Q \in Nat
    BY <2>1
  <2>. QED BY <1>1, <2>1, <2>2
<1> HIDE DEF a, b
<1>3. \A u, v, w \in Nat : u <= v => u * w <= v * w
  OBVIOUS
<1>4. (b * Q) * P <= a * P /\ (a + 1) * P <= ((b + 1) * Q) * P
  BY <1>1, <1>2, <1>3
<1>5. (b * Q) * P = b * (Q * P) /\ ((b + 1) * Q) * P = (b + 1) * (Q * P) /\ Q * P \in Nat /\ Q * P # 0
  BY <1>2
<1>6. b * (Q * P) <= x /\ x < (b + 1) * (Q * P)
  <2>1. \A s, t, u, v \in Nat : s <= t /\ t <= x /\ x < u /\ u <= v => s <= x /\ x < v
    OBVIOUS
  <2>2. (b * Q) * P \in Nat /\ a * P \in Nat /\ (a + 1) * P \in Nat /\ ((b + 1) * Q) * P \in Nat
    BY <1>1, <1>2
  <2>. QED BY <1>1, <1>4, <1>5, <2>1, <2>2
<1>7. x \div (Q * P) = b
  <2> DEFINE R == Q * P
  <2> HIDE DEF R
  <2>1. R \in Nat /\ R # 0 /\ b * R <= x /\ x < (b + 1) * R
    BY <1>5, <1>6 DEF R
  <2>2. x \div R = b
    BY <1>2, <2>1, QuotientIs
  <2>. QED BY <2>2 DEF R
<1>. QED BY <1>7 DEF a, b

(* A byte weighs 256.                                                      *)
LEMMA BytePower == pow2[0] = 1 /\ pow2[8] = 256
<1>1. pow2[0] = 1 /\ pow2[0 + 3] = 8 * pow2[0] /\ pow2[3 + 5] = 32 * pow2[3]
  BY PowersOfTwo, PowersAbove
<1>. QED BY <1>1

(* The weights of the bytes of a number. *)
LEMMA ByteWeights ==
  ASSUME NEW m \in Nat
  PROVE  /\ pow2[8 * m] \in Nat \ {0}
         /\ pow2[8 * (m + 1)] = 256 * pow2[8 * m]
<1>1. 8 * m \in Nat /\ 8 * (m + 1) = 8 + 8 * m
  OBVIOUS
<1>2. pow2[8 * m] \in Nat /\ pow2[8 * m] >= 1
  BY <1>1, PowerPositive
<1>3. pow2[8] * pow2[8 * m] = pow2[8 + 8 * m]
  BY <1>1, PowerProduct
<1>. QED BY <1>1, <1>2, <1>3, BytePower

(* The running value of from_bytes. *)
LEMMA BytesSum ==
  ASSUME NEW b \in Seq(Nat)
  PROVE  \E f \in [0 .. Len(b) -> Nat] :
           /\ from_bytes(b) = f[Len(b)]
           /\ f[0] = 0
           /\ \A n \in 0 .. Len(b) - 1 : f[n + 1] = f[n] * 256 + b[n + 1]
<1> DEFINE N == Len(b)
           Body(h) == [n \in 0 .. N |-> IF n = 0 THEN 0 ELSE h[n - 1] * 256 + b[n]]
           sum == CHOOSE h : h = Body(h)
           step == [n \in Nat |-> [v \in Nat |-> IF n < N THEN v * 256 + b[n + 1] ELSE v]]
<1>1. N \in Nat /\ \A n \in 1 .. N : b[n] \in Nat
  OBVIOUS
<1>2. from_bytes(b) = sum[N]
  BY Zenon DEF from_bytes
<1> HIDE DEF N
<1>3. \E f \in [Nat -> Nat] : Iterates(f, 0, step)
  <2>1. ASSUME NEW n \in Nat, NEW v \in Nat
        PROVE  (IF n < N THEN v * 256 + b[n + 1] ELSE v) \in Nat
    BY <1>1
  <2>2. step \in [Nat -> [Nat -> Nat]] /\ 0 \in Nat
    BY <2>1
  <2> HIDE DEF step
  <2>. QED BY <2>2, Recursion, Zenon
<1>4. PICK f \in [Nat -> Nat] : f[0] = 0 /\ \A n \in Nat : f[n + 1] = step[n][f[n]]
  BY <1>3 DEF Iterates
<1>5. ASSUME NEW n \in 0 .. N - 1 PROVE f[n + 1] = f[n] * 256 + b[n + 1]
  <2>1. n \in Nat /\ n < N
    BY <1>1
  <2>2. f[n] \in Nat /\ f[n + 1] = step[n][f[n]]
    BY <1>4, <2>1
  <2>. QED BY <2>1, <2>2
<1> DEFINE h == [n \in 0 .. N |-> f[n]]
<1>6. ASSUME NEW n \in 0 .. N
      PROVE  h[n] = IF n = 0 THEN 0 ELSE h[n - 1] * 256 + b[n]
  <2>1. CASE n = 0
    BY <1>1, <1>4, <2>1
  <2>2. CASE n # 0
    <3>1. n - 1 \in 0 .. N - 1 /\ n = (n - 1) + 1 /\ n - 1 \in 0 .. N
      BY <1>1, <2>2
    <3>2. f[n] = f[n - 1] * 256 + b[n]
      BY <1>5, <3>1
    <3>. QED BY <2>2, <3>1, <3>2
  <2>. QED BY <2>1, <2>2
<1>7. h = Body(h)
  BY <1>6
<1>8. sum = Body(sum)
  <2> HIDE DEF Body, h
  <2>. QED BY <1>7, Zenon
<1> HIDE DEF sum
<1>9. \A n \in 0 .. N : sum[n] = IF n = 0 THEN 0 ELSE sum[n - 1] * 256 + b[n]
  BY <1>8, Zenon
<1>10. DOMAIN sum = 0 .. N
  BY <1>8, Zenon
<1>11. sum[0] = 0 /\ \A n \in 0 .. N - 1 : sum[n + 1] = sum[n] * 256 + b[n + 1]
  <2>1. 0 \in 0 .. N /\ \A n \in 0 .. N - 1 : n + 1 \in 0 .. N /\ n + 1 # 0 /\ (n + 1) - 1 = n
    BY <1>1
  <2>. QED BY <1>9, <2>1
<1> DEFINE T == {n \in Nat : n <= N => sum[n] \in Nat}
<1>12. 0 \in T /\ \A n \in Nat : n \in T => n + 1 \in T
  <2>1. 0 \in T
    BY <1>11
  <2>2. ASSUME NEW n \in Nat, n \in T, n + 1 <= N PROVE sum[n + 1] \in Nat
    <3>1. n \in 0 .. N - 1 /\ n + 1 \in 1 .. N /\ sum[n] \in Nat
      BY <1>1, <2>2
    <3>2. sum[n + 1] = sum[n] * 256 + b[n + 1] /\ b[n + 1] \in Nat
      BY <1>1, <1>11, <3>1
    <3> DEFINE u == sum[n]
               v == b[n + 1]
    <3>3. u \in Nat /\ v \in Nat /\ sum[n + 1] = u * 256 + v
      BY <3>1, <3>2
    <3> HIDE DEF u, v
    <3>. QED BY <3>3
  <2>. QED BY <2>1, <2>2
<1>13. \A n \in Nat : n \in T
  <2> HIDE DEF T
  <2>. QED BY <1>12, SetInduction
<1>14. sum \in [0 .. N -> Nat]
  <2>1. sum = [n \in 0 .. N |-> sum[n]]
    BY <1>8, Zenon
  <2>2. \A n \in 0 .. N : sum[n] \in Nat
    BY <1>13
  <2>. QED BY <2>1, <2>2
<1>. QED BY <1>2, <1>11, <1>14 DEF N

(* int.from_bytes undoes int.to_bytes. *)
LEMMA BytesReturn ==
  ASSUME NEW x \in Nat, NEW len \in Nat, x < pow2[8 * len]
  PROVE  /\ to_bytes(x, len) \in [1 .. len -> Byte]
         /\ from_bytes(to_bytes(x, len)) = x
<1> DEFINE b == to_bytes(x, len)
           W(k) == pow2[8 * (len - k)]
<1>1. \A k \in 0 .. len : W(k) \in Nat \ {0}
  <2>1. \A k \in 0 .. len : len - k \in Nat
    OBVIOUS
  <2>. QED BY <2>1, ByteWeights
<1>2. \A k \in 0 .. len - 1 : W(k) = 256 * W(k + 1)
  <2> SUFFICES ASSUME NEW k \in 0 .. len - 1 PROVE W(k) = 256 * W(k + 1)
    OBVIOUS
  <2>1. len - (k + 1) \in Nat /\ len - k = (len - (k + 1)) + 1
    OBVIOUS
  <2>. QED BY <2>1, ByteWeights
<1>3. b = [k \in 1 .. len |-> (x \div W(k)) % 256]
  BY DEF to_bytes
<1> HIDE DEF b, W
<1>4. b \in [1 .. len -> Byte]
  <2> SUFFICES ASSUME NEW k \in 1 .. len PROVE (x \div W(k)) % 256 \in Byte
    BY <1>3
  <2>1. W(k) \in Nat /\ W(k) # 0
    BY <1>1
  <2>2. x \div W(k) \in Nat
    BY <2>1, Division
  <2>3. \A y \in Nat : y % 256 \in 0 .. 255
    OBVIOUS
  <2>. QED BY <2>2, <2>3 DEF Byte
<1>5. b \in Seq(Nat) /\ Len(b) = len
  <2>1. \A k \in 1 .. len : b[k] \in Nat
    <3>1. Byte \subseteq Nat
      BY DEF Byte
    <3>. QED BY <1>4, <3>1
  <2>2. b = [k \in 1 .. len |-> b[k]]
    BY <1>4
  <2>. QED BY <2>1, <2>2
<1>6. PICK f \in [0 .. Len(b) -> Nat] :
           /\ from_bytes(b) = f[Len(b)]
           /\ f[0] = 0
           /\ \A n \in 0 .. Len(b) - 1 : f[n + 1] = f[n] * 256 + b[n + 1]
  BY <1>5, BytesSum, Zenon
<1> DEFINE T == {n \in Nat : n <= len => f[n] = x \div W(n)}
<1>7. 0 \in T
  <2>1. x \div W(0) = 0
    <3>1. W(0) = pow2[8 * len] /\ W(0) \in Nat /\ W(0) # 0
      BY <1>1 DEF W
    <3>2. 0 * W(0) <= x /\ x < (0 + 1) * W(0)
      BY <3>1
    <3>. QED BY <3>1, <3>2, QuotientIs
  <2>. QED BY <1>6, <2>1
<1>8. ASSUME NEW n \in Nat, n \in T PROVE n + 1 \in T
  <2> SUFFICES ASSUME n + 1 <= len PROVE f[n + 1] = x \div W(n + 1)
    OBVIOUS
  <2> DEFINE P == W(n + 1)
             q == x \div P
  <2>1. n \in 0 .. len - 1 /\ n + 1 \in 0 .. len /\ n + 1 \in 1 .. len
    OBVIOUS
  <2>2. P \in Nat \ {0} /\ W(n) = 256 * P
    BY <1>1, <1>2, <2>1
  <2>3. q \in Nat
    BY <2>2, Division
  <2>4. x \div W(n) = q \div 256
    <3>1. 256 \in Nat \ {0}
      OBVIOUS
    <3>2. x \div (256 * P) = (x \div P) \div 256
      BY <2>2, <3>1, DivideTwice
    <3>. QED BY <2>2, <3>2
  <2>5. b[n + 1] = q % 256
    BY <1>3, <2>1
  <2>6. f[n + 1] = f[n] * 256 + b[n + 1] /\ f[n] = x \div W(n)
    BY <1>5, <1>6, <1>8, <2>1
  <2> HIDE DEF q
  <2>7. (q \div 256) * 256 + (q % 256) = q
    BY <2>3
  <2>8. f[n + 1] = q
    BY <2>4, <2>5, <2>6, <2>7
  <2>. QED BY <2>8 DEF q
<1>9. \A n \in Nat : n \in T
  <2> HIDE DEF T
  <2>. QED BY <1>7, <1>8, SetInduction
<1>10. f[len] = x \div W(len)
  BY <1>9
<1>11. x \div W(len) = x
  <2>1. W(len) = 1
    BY BytePower, 8 * (len - len) = 0 DEF W
  <2>. QED BY <2>1
<1>. QED BY <1>4, <1>5, <1>6, <1>10, <1>11 DEF b

(* The number of bits of a number. *)
LEMMA BitLength ==
  ASSUME NEW x \in Nat, x < pow2[MAX_BITS]
  PROVE  /\ bit_length(x) \in 0 .. MAX_BITS
         /\ x < pow2[bit_length(x)]
         /\ bit_length(x) > 0 => pow2[bit_length(x) - 1] <= x
<1> DEFINE S == {k \in Nat : x < pow2[k]}
           Fit(n) == x < pow2[n] /\ (n > 0 => pow2[n - 1] <= x)
<1>1. MAX_BITS \in S
  BY SizesAssumption
<1>2. PICK e \in S : \A n \in S : e <= n
  BY <1>1, LeastNumber
<1>3. e \in 0 .. MAX_BITS /\ MAX_BITS \in Nat
  BY <1>1, <1>2
<1>4. Fit(e)
  <2>1. ASSUME e > 0 PROVE pow2[e - 1] <= x
    <3>1. e - 1 \in Nat /\ ~ (e - 1 \in S)
      BY <1>2, <1>3, <2>1
    <3>2. pow2[e - 1] \in Nat
      BY <3>1, PowersOfTwo
    <3>. QED BY <3>1, <3>2
  <2>. QED BY <1>2, <2>1
<1>5. bit_length(x) = e
  <2> DEFINE P == {n \in 0 .. MAX_BITS - 1 : pow2[n] <= x}
  <2>1. ASSUME NEW n \in 0 .. MAX_BITS - 1 PROVE pow2[n] <= x <=> n \in 0 .. e - 1
    <3>1. n \in Nat /\ pow2[n] \in Nat
      BY <1>3, PowersOfTwo
    <3>2. CASE n < e
      <4>1. e - 1 \in Nat /\ n <= e - 1 /\ e > 0 /\ n \in 0 .. e - 1
        BY <1>3, <3>1, <3>2
      <4>2. pow2[n] <= pow2[e - 1] /\ pow2[e - 1] \in Nat
        BY <3>1, <4>1, PowerMonotone, PowersOfTwo
      <4>. QED BY <1>4, <3>1, <4>1, <4>2
    <3>3. CASE e <= n
      <4>1. pow2[e] <= pow2[n] /\ pow2[e] \in Nat /\ ~ (n \in 0 .. e - 1)
        BY <1>3, <3>1, <3>3, PowerMonotone, PowersOfTwo
      <4>. QED BY <1>4, <3>1, <4>1
    <3>. QED BY <1>3, <3>1, <3>2, <3>3
  <2>2. P = 0 .. e - 1
    <3>1. \A n \in 0 .. e - 1 : n \in 0 .. MAX_BITS - 1
      BY <1>3
    <3>. QED BY <2>1, <3>1
  <2>3. bit_length(x) = Cardinality(0 .. e - 1)
    BY <2>2, Zenon DEF bit_length
  <2>4. Cardinality(0 .. e - 1) = e
    <3>1. 0 \in Int /\ e - 1 \in Int
      BY <1>3
    <3>2. Cardinality(0 .. e - 1) = IF 0 > e - 1 THEN 0 ELSE (e - 1) - 0 + 1
      BY <3>1, FS_Interval
    <3>. QED BY <1>3, <3>2
  <2>. QED BY <2>3, <2>4
<1>. QED BY <1>3, <1>4, <1>5

(* Even of a number that does not fit.                                     *)
LEMMA BitLengthType ==
  ASSUME NEW x
  PROVE  bit_length(x) \in Nat
<1> DEFINE P == {n \in 0 .. MAX_BITS - 1 : pow2[n] <= x}
<1>1. IsFiniteSet(0 .. MAX_BITS - 1)
  <2>1. 0 \in Int /\ MAX_BITS - 1 \in Int
    BY SizesAssumption
  <2>. QED BY <2>1, FS_Interval
<1>2. P \in SUBSET (0 .. MAX_BITS - 1)
  OBVIOUS
<1>3. IsFiniteSet(P)
  BY <1>1, <1>2, FS_Subset
<1> HIDE DEF P
<1>4. Cardinality(P) \in Nat
  BY <1>3, FS_CardinalityType
<1>. QED BY <1>4, Zenon DEF bit_length, P

(* The fewest bytes that hold a number. *)
ByteLength(x) == (bit_length(x) + 7) \div 8

(* ByteLength is the number of bytes that a number needs.                  *)
LEMMA FewestBytes ==
  ASSUME NEW x \in Nat, x < pow2[MAX_BITS], x # 0
  PROVE  /\ ByteLength(x) \in Nat \ {0}
         /\ x < pow2[8 * ByteLength(x)]
         /\ pow2[8 * (ByteLength(x) - 1)] <= x
<1> DEFINE n == bit_length(x)
           m == ByteLength(x)
<1>1. n \in Nat /\ x < pow2[n] /\ (n > 0 => pow2[n - 1] <= x)
  BY BitLength, SizesAssumption
<1>2. n > 0
  BY <1>1, BytePower
<1>3. m = (n + 7) \div 8
  BY DEF ByteLength
<1> HIDE DEF n, m
<1>4. m \in Nat \ {0} /\ n <= 8 * m /\ 8 * (m - 1) <= n - 1
  BY <1>1, <1>2, <1>3
<1>5. 8 * m \in Nat /\ 8 * (m - 1) \in Nat /\ n - 1 \in Nat
  BY <1>1, <1>2, <1>4
<1>6. pow2[n] <= pow2[8 * m] /\ pow2[8 * (m - 1)] <= pow2[n - 1]
  BY <1>1, <1>4, <1>5, PowerMonotone
<1>7. pow2[n] \in Nat /\ pow2[8 * m] \in Nat /\ pow2[8 * (m - 1)] \in Nat /\ pow2[n - 1] \in Nat
  BY <1>1, <1>5, PowersOfTwo
<1>8. x < pow2[8 * m] /\ pow2[8 * (m - 1)] <= x
  BY <1>1, <1>2, <1>6, <1>7
<1>. QED BY <1>4, <1>8 DEF m

(* be_trim is undone by be_to_int, and has no leading zero. *)
LEMMA NumbersReturn ==
  ASSUME NEW x \in Nat, x < pow2[MAX_BITS]
  PROVE  /\ be_trim(x) \in Seq(Byte)
         /\ from_bytes(be_trim(x)) = x
         /\ be_trim(x) # <<>> => be_trim(x)[1] # 0
<1>1. CASE x = 0
  <2>1. be_trim(x) = <<>>
    BY <1>1 DEF be_trim
  <2>2. <<>> \in Seq(Nat) /\ Len(<<>>) = 0 /\ <<>> \in Seq(Byte)
    OBVIOUS
  <2>3. from_bytes(<<>>) = 0
    BY <2>2, BytesSum
  <2>. QED BY <1>1, <2>1, <2>2, <2>3
<1>2. CASE x # 0
  <2> DEFINE m == ByteLength(x)
             b == to_bytes(x, m)
             P == pow2[8 * (m - 1)]
  <2>1. be_trim(x) = b
    BY <1>2 DEF be_trim, ByteLength
  <2>2. m \in Nat \ {0} /\ x < pow2[8 * m] /\ P <= x
    BY <1>2, FewestBytes
  <2> HIDE DEF m
  <2>3. b \in [1 .. m -> Byte] /\ from_bytes(b) = x
    BY <2>2, BytesReturn
  <2>4. b \in Seq(Byte)
    BY <2>2, <2>3
  <2>5. b[1] # 0
    <3>1. b[1] = (x \div P) % 256
      BY <2>2 DEF to_bytes
    <3>2. P \in Nat \ {0} /\ pow2[8 * m] = 256 * P
      <4>1. m - 1 \in Nat /\ m = (m - 1) + 1
        BY <2>2
      <4>. QED BY <4>1, ByteWeights
    <3> DEFINE q == x \div P
    <3> HIDE DEF P
    <3>3. q \in Nat /\ x = q * P + (x % P) /\ x % P \in Nat /\ x % P < P
      BY <3>2, Division
    <3> HIDE DEF q
    <3>4. q # 0
      BY <2>2, <3>2, <3>3
    <3>5. q < 256
      <4> SUFFICES ASSUME 256 <= q PROVE FALSE
        BY <3>3
      <4>1. \A u, v, w \in Nat : u <= v => u * w <= v * w
        OBVIOUS
      <4>2. 256 * P <= q * P /\ q * P \in Nat
        BY <3>2, <3>3, <4>1
      <4>. QED BY <2>2, <3>2, <3>3, <4>2
    <3>6. q % 256 = q
      BY <3>3, <3>5
    <3>. QED BY <3>1, <3>4, <3>6 DEF q
  <2>. QED BY <2>1, <2>3, <2>4, <2>5
<1>. QED BY <1>1, <1>2

---------------------------------------------------------------------------
(* Sequences *)

(* Two sequences joined.                                                   *)
LEMMA Joined ==
  ASSUME NEW S, NEW a \in Seq(S), NEW b \in Seq(S)
  PROVE  /\ a \o b \in Seq(S)
         /\ Len(a \o b) = Len(a) + Len(b) /\ Len(a) \in Nat /\ Len(b) \in Nat
         /\ \A i \in 1 .. Len(a) : (a \o b)[i] = a[i]
         /\ \A i \in 1 .. Len(b) : (a \o b)[Len(a) + i] = b[i]
OBVIOUS

(* Two sequences of byte strings joined.                                   *)
LEMMA JoinedLists ==
  ASSUME NEW a \in Seq(Seq(Nat)), NEW b \in Seq(Seq(Nat))
  PROVE  /\ a \o b \in Seq(Seq(Nat)) /\ Len(a \o b) = Len(a) + Len(b)
         /\ \A i \in 1 .. Len(a) : (a \o b)[i] = a[i]
         /\ \A i \in 1 .. Len(b) : (a \o b)[Len(a) + i] = b[i]
BY Joined

(* Two byte strings joined.                                                *)
LEMMA JoinedNumbers ==
  ASSUME NEW a \in Seq(Nat), NEW b \in Seq(Nat)
  PROVE  /\ a \o b \in Seq(Nat) /\ Len(a \o b) = Len(a) + Len(b)
         /\ Len(a) \in Nat /\ Len(b) \in Nat
         /\ \A i \in 1 .. Len(a) : (a \o b)[i] = a[i]
         /\ \A i \in 1 .. Len(b) : (a \o b)[Len(a) + i] = b[i]
BY Joined

(* A string of one byte.                                                   *)
LEMMA OneByte ==
  ASSUME NEW a \in Seq(Nat), Len(a) = 1
  PROVE  a # <<>> /\ a[1] \in Nat
OBVIOUS

(* The first byte of a joined string.                                      *)
LEMMA JoinedFirst ==
  ASSUME NEW a \in Seq(Nat), NEW b \in Seq(Nat), a # <<>>
  PROVE  (a \o b)[1] = a[1] /\ a \o b # <<>>
OBVIOUS

(* Joining is associative.                                                 *)
LEMMA JoinedThree ==
  ASSUME NEW S, NEW a \in Seq(S), NEW b \in Seq(S), NEW c \in Seq(S)
  PROVE  (a \o b) \o c = a \o (b \o c)
OBVIOUS

(* The same for all byte strings.                                          *)
LEMMA Associative == \A x, y, z \in Seq(Nat) : x \o (y \o z) = (x \o y) \o z
OBVIOUS

(* The empty sequence adds nothing.                                        *)
LEMMA JoinedEmpty ==
  ASSUME NEW S, NEW a \in Seq(S)
  PROVE  <<>> \o a = a /\ a \o <<>> = a /\ <<>> \in Seq(S)
OBVIOUS

(* Sequences are their elements.                                           *)
LEMMA SameElements ==
  ASSUME NEW S, NEW a \in Seq(S), NEW b \in Seq(S), Len(a) = Len(b),
         \A i \in 1 .. Len(a) : a[i] = b[i]
  PROVE  a = b
OBVIOUS

(* The middle and the end of a string of three parts. *)
LEMMA SliceMiddle ==
  ASSUME NEW a \in Seq(Nat), NEW b \in Seq(Nat), NEW c \in Seq(Nat)
  PROVE  /\ Slice(a \o b \o c, Len(a), Len(a) + Len(b)) = b
         /\ From(a \o b \o c, Len(a) + Len(b)) = c
<1> DEFINE e == a \o b \o c
           A == Len(a)
           B == Len(b)
           C == Len(c)
<1>1. a \o b \in Seq(Nat) /\ Len(a \o b) = A + B /\ A \in Nat /\ B \in Nat /\ C \in Nat
      /\ e \in Seq(Nat) /\ Len(e) = A + B + C
  BY Joined
<1>2. /\ \A i \in 1 .. B : e[A + i] = b[i]
      /\ \A i \in 1 .. C : e[A + B + i] = c[i]
  <2>1. ASSUME NEW i \in 1 .. B PROVE e[A + i] = b[i]
    <3>1. A + i \in 1 .. Len(a \o b)
      BY <1>1
    <3>2. e[A + i] = (a \o b)[A + i]
      BY <1>1, <3>1, Joined
    <3>3. (a \o b)[A + i] = b[i]
      BY Joined
    <3>. QED BY <3>2, <3>3
  <2>2. ASSUME NEW i \in 1 .. C PROVE e[A + B + i] = c[i]
    BY <1>1, Joined
  <2>. QED BY <2>1, <2>2
<1>3. b = [i \in 1 .. B |-> b[i]] /\ c = [i \in 1 .. C |-> c[i]]
  OBVIOUS
<1> HIDE DEF e, A, B, C
<1>4. Slice(e, A, A + B) = b
  <2>1. Slice(e, A, A + B) = SubSeq(e, A + 1, A + B)
    BY <1>1 DEF Slice
  <2>2. SubSeq(e, A + 1, A + B) = [i \in 1 .. B |-> e[A + i]]
    <3>1. SubSeq(e, A + 1, A + B) = [i \in 1 .. (A + B) - (A + 1) + 1 |-> e[i + (A + 1) - 1]]
      BY <1>1
    <3>2. (A + B) - (A + 1) + 1 = B /\ \A i \in 1 .. B : i + (A + 1) - 1 = A + i
      BY <1>1
    <3>. QED BY <3>1, <3>2
  <2>3. [i \in 1 .. B |-> e[A + i]] = [i \in 1 .. B |-> b[i]]
    BY <1>2, Zenon
  <2>. QED BY <1>3, <2>1, <2>2, <2>3
<1>5. From(e, A + B) = c
  <2>1. From(e, A + B) = SubSeq(e, (A + B) + 1, A + B + C)
    BY <1>1 DEF From, Slice
  <2>2. SubSeq(e, (A + B) + 1, A + B + C) = [i \in 1 .. C |-> e[A + B + i]]
    <3>1. SubSeq(e, (A + B) + 1, A + B + C)
            = [i \in 1 .. (A + B + C) - ((A + B) + 1) + 1 |-> e[i + ((A + B) + 1) - 1]]
      BY <1>1
    <3>2. (A + B + C) - ((A + B) + 1) + 1 = C /\ \A i \in 1 .. C : i + ((A + B) + 1) - 1 = A + B + i
      BY <1>1
    <3>. QED BY <3>1, <3>2
  <2>3. [i \in 1 .. C |-> e[A + B + i]] = [i \in 1 .. C |-> c[i]]
    BY <1>2, Zenon
  <2>. QED BY <1>3, <2>1, <2>2, <2>3
<1>. QED BY <1>4, <1>5 DEF e, A, B

---------------------------------------------------------------------------
(* Flattening *)

(* f joins the elements of s one by one. *)
Joins(f, s) ==
  f[0] = <<>> /\ \A n \in 0 .. Len(s) - 1 : f[n + 1] = f[n] \o s[n + 1]

(* FlattenSeq is the last of such joins.                                   *)
LEMMA FlattenIs ==
  ASSUME NEW s \in Seq(Seq(Nat)), NEW f, Joins(f, s)
  PROVE  FlattenSeq(s) = f[Len(s)] /\ FlattenSeq(s) \in Seq(Nat)
<1> DEFINE N == Len(s)
<1>1. N \in Nat /\ \A n \in 1 .. N : s[n] \in Seq(Nat)
  OBVIOUS
<1>2. f[0] = <<>> /\ \A n \in 0 .. N - 1 : f[n + 1] = f[n] \o s[n + 1]
  BY DEF Joins
<1> DEFINE T == {n \in Nat : n <= N => f[n] \in Seq(Nat)}
<1>3. 0 \in T
  <2>1. <<>> \in Seq(Nat)
    OBVIOUS
  <2>. QED BY <1>2, <2>1
<1>4. ASSUME NEW n \in Nat, n \in T PROVE n + 1 \in T
  <2> SUFFICES ASSUME n + 1 <= N PROVE f[n + 1] \in Seq(Nat)
    OBVIOUS
  <2> HIDE DEF N
  <2>1. n \in 0 .. N - 1 /\ n + 1 \in 1 .. N /\ f[n] \in Seq(Nat)
    BY <1>1, <1>4
  <2>. QED BY <1>1, <1>2, <2>1, Joined
<1>5. \A n \in Nat : n \in T
  <2> HIDE DEF T
  <2>. QED BY <1>3, <1>4, SetInduction
<1>6. \A n \in 0 .. N : f[n] \in Seq(Nat)
  BY <1>5
<1>7. CASE N = 0
  <2>1. s = <<>>
    BY <1>7
  <2>2. FlattenSeq(s) = s
    BY <1>7, Zenon DEF FlattenSeq
  <2>3. <<>> \in Seq(Nat)
    OBVIOUS
  <2> HIDE DEF N
  <2>4. f[N] = <<>>
    BY <1>2, <1>7
  <2>. QED BY <2>1, <2>2, <2>3, <2>4 DEF N
<1>8. CASE N # 0
  <2> DEFINE Body(h) == [i \in 1 .. N |-> IF i = 1 THEN s[i] ELSE h[i - 1] \o s[i]]
             flatten == CHOOSE h : h = Body(h)
             g == [i \in 1 .. N |-> f[i]]
  <2>1. FlattenSeq(s) = flatten[N]
    BY <1>8, Zenon DEF FlattenSeq
  <2> HIDE DEF N
  <2>2. ASSUME NEW i \in 1 .. N PROVE g[i] = IF i = 1 THEN s[i] ELSE g[i - 1] \o s[i]
    <3>1. i - 1 \in 0 .. N - 1 /\ (i - 1) + 1 = i
      BY <1>1
    <3>2. f[i] = f[i - 1] \o s[i]
      BY <1>2, <3>1
    <3>3. CASE i = 1
      <4>1. f[i - 1] = <<>>
        BY <1>2, <3>3
      <4>2. <<>> \o s[i] = s[i]
        BY <1>1, JoinedEmpty
      <4>. QED BY <3>2, <3>3, <4>1, <4>2
    <3>4. CASE i # 1
      <4>1. i - 1 \in 1 .. N
        BY <1>1, <3>4
      <4>. QED BY <3>2, <3>4, <4>1
    <3>. QED BY <3>3, <3>4
  <2>3. g = Body(g)
    BY <2>2
  <2>4. flatten = Body(flatten)
    <3> HIDE DEF Body, g
    <3>. QED BY <2>3, Zenon
  <2> HIDE DEF flatten
  <2>5. \A i \in 1 .. N : flatten[i] = IF i = 1 THEN s[i] ELSE flatten[i - 1] \o s[i]
    BY <2>4, Zenon
  <2> DEFINE U == {n \in Nat : n + 1 <= N => flatten[n + 1] = f[n + 1]}
  <2>6. 0 \in U
    <3>1. 1 \in 1 .. N
      BY <1>1, <1>8
    <3>2. flatten[1] = s[1] /\ f[1] = s[1]
      BY <2>2, <2>5, <3>1
    <3>. QED BY <3>2
  <2>7. ASSUME NEW n \in Nat, n \in U PROVE n + 1 \in U
    <3> SUFFICES ASSUME (n + 1) + 1 <= N PROVE flatten[(n + 1) + 1] = f[(n + 1) + 1]
      OBVIOUS
    <3> DEFINE i == (n + 1) + 1
    <3>1. i \in 1 .. N /\ i # 1 /\ i - 1 = n + 1 /\ n + 1 \in 0 .. N - 1
      BY <1>1
    <3>2. flatten[n + 1] = f[n + 1]
      <4>1. n + 1 <= N
        BY <1>1, <3>1
      <4>. QED BY <2>7, <4>1
    <3>3. flatten[i] = flatten[n + 1] \o s[i]
      BY <2>5, <3>1
    <3>4. f[i] = f[n + 1] \o s[i]
      BY <1>2, <3>1
    <3>. QED BY <3>2, <3>3, <3>4
  <2>8. \A n \in Nat : n \in U
    <3> HIDE DEF U
    <3>. QED BY <2>6, <2>7, SetInduction
  <2>9. flatten[N] = f[N]
    <3>1. N - 1 \in Nat /\ (N - 1) + 1 = N /\ N <= N
      BY <1>1, <1>8
    <3>. QED BY <2>8, <3>1
  <2>10. f[N] \in Seq(Nat)
    BY <1>1, <1>6
  <2>. QED BY <2>1, <2>9, <2>10 DEF N
<1>. QED BY <1>7, <1>8

(* Any sequence of byte strings can be joined.                             *)
LEMMA JoinsExist ==
  ASSUME NEW s \in Seq(Seq(Nat))
  PROVE  \E f \in [0 .. Len(s) -> Seq(Nat)] : Joins(f, s)
<1> DEFINE N == Len(s)
           step == [n \in Nat |-> [v \in Seq(Nat) |-> IF n < N THEN v \o s[n + 1] ELSE v]]
<1>1. N \in Nat /\ \A n \in 1 .. N : s[n] \in Seq(Nat)
  OBVIOUS
<1>2. \E f \in [Nat -> Seq(Nat)] : Iterates(f, <<>>, step)
  <2>1. ASSUME NEW n \in Nat, NEW v \in Seq(Nat)
        PROVE  (IF n < N THEN v \o s[n + 1] ELSE v) \in Seq(Nat)
    BY <1>1
  <2>2. step \in [Nat -> [Seq(Nat) -> Seq(Nat)]] /\ <<>> \in Seq(Nat)
    BY <2>1
  <2> HIDE DEF step
  <2>. QED BY <2>2, Recursion, Zenon
<1>3. PICK f \in [Nat -> Seq(Nat)] : f[0] = <<>> /\ \A n \in Nat : f[n + 1] = step[n][f[n]]
  BY <1>2 DEF Iterates
<1> DEFINE g == [n \in 0 .. N |-> f[n]]
<1>4. g \in [0 .. N -> Seq(Nat)] /\ g[0] = <<>>
  BY <1>1, <1>3
<1>5. ASSUME NEW n \in 0 .. N - 1 PROVE g[n + 1] = g[n] \o s[n + 1]
  <2> HIDE DEF N
  <2>1. n \in Nat /\ n < N /\ n \in 0 .. N /\ n + 1 \in 0 .. N
    BY <1>1
  <2> HIDE DEF step
  <2>2. f[n + 1] = step[n][f[n]] /\ f[n] \in Seq(Nat)
    BY <1>3, <2>1
  <2>3. step[n][f[n]] = f[n] \o s[n + 1]
    BY <2>1, <2>2 DEF step
  <2>. QED BY <2>1, <2>2, <2>3
<1>. QED BY <1>4, <1>5 DEF Joins

(* Flattening is compositional. *)
LEMMA FlattenJoined ==
  ASSUME NEW s \in Seq(Seq(Nat)), NEW t \in Seq(Seq(Nat))
  PROVE  /\ FlattenSeq(s) \in Seq(Nat)
         /\ FlattenSeq(s \o t) = FlattenSeq(s) \o FlattenSeq(t)
<1> DEFINE A == Len(s)
           B == Len(t)
           e == s \o t
<1>1. PICK f \in [0 .. A -> Seq(Nat)] : Joins(f, s)
  BY JoinsExist
<1>2. PICK g \in [0 .. B -> Seq(Nat)] : Joins(g, t)
  BY JoinsExist
<1>3. /\ A \in Nat /\ B \in Nat /\ e \in Seq(Seq(Nat)) /\ Len(e) = A + B
      /\ \A i \in 1 .. A : e[i] = s[i]
      /\ \A i \in 1 .. B : e[A + i] = t[i] /\ t[i] \in Seq(Nat)
  BY Joined
<1>4. /\ f[0] = <<>> /\ \A n \in 0 .. A - 1 : f[n + 1] = f[n] \o s[n + 1]
      /\ g[0] = <<>> /\ \A n \in 0 .. B - 1 : g[n + 1] = g[n] \o t[n + 1]
  BY <1>1, <1>2 DEF Joins
<1>5. FlattenSeq(s) = f[A] /\ FlattenSeq(t) = g[B] /\ f[A] \in Seq(Nat)
  BY <1>1, <1>2, FlattenIs
<1> HIDE DEF A, B, e
<1> DEFINE h == [n \in 0 .. A + B |-> IF n <= A THEN f[n] ELSE f[A] \o g[n - A]]
<1>6. h[0] = <<>>
  BY <1>3, <1>4
<1>7. ASSUME NEW n \in 0 .. A + B - 1 PROVE h[n + 1] = h[n] \o e[n + 1]
  <2>1. n \in 0 .. A + B /\ n + 1 \in 0 .. A + B
    BY <1>3
  <2>2. CASE n < A
    <3>1. n \in 0 .. A - 1 /\ n + 1 \in 1 .. A /\ n <= A /\ n + 1 <= A
      BY <1>3, <2>2
    <3>2. h[n] = f[n] /\ h[n + 1] = f[n + 1]
      BY <2>1, <3>1
    <3> HIDE DEF h
    <3>. QED BY <1>3, <1>4, <3>1, <3>2
  <2>3. CASE A <= n
    <3> DEFINE m == n - A
    <3>1. m \in 0 .. B - 1 /\ m + 1 \in 1 .. B /\ n + 1 = A + (m + 1) /\ (n + 1) - A = m + 1 /\ ~ (n + 1 <= A)
          /\ m \in 0 .. B
      BY <1>3, <2>3
    <3>2. h[n] = f[A] \o g[m]
      <4>1. CASE n = A
        <5>1. h[n] = f[A] /\ g[m] = <<>>
          BY <1>4, <2>1, <4>1
        <5>. QED BY <1>5, <5>1, JoinedEmpty
      <4>2. CASE n # A
        <5>1. ~ (n <= A)
          BY <1>3, <2>3, <4>2
        <5>. QED BY <2>1, <5>1
      <4>. QED BY <4>1, <4>2
    <3>3. h[n + 1] = f[A] \o g[m + 1]
      BY <2>1, <3>1
    <3> HIDE DEF h, m
    <3>4. g[m + 1] = g[m] \o t[m + 1]
      BY <1>4, <3>1
    <3>5. e[A + (m + 1)] = t[m + 1] /\ t[m + 1] \in Seq(Nat)
      BY <1>3, <3>1
    <3>6. e[n + 1] = t[m + 1]
      BY <3>1, <3>5
    <3>7. g[m] \in Seq(Nat)
      BY <1>2, <3>1
    <3>8. f[A] \o (g[m] \o t[m + 1]) = (f[A] \o g[m]) \o t[m + 1]
      <4>1. f[A] \in Seq(Nat)
        BY <1>5
      <4>2. t[m + 1] \in Seq(Nat)
        BY <3>5
      <4>3. g[m] \in Seq(Nat)
        BY <3>7
      <4>. QED BY <4>1, <4>2, <4>3, Associative, Zenon
    <3>9. h[n + 1] = (f[A] \o g[m]) \o t[m + 1]
      BY <3>3, <3>4, <3>8, Zenon
    <3>. QED BY <3>2, <3>6, <3>9, Zenon
  <2>4. n < A \/ A <= n
    BY <1>3
  <2>. QED BY <2>2, <2>3, <2>4, Zenon
<1>8. h[A + B] = f[A] \o g[B]
  <2>1. A + B \in 0 .. A + B
    BY <1>3
  <2>2. CASE B = 0
    <3>1. h[A + B] = f[A] /\ g[B] = <<>>
      BY <1>3, <1>4, <2>1, <2>2
    <3>. QED BY <1>5, <3>1, JoinedEmpty
  <2>3. CASE B # 0
    <3>1. ~ (A + B <= A) /\ (A + B) - A = B
      BY <1>3, <2>3
    <3>. QED BY <2>1, <3>1
  <2>. QED BY <2>2, <2>3
<1>9. Joins(h, e)
  <2> HIDE DEF h
  <2>1. \A n \in 0 .. Len(e) - 1 : h[n + 1] = h[n] \o e[n + 1]
    <3>1. 0 .. Len(e) - 1 = 0 .. A + B - 1
      BY <1>3
    <3>2. \A n \in 0 .. A + B - 1 : h[n + 1] = h[n] \o e[n + 1]
      BY <1>7, Zenon
    <3>. QED BY <3>1, <3>2, Zenon
  <2>. QED BY <1>6, <2>1, Zenon DEF Joins
<1>10. FlattenSeq(e) = h[A + B]
  <2> HIDE DEF h
  <2>. QED BY <1>3, <1>9, FlattenIs
<1>. QED BY <1>5, <1>8, <1>10 DEF e

(* Nothing to join.                                                        *)
LEMMA FlattenNone == FlattenSeq(<<>>) = <<>>
BY DEF FlattenSeq

(* One string alone.                                                       *)
LEMMA FlattenOne ==
  ASSUME NEW x \in Seq(Nat)
  PROVE  FlattenSeq(<<x>>) = x
<1> DEFINE s == <<x>>
           f == [n \in 0 .. 1 |-> IF n = 0 THEN <<>> ELSE x]
<1>2. s \in Seq(Seq(Nat)) /\ Len(s) = 1 /\ s[1] = x
  OBVIOUS
<1>3. f[0] = <<>> /\ f[1] = x /\ <<>> \o x = x
  BY JoinedEmpty
<1> HIDE DEF f, s
<1>4. Joins(f, s)
  BY <1>2, <1>3 DEF Joins
<1>5. FlattenSeq(s) = x
  BY <1>2, <1>3, <1>4, FlattenIs
<1>. QED BY <1>5 DEF s


---------------------------------------------------------------------------
(* The encodings of items of every depth *)

Upto(n, g) == g = [k \in 0 .. n |-> IF k = 0 THEN <<>> ELSE EncodingOver(g[k - 1])]

(* The encodings can be made up to any depth,                              *)
LEMMA UptoExists == \A n \in Nat : \E g : Upto(n, g)
<1> DEFINE S == {n \in Nat : \E g : Upto(n, g)}
<1>1. 0 \in S
  <2> DEFINE g == [k \in 0 .. 0 |-> <<>>]
  <2>1. g = [k \in 0 .. 0 |-> IF k = 0 THEN <<>> ELSE EncodingOver(g[k - 1])]
    OBVIOUS
  <2> HIDE DEF g
  <2>2. Upto(0, g)
    BY <2>1, Zenon DEF Upto
  <2>. QED BY <2>2
<1>2. ASSUME NEW n \in Nat, n \in S PROVE n + 1 \in S
  <2>1. PICK g : Upto(n, g)
    BY <1>2
  <2> DEFINE h == [k \in 0 .. n + 1 |-> IF k <= n THEN g[k] ELSE EncodingOver(g[n])]
  <2>2. \A k \in 0 .. n : g[k] = IF k = 0 THEN <<>> ELSE EncodingOver(g[k - 1])
    BY <2>1, Zenon DEF Upto
  <2>3. ASSUME NEW k \in 0 .. n + 1
        PROVE  h[k] = IF k = 0 THEN <<>> ELSE EncodingOver(h[k - 1])
    <3>1. CASE k = 0
      <4>1. 0 \in 0 .. n /\ 0 <= n
        OBVIOUS
      <4>2. h[k] = g[0]
        BY <3>1, <4>1
      <4>3. g[0] = <<>>
        BY <2>2, <4>1
      <4>. QED BY <3>1, <4>2, <4>3
    <3>2. CASE k # 0
      <4>1. k - 1 \in 0 .. n + 1 /\ k - 1 <= n /\ k - 1 \in 0 .. n
        BY <3>2
      <4>2. h[k - 1] = g[k - 1]
        BY <4>1
      <4>3. CASE k <= n
        <5>1. k \in 0 .. n /\ h[k] = g[k]
          BY <4>3
        <5> HIDE DEF h
        <5>2. g[k] = EncodingOver(g[k - 1])
          BY <2>2, <3>2, <5>1
        <5>. QED BY <3>2, <4>2, <5>1, <5>2
      <4>4. CASE ~ (k <= n)
        <5>1. k - 1 = n
          BY <4>4
        <5>2. h[k] = EncodingOver(g[n])
          BY <4>4
        <5> HIDE DEF h
        <5>. QED BY <3>2, <4>2, <5>1, <5>2
      <4>. QED BY <4>3, <4>4
    <3>. QED BY <3>1, <3>2
  <2>4. h = [k \in 0 .. n + 1 |-> IF k = 0 THEN <<>> ELSE EncodingOver(h[k - 1])]
    <3>1. h = [k \in 0 .. n + 1 |-> h[k]]
      OBVIOUS
    <3> HIDE DEF h
    <3>2. [k \in 0 .. n + 1 |-> h[k]] = [k \in 0 .. n + 1 |-> IF k = 0 THEN <<>> ELSE EncodingOver(h[k - 1])]
      BY <2>3, Zenon
    <3>. QED BY <3>1, <3>2, Zenon
  <2> HIDE DEF h
  <2>5. Upto(n + 1, h)
    BY <2>4, Zenon DEF Upto
  <2>. QED BY <2>5
<1> HIDE DEF S
<1>3. \A n \in Nat : n \in S
  BY <1>1, <1>2, SetInduction
<1>. QED BY <1>3 DEF S

(* in one way.                                                             *)
LEMMA UptoSame ==
  ASSUME NEW n \in Nat, NEW a \in Nat, NEW b \in Nat, n <= a, n <= b,
         NEW g, NEW h, Upto(a, g), Upto(b, h)
  PROVE  g[n] = h[n]
<1> DEFINE S == {k \in Nat : k <= a /\ k <= b => g[k] = h[k]}
<1>1. /\ \A k \in 0 .. a : g[k] = IF k = 0 THEN <<>> ELSE EncodingOver(g[k - 1])
      /\ \A k \in 0 .. b : h[k] = IF k = 0 THEN <<>> ELSE EncodingOver(h[k - 1])
  BY Zenon DEF Upto
<1>2. 0 \in S
  <2>1. 0 \in 0 .. a /\ 0 \in 0 .. b
    OBVIOUS
  <2>2. g[0] = <<>> /\ h[0] = <<>>
    BY <1>1, <2>1
  <2>. QED BY <2>2
<1>3. ASSUME NEW k \in Nat, k \in S PROVE k + 1 \in S
  <2> SUFFICES ASSUME k + 1 <= a, k + 1 <= b PROVE g[k + 1] = h[k + 1]
    OBVIOUS
  <2>1. k + 1 \in 0 .. a /\ k + 1 \in 0 .. b /\ (k + 1) - 1 = k /\ k + 1 # 0
    OBVIOUS
  <2>2. g[k] = h[k]
    BY <1>3
  <2>3. g[k + 1] = EncodingOver(g[(k + 1) - 1]) /\ h[k + 1] = EncodingOver(h[(k + 1) - 1])
    BY <1>1, <2>1, Zenon
  <2>. QED BY <2>1, <2>2, <2>3, Zenon
<1> HIDE DEF S
<1>4. n \in S
  BY <1>2, <1>3, SetInduction
<1>. QED BY <1>4 DEF S

(* Encoding satisfies its definition.                                      *)
LEMMA EncodingUnfolds ==
  /\ Encoding[0] = <<>>
  /\ \A d \in Nat : Encoding[d + 1] = EncodingOver(Encoding[d])
<1> DEFINE some(n) == CHOOSE g : Upto(n, g)
           G == [n \in Nat |-> some(n)[n]]
           Body(h) == [d \in Nat |-> IF d = 0 THEN <<>> ELSE EncodingOver(h[d - 1])]
<1>1. \A n \in Nat : Upto(n, some(n))
  BY UptoExists, Zenon
<1> HIDE DEF some
<1>2. ASSUME NEW n \in Nat PROVE G[n] = IF n = 0 THEN <<>> ELSE EncodingOver(G[n - 1])
  <2>1. \A k \in 0 .. n : some(n)[k] = IF k = 0 THEN <<>> ELSE EncodingOver(some(n)[k - 1])
    BY <1>1, Zenon DEF Upto
  <2>2. n \in 0 .. n /\ G[n] = some(n)[n]
    OBVIOUS
  <2>3. CASE n = 0
    <3> HIDE DEF G
    <3>1. some(n)[n] = <<>>
      BY <2>1, <2>2, <2>3, Zenon
    <3>. QED BY <2>2, <2>3, <3>1
  <2>4. CASE n # 0
    <3>1. n - 1 \in Nat /\ n - 1 <= n /\ n - 1 <= n - 1
      BY <2>4
    <3>2. G[n - 1] = some(n - 1)[n - 1]
      BY <3>1
    <3>3. some(n - 1)[n - 1] = some(n)[n - 1]
      BY <1>1, <3>1, UptoSame
    <3> HIDE DEF G
    <3>4. some(n)[n] = EncodingOver(some(n)[n - 1])
      BY <2>1, <2>2, <2>4, Zenon
    <3>. QED BY <2>2, <2>4, <3>2, <3>3, <3>4, Zenon
  <2>. QED BY <2>3, <2>4
<1>3. G = Body(G)
  <2>1. G = [n \in Nat |-> G[n]]
    OBVIOUS
  <2> HIDE DEF G
  <2>2. [n \in Nat |-> G[n]] = Body(G)
    BY <1>2, Zenon
  <2>. QED BY <2>1, <2>2, Zenon
<1> HIDE DEF G
<1>4. Encoding = Body(Encoding)
  <2>1. Encoding = CHOOSE h : h = Body(h)
    BY Zenon DEF Encoding
  <2> HIDE DEF Body
  <2>. QED BY <1>3, <2>1, Zenon
<1>5. \A d \in Nat : Encoding[d] = IF d = 0 THEN <<>> ELSE EncodingOver(Encoding[d - 1])
  BY <1>4, Zenon
<1>6. Encoding[0] = <<>>
  <2>1. 0 \in Nat
    OBVIOUS
  <2>. QED BY <1>5, <2>1, Zenon
<1>7. ASSUME NEW d \in Nat PROVE Encoding[d + 1] = EncodingOver(Encoding[d])
  <2>1. d + 1 \in Nat /\ d + 1 # 0 /\ (d + 1) - 1 = d
    OBVIOUS
  <2>2. Encoding[d + 1] = EncodingOver(Encoding[(d + 1) - 1])
    BY <1>5, <2>1, Zenon
  <2>. QED BY <2>1, <2>2, Zenon
<1>. QED BY <1>6, <1>7

(* What has an encoding, at most d lists deep. *)
Deep(d) == DOMAIN Encoding[d]

(* The encodings of the items from the first up to the last. *)
Codes(d, w) == [k \in DOMAIN w |-> Encoding[d][w[k]]]

(* The items of each depth.                                                *)
LEMMA Domains ==
  /\ Deep(0) = {}
  /\ \A d \in Nat : Deep(d + 1) = [bytes : Seq(Byte)] \union [list : Seq(Deep(d))]
<1>1. Deep(0) = {}
  <2>1. DOMAIN <<>> = {}
    OBVIOUS
  <2>. QED BY <2>1, EncodingUnfolds, Zenon DEF Deep
<1>2. ASSUME NEW d \in Nat PROVE Deep(d + 1) = [bytes : Seq(Byte)] \union [list : Seq(Deep(d))]
  <2>1. Encoding[d + 1] = EncodingOver(Encoding[d])
    BY EncodingUnfolds
  <2>. QED BY <2>1, Zenon DEF Deep, EncodingOver
<1>. QED BY <1>1, <1>2

(* A byte string at any depth.                                             *)
LEMMA ByteItems ==
  ASSUME NEW d \in Nat, NEW b \in Seq(Byte)
  PROVE  Bytes(b) \in Deep(d + 1) /\ Encoding[d + 1][Bytes(b)] = rlp_encode_bytes(b)
<1>1. Bytes(b) \in [bytes : Seq(Byte)] \union [list : Seq(DOMAIN Encoding[d])]
  BY DEF Bytes
<1>2. IsBytes(Bytes(b)) /\ Bytes(b).bytes = b
  BY DEF IsBytes, Bytes
<1>3. Encoding[d + 1] = EncodingOver(Encoding[d])
  BY EncodingUnfolds
<1>4. EncodingOver(Encoding[d])[Bytes(b)] = rlp_encode_bytes(b)
  BY <1>1, <1>2, Zenon DEF EncodingOver
<1>. QED BY <1>1, <1>3, <1>4, Domains, Zenon DEF Deep

(* A list is one deeper than its items.                                    *)
LEMMA ListItems ==
  ASSUME NEW d \in Nat, NEW w \in Seq(Deep(d))
  PROVE  /\ List(w) \in Deep(d + 1)
         /\ Encoding[d + 1][List(w)]
              = rlp_encode_length(Len(FlattenSeq(Codes(d, w))), 192) \o FlattenSeq(Codes(d, w))
<1>1. List(w) \in [bytes : Seq(Byte)] \union [list : Seq(DOMAIN Encoding[d])]
  BY DEF List, Deep
<1>2. ~ IsBytes(List(w)) /\ List(w).list = w
  BY DEF IsBytes, List
<1>3. Encoding[d + 1] = EncodingOver(Encoding[d])
  BY EncodingUnfolds
<1>4. EncodingOver(Encoding[d])[List(w)]
        = rlp_encode_length(Len(FlattenSeq(Codes(d, w))), 192) \o FlattenSeq(Codes(d, w))
  BY <1>1, <1>2, Zenon DEF EncodingOver, Codes
<1>. QED BY <1>1, <1>3, <1>4, Domains, Zenon DEF Deep

(* An item is a byte string or a list.                                     *)
LEMMA ItemCases ==
  ASSUME NEW d \in Nat, NEW x \in Deep(d + 1)
  PROVE  \/ \E b \in Seq(Byte) : x = Bytes(b)
         \/ \E w \in Seq(Deep(d)) : x = List(w)
<1>1. x \in [bytes : Seq(Byte)] \/ x \in [list : Seq(Deep(d))]
  BY Domains
<1>2. CASE x \in [bytes : Seq(Byte)]
  BY <1>2 DEF Bytes
<1>3. CASE x \in [list : Seq(Deep(d))]
  BY <1>3 DEF List
<1>. QED BY <1>1, <1>2, <1>3

(* A sequence over a set is one over a larger set.                         *)
LEMMA LargerSeq ==
  ASSUME NEW S, NEW T, S \subseteq T, NEW w \in Seq(S)
  PROVE  w \in Seq(T) /\ Len(w) \in Nat /\ DOMAIN w = 1 .. Len(w)
         /\ \A k \in 1 .. Len(w) : w[k] \in S
OBVIOUS

(* More depth encodes more items, and the others as before.                *)
LEMMA DeeperStep ==
  ASSUME NEW d \in Nat
  PROVE  Deep(d) \subseteq Deep(d + 1) /\ \A x \in Deep(d) : Encoding[d + 1][x] = Encoding[d][x]
<1> DEFINE S == {n \in Nat : /\ Deep(n) \subseteq Deep(n + 1)
                             /\ \A x \in Deep(n) : Encoding[n + 1][x] = Encoding[n][x]}
<1>1. 0 \in S
  <2>1. Deep(0) = {}
    BY Domains
  <2>. QED BY <2>1
<1>2. ASSUME NEW n \in Nat, n \in S PROVE n + 1 \in S
  <2>1. n + 1 \in Nat /\ Deep(n) \subseteq Deep(n + 1)
        /\ \A x \in Deep(n) : Encoding[n + 1][x] = Encoding[n][x]
    BY <1>2
  <2>2. ASSUME NEW x \in Deep(n + 1)
        PROVE  x \in Deep((n + 1) + 1) /\ Encoding[(n + 1) + 1][x] = Encoding[n + 1][x]
    <3>1. ASSUME NEW b \in Seq(Byte), x = Bytes(b)
          PROVE  x \in Deep((n + 1) + 1) /\ Encoding[(n + 1) + 1][x] = Encoding[n + 1][x]
      <4>1. Bytes(b) \in Deep((n + 1) + 1) /\ Encoding[(n + 1) + 1][Bytes(b)] = rlp_encode_bytes(b)
        BY <2>1, ByteItems
      <4>2. Encoding[n + 1][Bytes(b)] = rlp_encode_bytes(b)
        BY ByteItems
      <4>. QED BY <3>1, <4>1, <4>2, Zenon
    <3>2. ASSUME NEW w \in Seq(Deep(n)), x = List(w)
          PROVE  x \in Deep((n + 1) + 1) /\ Encoding[(n + 1) + 1][x] = Encoding[n + 1][x]
      <4>1. w \in Seq(Deep(n + 1)) /\ DOMAIN w = 1 .. Len(w) /\ \A k \in 1 .. Len(w) : w[k] \in Deep(n)
        BY <2>1, LargerSeq
      <4>2. Codes(n + 1, w) = Codes(n, w)
        <5>1. \A k \in DOMAIN w : Encoding[n + 1][w[k]] = Encoding[n][w[k]]
          BY <2>1, <4>1
        <5>. QED BY <5>1, Zenon DEF Codes
      <4>3. /\ List(w) \in Deep((n + 1) + 1)
            /\ Encoding[(n + 1) + 1][List(w)]
                 = rlp_encode_length(Len(FlattenSeq(Codes(n + 1, w))), 192) \o FlattenSeq(Codes(n + 1, w))
        BY <2>1, <4>1, ListItems
      <4>4. Encoding[n + 1][List(w)]
              = rlp_encode_length(Len(FlattenSeq(Codes(n, w))), 192) \o FlattenSeq(Codes(n, w))
        BY ListItems
      <4>. QED BY <3>2, <4>2, <4>3, <4>4, Zenon
    <3>. QED BY <3>1, <3>2, ItemCases, Zenon
  <2>. QED BY <2>1, <2>2
<1> HIDE DEF S
<1>3. d \in S
  BY <1>1, <1>2, SetInduction
<1>. QED BY <1>3, Zenon DEF S

(* The same for any two depths.                                            *)
LEMMA Deeper ==
  ASSUME NEW d \in Nat, NEW e \in Nat, d <= e
  PROVE  Deep(d) \subseteq Deep(e) /\ \A x \in Deep(d) : Encoding[e][x] = Encoding[d][x]
<1> DEFINE S == {n \in Nat : /\ Deep(d) \subseteq Deep(d + n)
                             /\ \A x \in Deep(d) : Encoding[d + n][x] = Encoding[d][x]}
<1>1. 0 \in S
  <2>1. d + 0 = d
    OBVIOUS
  <2>2. Deep(d) \subseteq Deep(d + 0) /\ \A x \in Deep(d) : Encoding[d + 0][x] = Encoding[d][x]
    BY <2>1, Zenon
  <2>3. 0 \in Nat
    OBVIOUS
  <2>. QED BY <2>2, <2>3, Zenon
<1>2. ASSUME NEW n \in Nat, n \in S PROVE n + 1 \in S
  <2>1. /\ Deep(d) \subseteq Deep(d + n)
        /\ \A x \in Deep(d) : Encoding[d + n][x] = Encoding[d][x]
    BY <1>2, Zenon
  <2>2. d + n \in Nat /\ d + (n + 1) = (d + n) + 1 /\ n + 1 \in Nat
    OBVIOUS
  <2>3. /\ Deep(d + n) \subseteq Deep((d + n) + 1)
        /\ \A x \in Deep(d + n) : Encoding[(d + n) + 1][x] = Encoding[d + n][x]
    BY <2>2, DeeperStep
  <2>4. /\ Deep(d) \subseteq Deep(d + (n + 1))
        /\ \A x \in Deep(d) : Encoding[d + (n + 1)][x] = Encoding[d][x]
    BY <2>1, <2>2, <2>3
  <2>. QED BY <2>2, <2>4, Zenon
<1> HIDE DEF S
<1>3. \A n \in Nat : n \in S
  BY <1>1, <1>2, SetInduction
<1>4. e - d \in Nat /\ d + (e - d) = e
  OBVIOUS
<1>5. e - d \in S
  BY <1>3, <1>4
<1>. QED BY <1>4, <1>5 DEF S

---------------------------------------------------------------------------
(* The types of encodings *)

(* ByteLength is a number.                                                 *)
LEMMA ByteLengthType ==
  ASSUME NEW x
  PROVE  ByteLength(x) \in Nat
BY BitLengthType DEF ByteLength

(* A prefix is one byte, or one more than its length has.                  *)
LEMMA LengthType ==
  ASSUME NEW n \in Nat, NEW offset \in Nat
  PROVE  /\ rlp_encode_length(n, offset) \in Seq(Nat)
         /\ rlp_encode_length(n, offset) # <<>>
         /\ n < 56 => /\ Len(rlp_encode_length(n, offset)) = 1
                      /\ rlp_encode_length(n, offset)[1] = offset + n
         /\ ~ (n < 56) => /\ Len(rlp_encode_length(n, offset)) = 1 + ByteLength(n)
                          /\ rlp_encode_length(n, offset)[1] = offset + 55 + ByteLength(n)
<1>1. CASE n < 56
  <2>1. rlp_encode_length(n, offset) = <<offset + n>>
    BY <1>1, Zenon DEF rlp_encode_length
  <2>. QED BY <1>1, <2>1
<1>2. CASE ~ (n < 56)
  <2> DEFINE m == ByteLength(n)
             b == to_bytes(n, m)
  <2>1. m \in Nat
    BY ByteLengthType
  <2>2. rlp_encode_length(n, offset) = <<offset + 55 + Len(b)>> \o b
    BY <1>2, Zenon DEF rlp_encode_length, ByteLength
  <2> HIDE DEF m
  <2>3. b \in Seq(Nat) /\ Len(b) = m
    <3>1. \A k \in 1 .. m : (n \div pow2[8 * (m - k)]) % 256 \in Nat
      <4>1. ASSUME NEW k \in 1 .. m PROVE (n \div pow2[8 * (m - k)]) % 256 \in Nat
        <5>1. 8 * (m - k) \in Nat
          BY <2>1
        <5>2. pow2[8 * (m - k)] \in Nat \ {0}
          BY <5>1, PowersOfTwo, PowerPositive
        <5>3. n \div pow2[8 * (m - k)] \in Nat
          BY <5>2, Division
        <5>. QED BY <5>3
      <4>. QED BY <4>1
    <3>2. b = [k \in 1 .. m |-> (n \div pow2[8 * (m - k)]) % 256]
      BY DEF to_bytes
    <3>3. b \in [1 .. m -> Nat]
      BY <3>1, <3>2
    <3> HIDE DEF b
    <3>. QED BY <2>1, <3>3
  <2> HIDE DEF b
  <2>4. <<offset + 55 + m>> \in Seq(Nat) /\ Len(<<offset + 55 + m>>) = 1
        /\ <<offset + 55 + m>>[1] = offset + 55 + m
    BY <2>1
  <2>5. rlp_encode_length(n, offset) = <<offset + 55 + m>> \o b
    BY <2>2, <2>3
  <2>6. /\ <<offset + 55 + m>> \o b \in Seq(Nat) /\ Len(<<offset + 55 + m>> \o b) = 1 + m
        /\ (<<offset + 55 + m>> \o b)[1] = offset + 55 + m
    BY <2>3, <2>4, Joined
  <2>7. <<offset + 55 + m>> \o b # <<>>
    BY <2>1, <2>6
  <2>. QED BY <1>2, <2>5, <2>6, <2>7 DEF m
<1>. QED BY <1>1, <1>2

(* Functions on 1 .. m are byte strings.                                   *)
LEMMA ByteFunctions ==
  ASSUME NEW m \in Nat, NEW b \in [1 .. m -> Byte]
  PROVE  b \in Seq(Nat) /\ Len(b) = m
<1>1. \A y \in Byte : y \in Nat
  BY DEF Byte
<1>2. b \in [1 .. m -> Nat]
  BY <1>1
<1>. QED BY <1>2

(* An encoded byte string is not empty.                                    *)
LEMMA BytesType ==
  ASSUME NEW b \in Seq(Nat)
  PROVE  rlp_encode_bytes(b) \in Seq(Nat) /\ rlp_encode_bytes(b) # <<>>
<1>1. CASE Len(b) = 1 /\ b[1] < 128
  <2>1. rlp_encode_bytes(b) = b
    BY <1>1, Zenon DEF rlp_encode_bytes
  <2>. QED BY <1>1, <2>1
<1>2. CASE ~ (Len(b) = 1 /\ b[1] < 128)
  <2> DEFINE head == rlp_encode_length(Len(b), 128)
  <2>1. rlp_encode_bytes(b) = head \o b
    BY <1>2, Zenon DEF rlp_encode_bytes
  <2>2. head \in Seq(Nat) /\ head # <<>>
    <3>1. Len(b) \in Nat /\ 128 \in Nat
      OBVIOUS
    <3>. QED BY <3>1, LengthType, Zenon
  <2> HIDE DEF head
  <2>3. head \o b \in Seq(Nat) /\ Len(head \o b) = Len(head) + Len(b)
        /\ Len(b) \in Nat /\ Len(head) \in Nat /\ Len(head) # 0
    BY <2>2, Joined
  <2>. QED BY <2>1, <2>3
<1>. QED BY <1>1, <1>2

(* A head before a payload.                                                *)
LEMMA HeadedType ==
  ASSUME NEW out \in Seq(Nat), NEW offset \in Nat
  PROVE  /\ rlp_encode_length(Len(out), offset) \o out \in Seq(Nat)
         /\ rlp_encode_length(Len(out), offset) \o out # <<>>
         /\ Len(rlp_encode_length(Len(out), offset) \o out)
              = Len(rlp_encode_length(Len(out), offset)) + Len(out)
         /\ Len(out) < Len(rlp_encode_length(Len(out), offset) \o out)
<1> DEFINE head == rlp_encode_length(Len(out), offset)
<1>1. head \in Seq(Nat) /\ head # <<>>
  <2>1. Len(out) \in Nat
    OBVIOUS
  <2>. QED BY <2>1, LengthType, Zenon
<1> HIDE DEF head
<1>2. head \o out \in Seq(Nat) /\ Len(head \o out) = Len(head) + Len(out)
      /\ Len(out) \in Nat /\ Len(head) \in Nat /\ Len(head) # 0
  BY <1>1, Joined
<1>3. head \o out # <<>>
  BY <1>2
<1>. QED BY <1>2, <1>3 DEF head

(* Nor is an encoded item of any depth.                                    *)
LEMMA DeepType ==
  ASSUME NEW d \in Nat, NEW x \in Deep(d)
  PROVE  Encoding[d][x] \in Seq(Nat) /\ Encoding[d][x] # <<>>
<1> DEFINE S == {n \in Nat : \A y \in Deep(n) : Encoding[n][y] \in Seq(Nat) /\ Encoding[n][y] # <<>>}
<1>1. 0 \in S
  BY Domains
<1>2. ASSUME NEW n \in Nat, n \in S PROVE n + 1 \in S
  <2>1. \A y \in Deep(n) : Encoding[n][y] \in Seq(Nat)
    BY <1>2
  <2>2. ASSUME NEW y \in Deep(n + 1)
        PROVE  Encoding[n + 1][y] \in Seq(Nat) /\ Encoding[n + 1][y] # <<>>
    <3>1. ASSUME NEW b \in Seq(Byte), y = Bytes(b)
          PROVE  Encoding[n + 1][y] \in Seq(Nat) /\ Encoding[n + 1][y] # <<>>
      <4>1. b \in Seq(Nat)
        <5>1. Byte \subseteq Nat
          BY DEF Byte
        <5>. QED BY <5>1, LargerSeq
      <4>. QED BY <3>1, <4>1, BytesType, ByteItems, Zenon
    <3>2. ASSUME NEW w \in Seq(Deep(n)), y = List(w)
          PROVE  Encoding[n + 1][y] \in Seq(Nat) /\ Encoding[n + 1][y] # <<>>
      <4> DEFINE out == FlattenSeq(Codes(n, w))
      <4>1. Codes(n, w) \in Seq(Seq(Nat))
        <5>1. DOMAIN w = 1 .. Len(w) /\ Len(w) \in Nat /\ \A k \in 1 .. Len(w) : w[k] \in Deep(n)
          OBVIOUS
        <5>2. Codes(n, w) = [k \in 1 .. Len(w) |-> Encoding[n][w[k]]]
          BY <5>1, Zenon DEF Codes
        <5>3. \A k \in 1 .. Len(w) : Encoding[n][w[k]] \in Seq(Nat)
          BY <2>1, <5>1
        <5>. QED BY <5>1, <5>2, <5>3
      <4>2. out \in Seq(Nat)
        BY <4>1, FlattenJoined
      <4>3. Encoding[n + 1][List(w)] = rlp_encode_length(Len(out), 192) \o out
        BY ListItems
      <4> HIDE DEF out
      <4>4. /\ rlp_encode_length(Len(out), 192) \o out \in Seq(Nat)
            /\ rlp_encode_length(Len(out), 192) \o out # <<>>
        BY <4>2, HeadedType
      <4>. QED BY <3>2, <4>3, <4>4, Zenon
    <3>. QED BY <3>1, <3>2, ItemCases, Zenon
  <2>3. n + 1 \in Nat
    OBVIOUS
  <2>. QED BY <2>2, <2>3, Zenon
<1> HIDE DEF S
<1>3. d \in S
  BY <1>1, <1>2, SetInduction
<1>. QED BY <1>3, Zenon DEF S

---------------------------------------------------------------------------
(* The items that rlp_encode encodes *)

Item == Deep(MAX_NESTING)

(* The encodings of the first j items of w, and of the others.             *)
FrontCodes(w, j) == [k \in 1 .. j |-> rlp_encode(w[k])]
BackCodes(w, j)  == [k \in 1 .. Len(w) - j |-> rlp_encode(w[j + k])]
Before(w, j) == FlattenSeq(FrontCodes(w, j))
After(w, j)  == FlattenSeq(BackCodes(w, j))

(* Nor is what rlp_encode returns.                                         *)
LEMMA CodeType ==
  ASSUME NEW x \in Item
  PROVE  rlp_encode(x) \in Seq(Nat) /\ rlp_encode(x) # <<>>
BY DeepType, SizesAssumption, Zenon DEF Item, rlp_encode

(* The encodings of the items before and after a place are byte strings.   *)
LEMMA Coded ==
  ASSUME NEW w \in Seq(Item), NEW j \in 0 .. Len(w)
  PROVE  /\ FrontCodes(w, j) \in Seq(Seq(Nat)) /\ Len(FrontCodes(w, j)) = j
         /\ BackCodes(w, j) \in Seq(Seq(Nat)) /\ Len(BackCodes(w, j)) = Len(w) - j
         /\ Before(w, j) \in Seq(Nat) /\ After(w, j) \in Seq(Nat)
<1>1. Len(w) \in Nat /\ \A k \in 1 .. Len(w) : w[k] \in Item
  OBVIOUS
<1>2. \A k \in 1 .. Len(w) : rlp_encode(w[k]) \in Seq(Nat)
  BY <1>1, CodeType
<1>3. FrontCodes(w, j) \in Seq(Seq(Nat)) /\ Len(FrontCodes(w, j)) = j
  <2>1. j \in Nat /\ \A k \in 1 .. j : k \in 1 .. Len(w)
    BY <1>1
  <2>2. FrontCodes(w, j) \in [1 .. j -> Seq(Nat)]
    BY <1>2, <2>1, Zenon DEF FrontCodes
  <2>. QED BY <2>1, <2>2
<1>4. BackCodes(w, j) \in Seq(Seq(Nat)) /\ Len(BackCodes(w, j)) = Len(w) - j
  <2>1. Len(w) - j \in Nat /\ \A k \in 1 .. Len(w) - j : j + k \in 1 .. Len(w)
    BY <1>1
  <2>2. BackCodes(w, j) \in [1 .. Len(w) - j -> Seq(Nat)]
    BY <1>2, <2>1, Zenon DEF BackCodes
  <2>. QED BY <2>1, <2>2
<1>5. Before(w, j) \in Seq(Nat) /\ After(w, j) \in Seq(Nat)
  BY <1>3, <1>4, FlattenJoined DEF Before, After
<1>. QED BY <1>3, <1>4, <1>5

(* Behind the last item there is nothing.                                  *)
LEMMA AllAfter ==
  ASSUME NEW w \in Seq(Item)
  PROVE  After(w, Len(w)) = <<>>
<1>1. Len(w) \in 0 .. Len(w)
  OBVIOUS
<1>2. BackCodes(w, Len(w)) \in Seq(Seq(Nat)) /\ Len(BackCodes(w, Len(w))) = 0
  BY <1>1, Coded
<1>3. BackCodes(w, Len(w)) = <<>>
  BY <1>2
<1>. QED BY <1>3, FlattenNone, Zenon DEF After

(* Before the first item there is nothing.                                 *)
LEMMA NoneBefore ==
  ASSUME NEW w \in Seq(Item)
  PROVE  Before(w, 0) = <<>>
<1>1. 0 \in 0 .. Len(w)
  OBVIOUS
<1>2. FrontCodes(w, 0) \in Seq(Seq(Nat)) /\ Len(FrontCodes(w, 0)) = 0
  BY <1>1, Coded
<1>3. FrontCodes(w, 0) = <<>>
  BY <1>2
<1>. QED BY <1>3, FlattenNone, Zenon DEF Before

(* The next item is taken from those after and added to those before.      *)
LEMMA NextCode ==
  ASSUME NEW w \in Seq(Item), NEW j \in 0 .. Len(w), j < Len(w)
  PROVE  /\ w[j + 1] \in Item /\ rlp_encode(w[j + 1]) \in Seq(Nat)
         /\ After(w, j) = rlp_encode(w[j + 1]) \o After(w, j + 1)
         /\ Before(w, j + 1) = Before(w, j) \o rlp_encode(w[j + 1])
<1> DEFINE x == rlp_encode(w[j + 1])
           s == <<x>>
<1>1. Len(w) \in Nat /\ j \in Nat /\ j + 1 \in 1 .. Len(w) /\ j + 1 \in 0 .. Len(w)
      /\ w[j + 1] \in Item
  OBVIOUS
<1>2. x \in Seq(Nat)
  BY <1>1, CodeType
<1> DEFINE fj == FrontCodes(w, j)
           fi == FrontCodes(w, j + 1)
           bj == BackCodes(w, j)
           bi == BackCodes(w, j + 1)
<1>3. /\ fj \in Seq(Seq(Nat)) /\ Len(fj) = j /\ bj \in Seq(Seq(Nat)) /\ Len(bj) = Len(w) - j
      /\ fi \in Seq(Seq(Nat)) /\ Len(fi) = j + 1 /\ bi \in Seq(Seq(Nat)) /\ Len(bi) = Len(w) - (j + 1)
  BY <1>1, Coded
<1>4. /\ \A k \in 1 .. j : fj[k] = rlp_encode(w[k])
      /\ \A k \in 1 .. j + 1 : fi[k] = rlp_encode(w[k])
      /\ \A k \in 1 .. Len(w) - j : bj[k] = rlp_encode(w[j + k])
      /\ \A k \in 1 .. Len(w) - (j + 1) : bi[k] = rlp_encode(w[(j + 1) + k])
  BY Zenon DEF FrontCodes, BackCodes
<1> HIDE DEF fj, fi, bj, bi, x
<1>5. s \in Seq(Seq(Nat)) /\ Len(s) = 1 /\ s[1] = x
  BY <1>2
<1> HIDE DEF s
<1>6. bj = s \o bi
  <2>1. /\ s \o bi \in Seq(Seq(Nat)) /\ Len(s \o bi) = Len(bj)
        /\ (s \o bi)[1] = x /\ \A k \in 1 .. Len(bi) : (s \o bi)[1 + k] = bi[k]
    <3>1. /\ s \o bi \in Seq(Seq(Nat)) /\ Len(s \o bi) = Len(s) + Len(bi)
          /\ \A i \in 1 .. Len(s) : (s \o bi)[i] = s[i]
          /\ \A i \in 1 .. Len(bi) : (s \o bi)[Len(s) + i] = bi[i]
      BY <1>3, <1>5, JoinedLists, Zenon
    <3>2. 1 \in 1 .. Len(s) /\ 1 + Len(bi) = Len(bj)
      BY <1>1, <1>3, <1>5
    <3>. QED BY <1>5, <3>1, <3>2, Zenon
  <2>2. ASSUME NEW k \in 1 .. Len(bj) PROVE bj[k] = (s \o bi)[k]
    <3>1. CASE k = 1
      <4>1. 1 \in 1 .. Len(w) - j
        BY <1>1
      <4>2. bj[1] = rlp_encode(w[j + 1])
        BY <1>4, <4>1
      <4>. QED BY <2>1, <3>1, <4>2 DEF x
    <3>2. CASE k # 1
      <4>1. /\ k \in 1 .. Len(w) - j /\ k - 1 \in 1 .. Len(w) - (j + 1) /\ k - 1 \in 1 .. Len(bi)
            /\ 1 + (k - 1) = k /\ (j + 1) + (k - 1) = j + k
        BY <1>1, <1>3, <3>2
      <4>2. bj[k] = rlp_encode(w[j + k])
        BY <1>4, <4>1, Zenon
      <4>3. bi[k - 1] = rlp_encode(w[(j + 1) + (k - 1)])
        BY <1>4, <4>1, Zenon
      <4>4. (s \o bi)[1 + (k - 1)] = bi[k - 1]
        BY <2>1, <4>1, Zenon
      <4>. QED BY <4>1, <4>2, <4>3, <4>4, Zenon
    <3>. QED BY <3>1, <3>2
  <2>. QED BY <1>3, <2>1, <2>2, SameElements
<1>7. fi = fj \o s
  <2>1. /\ fj \o s \in Seq(Seq(Nat)) /\ Len(fj \o s) = Len(fi)
        /\ (\A k \in 1 .. Len(fj) : (fj \o s)[k] = fj[k])
        /\ (\A k \in 1 .. Len(s) : (fj \o s)[Len(fj) + k] = s[k])
    <3>1. /\ fj \o s \in Seq(Seq(Nat)) /\ Len(fj \o s) = Len(fj) + Len(s)
          /\ \A i \in 1 .. Len(fj) : (fj \o s)[i] = fj[i]
          /\ \A i \in 1 .. Len(s) : (fj \o s)[Len(fj) + i] = s[i]
      BY <1>3, <1>5, JoinedLists, Zenon
    <3>2. Len(fj) + Len(s) = Len(fi)
      BY <1>3, <1>5
    <3>. QED BY <3>1, <3>2, Zenon
  <2>2. ASSUME NEW k \in 1 .. Len(fi) PROVE fi[k] = (fj \o s)[k]
    <3>1. k \in 1 .. j + 1
      BY <1>3
    <3>2. fi[k] = rlp_encode(w[k])
      BY <1>4, <3>1
    <3>3. CASE k = j + 1
      <4>1. 1 \in 1 .. Len(s) /\ Len(fj) + 1 = k
        BY <1>3, <1>5, <3>3
      <4>2. (fj \o s)[Len(fj) + 1] = s[1]
        BY <2>1, <4>1, Zenon
      <4>. QED BY <1>5, <3>2, <3>3, <4>1, <4>2, Zenon DEF x
    <3>4. CASE k # j + 1
      <4>1. k \in 1 .. j /\ k \in 1 .. Len(fj)
        BY <1>1, <1>3, <3>1, <3>4
      <4>2. (fj \o s)[k] = fj[k]
        BY <2>1, <4>1, Zenon
      <4>3. fj[k] = rlp_encode(w[k])
        BY <1>4, <4>1, Zenon
      <4>. QED BY <3>2, <4>2, <4>3, Zenon
    <3>. QED BY <3>3, <3>4
  <2>. QED BY <1>3, <2>1, <2>2, SameElements
<1>8. FlattenSeq(s) = x
  BY <1>2, FlattenOne DEF s
<1>9. FlattenSeq(bj) = FlattenSeq(s) \o FlattenSeq(bi) /\ FlattenSeq(fi) = FlattenSeq(fj) \o FlattenSeq(s)
  BY <1>3, <1>5, <1>6, <1>7, FlattenJoined
<1>. QED BY <1>1, <1>2, <1>8, <1>9, Zenon DEF x, bj, bi, fi, fj, Before, After

(* The encoding of a list is that of its items, behind their length.       *)
LEMMA ListCode ==
  ASSUME NEW d \in Nat, d + 1 <= MAX_NESTING, NEW w \in Seq(Deep(d))
  PROVE  /\ w \in Seq(Item) /\ List(w) \in Deep(d + 1) /\ List(w) \in Item
         /\ rlp_encode(List(w)) = rlp_encode_length(Len(After(w, 0)), 192) \o After(w, 0)
<1>1. d + 1 \in Nat /\ MAX_NESTING \in Nat /\ d <= MAX_NESTING
  BY SizesAssumption
<1>2. Deep(d) \subseteq Item /\ \A x \in Deep(d) : rlp_encode(x) = Encoding[d][x]
  BY <1>1, Deeper, Zenon DEF Item, rlp_encode
<1>3. Deep(d + 1) \subseteq Item /\ \A x \in Deep(d + 1) : rlp_encode(x) = Encoding[d + 1][x]
  BY <1>1, Deeper, Zenon DEF Item, rlp_encode
<1>4. w \in Seq(Item) /\ Len(w) \in Nat /\ DOMAIN w = 1 .. Len(w) /\ \A k \in 1 .. Len(w) : w[k] \in Deep(d)
  BY <1>2, LargerSeq
<1>5. Codes(d, w) = BackCodes(w, 0)
  <2>1. Codes(d, w) = [k \in 1 .. Len(w) |-> Encoding[d][w[k]]]
    BY <1>4, Zenon DEF Codes
  <2>2. Len(w) - 0 = Len(w) /\ \A k \in 1 .. Len(w) : 0 + k = k
    BY <1>4
  <2>3. \A k \in 1 .. Len(w) : Encoding[d][w[k]] = rlp_encode(w[0 + k])
    BY <1>2, <1>4, <2>2
  <2>4. [k \in 1 .. Len(w) |-> Encoding[d][w[k]]] = [k \in 1 .. Len(w) |-> rlp_encode(w[0 + k])]
    BY <2>3, Zenon
  <2>. QED BY <2>1, <2>2, <2>4, Zenon DEF BackCodes
<1>6. List(w) \in Deep(d + 1) /\ Encoding[d + 1][List(w)]
        = rlp_encode_length(Len(FlattenSeq(Codes(d, w))), 192) \o FlattenSeq(Codes(d, w))
  BY ListItems
<1>7. rlp_encode(List(w)) = Encoding[d + 1][List(w)] /\ List(w) \in Item
  BY <1>3, <1>6
<1>. QED BY <1>4, <1>5, <1>6, <1>7, Zenon DEF After

(* What rlp_encode returns for a byte string.                              *)
LEMMA BytesCode ==
  ASSUME NEW b \in Seq(Byte), MAX_NESTING # 0
  PROVE  /\ Bytes(b) \in Deep(1) /\ Bytes(b) \in Item
         /\ rlp_encode(Bytes(b)) = rlp_encode_bytes(b)
<1>1. 0 \in Nat /\ 0 + 1 = 1 /\ 1 \in Nat /\ 1 <= MAX_NESTING /\ MAX_NESTING \in Nat
  BY SizesAssumption
<1>2. Bytes(b) \in Deep(0 + 1) /\ Encoding[0 + 1][Bytes(b)] = rlp_encode_bytes(b)
  BY <1>1, ByteItems
<1>3. Deep(1) \subseteq Item /\ \A x \in Deep(1) : rlp_encode(x) = Encoding[1][x]
  BY <1>1, Deeper, Zenon DEF Item, rlp_encode
<1>. QED BY <1>1, <1>2, <1>3

(* What an item is, and what its encoding.                                 *)
LEMMA ItemIs ==
  ASSUME NEW x \in Item
  PROVE  \/ \E b \in Seq(Byte) : x = Bytes(b) /\ rlp_encode(x) = rlp_encode_bytes(b)
         \/ \E w \in Seq(Item) :
              x = List(w) /\ rlp_encode(x) = rlp_encode_length(Len(After(w, 0)), 192) \o After(w, 0)
<1>1. MAX_NESTING # 0 /\ MAX_NESTING \in Nat
  BY Domains, SizesAssumption DEF Item
<1> DEFINE d == MAX_NESTING - 1
<1>2. d \in Nat /\ d + 1 = MAX_NESTING /\ d + 1 <= MAX_NESTING
  BY <1>1
<1> HIDE DEF d
<1>3. x \in Deep(d + 1)
  BY <1>2 DEF Item
<1>4. CASE \E b \in Seq(Byte) : x = Bytes(b)
  BY <1>1, <1>4, BytesCode, Zenon
<1>5. CASE \E w \in Seq(Deep(d)) : x = List(w)
  BY <1>2, <1>5, ListCode, Zenon
<1>. QED BY <1>2, <1>3, <1>4, <1>5, ItemCases, Zenon

---------------------------------------------------------------------------
(* Prefixes *)

(* A larger number has no fewer bits.                                      *)
LEMMA BitsMonotone ==
  ASSUME NEW x \in Nat, NEW y \in Nat, x <= y
  PROVE  bit_length(x) <= bit_length(y)
<1> DEFINE P(z) == {n \in 0 .. MAX_BITS - 1 : pow2[n] <= z}
<1>1. IsFiniteSet(0 .. MAX_BITS - 1)
  <2>1. 0 \in Int /\ MAX_BITS - 1 \in Int
    BY SizesAssumption
  <2>. QED BY <2>1, FS_Interval
<1>2. IsFiniteSet(P(y))
  <2>1. P(y) \in SUBSET (0 .. MAX_BITS - 1)
    OBVIOUS
  <2> HIDE DEF P
  <2>. QED BY <1>1, <2>1, FS_Subset
<1>3. P(x) \in SUBSET P(y)
  <2>1. ASSUME NEW n \in 0 .. MAX_BITS - 1, pow2[n] <= x PROVE pow2[n] <= y
    <3>1. pow2[n] \in Nat
      BY PowersOfTwo
    <3>. QED BY <2>1, <3>1
  <2>. QED BY <2>1
<1> HIDE DEF P
<1>4. Cardinality(P(x)) <= Cardinality(P(y))
  BY <1>2, <1>3, FS_Subset
<1>. QED BY <1>4, Zenon DEF bit_length, P

(* A shorter length can be announced, too.                                 *)
LEMMA AnnouncedLess ==
  ASSUME NEW x \in Nat, NEW y \in Nat, x <= y, Announced(y)
  PROVE  Announced(x)
<1>1. bit_length(x) <= bit_length(y) /\ bit_length(x) \in Nat /\ bit_length(y) \in Nat
  BY BitsMonotone, BitLengthType
<1>2. pow2[MAX_BITS] \in Nat
  BY PowersOfTwo, SizesAssumption
<1>. QED BY <1>1, <1>2 DEF Announced

(* The length of a prefix.                                                 *)
LEMMA LongLength ==
  ASSUME NEW n \in Nat, Announced(n), ~ (n < 56)
  PROVE  /\ ByteLength(n) \in 1 .. 8
         /\ n < pow2[8 * ByteLength(n)]
<1>1. n # 0 /\ n < pow2[MAX_BITS] /\ bit_length(n) <= 64 /\ bit_length(n) \in Nat
  BY BitLengthType DEF Announced
<1>2. ByteLength(n) \in Nat \ {0} /\ n < pow2[8 * ByteLength(n)]
  BY <1>1, FewestBytes
<1>3. ByteLength(n) <= 8
  BY <1>1 DEF ByteLength
<1>. QED BY <1>2, <1>3

(* A prefix says where its payload begins and how long it is.              *)
Reads(head, rest, n, offset) ==
  LET e == head \o rest
  IN  /\ e # <<>>
      /\ offset = 128 => /\ e[1] \in 128 .. 191
                       /\ Payload(e) = [start |-> Len(head), length |-> n]
      /\ offset = 192 => /\ e[1] >= 192
                       /\ Payload(e) = [start |-> Len(head), length |-> n]

(* Payload reads what rlp_encode_length wrote.                             *)
LEMMA HeadRead ==
  ASSUME NEW n \in Nat, Announced(n), NEW offset \in Nat, NEW rest \in Seq(Nat)
  PROVE  Reads(rlp_encode_length(n, offset), rest, n, offset)
<1> DEFINE head == rlp_encode_length(n, offset)
           e == head \o rest
           m == ByteLength(n)
<1>1. /\ head \in Seq(Nat) /\ head # <<>>
      /\ n < 56 => Len(head) = 1 /\ head[1] = offset + n
      /\ ~ (n < 56) => Len(head) = 1 + m /\ head[1] = offset + 55 + m
  BY LengthType
<1>2. m \in Nat
  BY ByteLengthType
<1>3. e \in Seq(Nat) /\ Len(e) = Len(head) + Len(rest) /\ e[1] = head[1]
      /\ Len(head) \in Nat /\ Len(rest) \in Nat
  <2>1. head \in Seq(Nat) /\ head # <<>>
    BY <1>1
  <2> HIDE DEF head
  <2>2. /\ e \in Seq(Nat) /\ Len(e) = Len(head) + Len(rest)
        /\ Len(head) \in Nat /\ Len(rest) \in Nat
    BY <2>1, Joined
  <2>3. e[1] = head[1]
    BY <2>1, JoinedFirst
  <2>. QED BY <2>2, <2>3, Zenon
<1>4. e # <<>>
  <2> HIDE DEF e, head, Reads
  <2>1. Len(e) # 0
    BY <1>1, <1>2, <1>3
  <2>. QED BY <2>1
<1>5. CASE n < 56
  <2>1. Len(head) = 1 /\ e[1] = offset + n
    BY <1>1, <1>3, <1>5
  <2> HIDE DEF e, head, Reads
  <2>2. CASE offset = 128
    <3>1. e[1] \in 128 .. 183 /\ ~ (e[1] < 128) /\ ~ (e[1] \in 184 .. 191)
          /\ ~ (e[1] \in 192 .. 247) /\ e[1] - 128 = n
      BY <1>5, <2>1, <2>2
    <3>2. Payload(e) = [start |-> 1, length |-> e[1] - 128]
      BY <3>1 DEF Payload
    <3>. QED BY <1>3, <1>4, <2>1, <2>2, <3>1, <3>2 DEF e, head, Reads
  <2>3. CASE offset = 192
    <3>1. e[1] \in 192 .. 247 /\ ~ (e[1] < 128) /\ ~ (e[1] \in 128 .. 183) /\ ~ (e[1] \in 184 .. 191)
          /\ e[1] - 192 = n
      BY <1>5, <2>1, <2>3
    <3>2. Payload(e) = [start |-> 1, length |-> e[1] - 192]
      BY <3>1 DEF Payload
    <3>. QED BY <1>3, <1>4, <2>1, <2>3, <3>1, <3>2 DEF e, head, Reads
  <2>. QED BY <1>3, <1>4, <2>2, <2>3 DEF e, head, Reads
<1>6. CASE ~ (n < 56)
  <2> DEFINE b == to_bytes(n, m)
             p == <<offset + 55 + m>>
  <2>1. m \in 1 .. 8 /\ n < pow2[8 * m]
    BY <1>6, LongLength
  <2>2. Len(head) = 1 + m /\ e[1] = offset + 55 + m
    BY <1>1, <1>3, <1>6
  <2>3. b \in [1 .. m -> Byte] /\ from_bytes(b) = n
    <3> HIDE DEF m
    <3>. QED BY <1>2, <2>1, BytesReturn, Zenon
  <2>4. b \in Seq(Nat) /\ Len(b) = m
    <3> HIDE DEF b, m
    <3>. QED BY <1>2, <2>3, ByteFunctions, Zenon
  <2>5. head = p \o b
    <3>1. head = <<offset + 55 + Len(b)>> \o b
      BY <1>6, Zenon DEF rlp_encode_length, ByteLength
    <3>. QED BY <2>4, <3>1, Zenon
  <2>6. p \in Seq(Nat) /\ Len(p) = 1
    BY <1>2
  <2>7. Slice(e, 1, 1 + m) = b
    <3> HIDE DEF p, b, head, e
    <3>1. Slice(p \o b \o rest, Len(p), Len(p) + Len(b)) = b
      BY <2>4, <2>6, SliceMiddle
    <3>. QED BY <2>4, <2>5, <2>6, <3>1, Zenon DEF e
  <2> HIDE DEF e, head, b, p, m
  <2>8. CASE offset = 128
    <3>1. e[1] \in 184 .. 191 /\ ~ (e[1] < 128) /\ ~ (e[1] \in 128 .. 183)
          /\ ~ (e[1] \in 192 .. 247) /\ e[1] - 183 = m
      BY <2>1, <2>2, <2>8
    <3>2. Payload(e) = [start |-> 1 + (e[1] - 183), length |-> from_bytes(Slice(e, 1, 1 + (e[1] - 183)))]
      BY <3>1 DEF Payload
    <3>3. Payload(e) = [start |-> 1 + m, length |-> n]
      BY <2>3, <2>7, <3>1, <3>2
    <3>4. e[1] \in 128 .. 191
      BY <3>1
    <3>. QED BY <1>3, <1>4, <2>2, <2>8, <3>3, <3>4 DEF e, head, Reads
  <2>9. CASE offset = 192
    <3>1. e[1] >= 192 /\ ~ (e[1] < 128) /\ ~ (e[1] \in 128 .. 183) /\ ~ (e[1] \in 184 .. 191)
          /\ ~ (e[1] \in 192 .. 247) /\ e[1] - 247 = m
      BY <2>1, <2>2, <2>9
    <3>2. Payload(e) = [start |-> 1 + (e[1] - 247), length |-> from_bytes(Slice(e, 1, 1 + (e[1] - 247)))]
      BY <3>1 DEF Payload
    <3>3. Payload(e) = [start |-> 1 + m, length |-> n]
      BY <2>3, <2>7, <3>1, <3>2
    <3>. QED BY <1>3, <1>4, <2>2, <2>9, <3>1, <3>3 DEF e, head, Reads
  <2>. QED BY <1>3, <1>4, <2>8, <2>9 DEF e, head, Reads
<1>. QED BY <1>5, <1>6

(* What the decoder takes off an encoding: the payload, leaving the rest.  *)
Taken(code, payload, tail) ==
  LET e == code \o tail
      p == Payload(e)
  IN  /\ Slice(e, p.start, p.start + p.length) = payload
      /\ From(e, p.start + p.length) = tail

(* A payload behind its prefix is taken, the offset telling the kind.      *)
LEMMA HeadTaken ==
  ASSUME NEW out \in Seq(Nat), Announced(Len(out)), NEW offset \in Nat, NEW tail \in Seq(Nat)
  PROVE  LET code == rlp_encode_length(Len(out), offset) \o out
         IN  /\ code \o tail # <<>>
             /\ offset = 128 => (code \o tail)[1] < 192 /\ Taken(code, out, tail)
             /\ offset = 192 => (code \o tail)[1] >= 192 /\ Taken(code, out, tail)
<1> DEFINE n == Len(out)
           head == rlp_encode_length(n, offset)
           code == head \o out
           e == head \o (out \o tail)
<1>1. n \in Nat /\ Announced(n)
  OBVIOUS
<1>2. out \o tail \in Seq(Nat)
  BY Joined
<1>3. /\ e # <<>>
      /\ offset = 128 => e[1] \in 128 .. 191 /\ Payload(e) = [start |-> Len(head), length |-> n]
      /\ offset = 192 => e[1] >= 192 /\ Payload(e) = [start |-> Len(head), length |-> n]
  <2> DEFINE rest == out \o tail
  <2>1. rest \in Seq(Nat)
    BY <1>2
  <2> HIDE DEF n, rest
  <2>2. /\ head \o rest # <<>>
        /\ offset = 128 => /\ (head \o rest)[1] \in 128 .. 191
                         /\ Payload(head \o rest) = [start |-> Len(head), length |-> n]
        /\ offset = 192 => /\ (head \o rest)[1] >= 192
                         /\ Payload(head \o rest) = [start |-> Len(head), length |-> n]
    <3>1. Reads(head, rest, n, offset)
      BY <1>1, <2>1, HeadRead, Zenon
    <3> HIDE DEF head
    <3>. QED BY <3>1, Zenon DEF Reads
  <2> HIDE DEF head
  <2>. QED BY <2>2, Zenon DEF rest
<1>4. head \in Seq(Nat)
  <2> HIDE DEF n
  <2>. QED BY <1>1, LengthType
<1> HIDE DEF head
<1>5. code \o tail = e
  BY <1>4, JoinedThree
<1>6. Slice(e, Len(head), Len(head) + n) = out /\ From(e, Len(head) + n) = tail
  <2>1. Slice(head \o out \o tail, Len(head), Len(head) + Len(out)) = out
        /\ From(head \o out \o tail, Len(head) + Len(out)) = tail
    BY <1>4, SliceMiddle, Zenon
  <2> HIDE DEF e
  <2>. QED BY <1>5, <2>1, Zenon
<1> HIDE DEF e, n
<1>7. ASSUME Payload(e) = [start |-> Len(head), length |-> n] PROVE Taken(code, out, tail)
  <2>1. Payload(e).start = Len(head) /\ Payload(e).length = n
    BY <1>7
  <2>. QED BY <1>5, <1>6, <2>1, Zenon DEF Taken
<1>8. \A y \in 128 .. 191 : y < 192
  OBVIOUS
<1>. QED BY <1>3, <1>5, <1>7, <1>8, Zenon DEF n, head

(* A byte below 128 is its own payload.                                    *)
LEMMA SmallByte ==
  ASSUME NEW e, NEW y \in Nat, e[1] = y, y < 128
  PROVE  Payload(e) = [start |-> 0, length |-> 1]
BY DEF Payload

(* An encoded byte string is taken.                                        *)
LEMMA BytesTaken ==
  ASSUME NEW b \in Seq(Byte), Announced(Len(b)), NEW tail \in Seq(Nat)
  PROVE  LET code == rlp_encode_bytes(b)
         IN  /\ code \o tail # <<>> /\ (code \o tail)[1] < 192
             /\ Taken(code, b, tail)
<1>0. b \in Seq(Nat)
  <2>1. Byte \subseteq Nat
    BY DEF Byte
  <2>. QED BY <2>1, LargerSeq
<1>1. CASE Len(b) = 1 /\ b[1] < 128
  <2> DEFINE e == b \o tail
  <2>1. rlp_encode_bytes(b) = b
    BY <1>1, Zenon DEF rlp_encode_bytes
  <2>2. b # <<>> /\ b[1] \in Nat
    BY <1>0, <1>1, OneByte, Zenon
  <2>3. e # <<>> /\ e[1] = b[1]
    BY <1>0, <2>2, JoinedFirst
  <2>4. <<>> \in Seq(Nat) /\ Len(<<>>) = 0
    OBVIOUS
  <2>5. Slice(<<>> \o b \o tail, Len(<<>>), Len(<<>>) + Len(b)) = b
        /\ From(<<>> \o b \o tail, Len(<<>>) + Len(b)) = tail
    BY <1>0, <2>4, SliceMiddle
  <2>6. <<>> \o b = b
    BY <1>0, JoinedEmpty
  <2> HIDE DEF e
  <2>7. Slice(e, 0, 0 + 1) = b /\ From(e, 0 + 1) = tail
    BY <1>1, <2>4, <2>5, <2>6, Zenon DEF e
  <2>8. Payload(e) = [start |-> 0, length |-> 1]
    <3>1. e[1] < 128 /\ e[1] \in Nat
      BY <1>1, <2>2, <2>3, Zenon
    <3>. QED BY <3>1, SmallByte, Zenon
  <2>9. Payload(e).start = 0 /\ Payload(e).length = 1
    BY <2>8
  <2>10. Taken(b, b, tail)
    BY <2>7, <2>9, Zenon DEF Taken, e
  <2>11. e[1] < 192
    <3>1. \A y \in Nat : y < 128 => y < 192
      OBVIOUS
    <3>. QED BY <1>1, <2>2, <2>3, <3>1, Zenon
  <2>. QED BY <2>1, <2>3, <2>10, <2>11, Zenon DEF e
<1>2. CASE ~ (Len(b) = 1 /\ b[1] < 128)
  <2>1. rlp_encode_bytes(b) = rlp_encode_length(Len(b), 128) \o b
    BY <1>2, Zenon DEF rlp_encode_bytes
  <2>2. 128 \in Nat
    OBVIOUS
  <2> DEFINE c == rlp_encode_length(Len(b), 128) \o b
  <2>3. c \o tail # <<>> /\ (c \o tail)[1] < 192 /\ Taken(c, b, tail)
    BY <1>0, <2>2, HeadTaken, Zenon
  <2> HIDE DEF c
  <2>. QED BY <2>1, <2>3, Zenon DEF c
<1>. QED BY <1>1, <1>2

(* Parts of what fits fit.                                                 *)
LEMMA BytesFit ==
  ASSUME NEW b \in Seq(Nat), Announced(Len(rlp_encode_bytes(b)))
  PROVE  Announced(Len(b))
<1>1. CASE Len(b) = 1 /\ b[1] < 128
  BY <1>1, Zenon DEF rlp_encode_bytes
<1>2. CASE ~ (Len(b) = 1 /\ b[1] < 128)
  <2>1. rlp_encode_bytes(b) = rlp_encode_length(Len(b), 128) \o b
    BY <1>2, Zenon DEF rlp_encode_bytes
  <2>2. 128 \in Nat
    OBVIOUS
  <2> DEFINE c == rlp_encode_length(Len(b), 128) \o b
  <2>3. c \in Seq(Nat) /\ Len(b) < Len(c)
    BY <2>2, HeadedType, Zenon
  <2> HIDE DEF c
  <2>4. Len(b) \in Nat /\ Len(c) \in Nat /\ Len(b) <= Len(c)
    BY <2>3
  <2>5. Announced(Len(c))
    BY <2>1, Zenon DEF c
  <2>. QED BY <2>4, <2>5, AnnouncedLess
<1>. QED BY <1>1, <1>2

(* The items before a place and those after it make up the list.           *)
LEMMA SplitCode ==
  ASSUME NEW w \in Seq(Item), NEW j \in 0 .. Len(w)
  PROVE  After(w, 0) = Before(w, j) \o After(w, j)
<1> DEFINE S == {k \in Nat : k <= Len(w) => After(w, 0) = Before(w, k) \o After(w, k)}
<1>1. Len(w) \in Nat
  OBVIOUS
<1>2. 0 \in S
  <2>1. 0 \in 0 .. Len(w)
    BY <1>1
  <2>2. After(w, 0) \in Seq(Nat)
    BY <2>1, Coded
  <2>3. Before(w, 0) = <<>>
    BY NoneBefore
  <2>. QED BY <2>2, <2>3, JoinedEmpty
<1>3. ASSUME NEW k \in Nat, k \in S PROVE k + 1 \in S
  <2> SUFFICES ASSUME k + 1 <= Len(w) PROVE After(w, 0) = Before(w, k + 1) \o After(w, k + 1)
    OBVIOUS
  <2>1. k \in 0 .. Len(w) /\ k < Len(w) /\ k + 1 \in 0 .. Len(w) /\ k <= Len(w)
    BY <1>1
  <2>2. After(w, 0) = Before(w, k) \o After(w, k)
    BY <1>3, <2>1
  <2>3. /\ rlp_encode(w[k + 1]) \in Seq(Nat)
        /\ After(w, k) = rlp_encode(w[k + 1]) \o After(w, k + 1)
        /\ Before(w, k + 1) = Before(w, k) \o rlp_encode(w[k + 1])
    BY <2>1, NextCode, Zenon
  <2>4. Before(w, k) \in Seq(Nat) /\ After(w, k + 1) \in Seq(Nat)
    BY <2>1, Coded
  <2>5. After(w, 0) = Before(w, k) \o (rlp_encode(w[k + 1]) \o After(w, k + 1))
    BY <2>2, <2>3, Zenon
  <2>6. Before(w, k) \o (rlp_encode(w[k + 1]) \o After(w, k + 1))
          = (Before(w, k) \o rlp_encode(w[k + 1])) \o After(w, k + 1)
    BY <2>3, <2>4, Associative, Zenon
  <2>. QED BY <2>3, <2>5, <2>6, Zenon
<1>4. \A k \in Nat : k \in S
  <2> HIDE DEF S
  <2>. QED BY <1>2, <1>3, SetInduction
<1>5. j \in Nat /\ j <= Len(w)
  BY <1>1
<1>. QED BY <1>4, <1>5

(* An item is no longer than the list.                                     *)
LEMMA PartsLength ==
  ASSUME NEW w \in Seq(Item), NEW k \in 1 .. Len(w)
  PROVE  /\ Len(rlp_encode(w[k])) \in Nat /\ Len(After(w, 0)) \in Nat
         /\ Len(rlp_encode(w[k])) <= Len(After(w, 0))
<1>1. Len(w) \in Nat
  OBVIOUS
<1> DEFINE j == k - 1
<1>5. j \in Nat /\ j <= Len(w) /\ j \in 0 .. Len(w) /\ j < Len(w) /\ j + 1 = k /\ j + 1 \in 0 .. Len(w)
  BY <1>1
<1> HIDE DEF j
<1>6. After(w, 0) = Before(w, j) \o After(w, j)
  BY <1>5, SplitCode
<1>7. /\ rlp_encode(w[j + 1]) \in Seq(Nat)
      /\ After(w, j) = rlp_encode(w[j + 1]) \o After(w, j + 1)
  BY <1>5, NextCode, Zenon
<1>8. Before(w, j) \in Seq(Nat) /\ After(w, j) \in Seq(Nat) /\ After(w, j + 1) \in Seq(Nat)
  BY <1>5, Coded
<1>9. /\ Len(After(w, j)) = Len(rlp_encode(w[j + 1])) + Len(After(w, j + 1))
      /\ Len(rlp_encode(w[j + 1])) \in Nat /\ Len(After(w, j + 1)) \in Nat
  BY <1>7, <1>8, JoinedNumbers
<1>10. Len(After(w, 0)) = Len(Before(w, j)) + Len(After(w, j)) /\ Len(Before(w, j)) \in Nat
  BY <1>6, <1>8, JoinedNumbers
<1>. QED BY <1>5, <1>9, <1>10

(* A list that fits holds items that fit, and its payload is announced.    *)
LEMMA ListFits ==
  ASSUME NEW w \in Seq(Item), List(w) \in Item, Fits(List(w)),
         rlp_encode(List(w)) = rlp_encode_length(Len(After(w, 0)), 192) \o After(w, 0)
  PROVE  Announced(Len(After(w, 0))) /\ \A k \in 1 .. Len(w) : Fits(w[k])
<1> DEFINE out == After(w, 0)
           c == rlp_encode_length(Len(out), 192) \o out
<1>1. out \in Seq(Nat)
  <2>1. 0 \in 0 .. Len(w)
    OBVIOUS
  <2>. QED BY <2>1, Coded
<1>2. Len(out) \in Nat /\ Len(c) \in Nat /\ Len(out) <= Len(c)
  <2> HIDE DEF out
  <2>1. 192 \in Nat
    OBVIOUS
  <2>2. c \in Seq(Nat) /\ Len(out) < Len(c)
    BY <1>1, <2>1, HeadedType, Zenon
  <2> HIDE DEF c
  <2>. QED BY <1>1, <2>2
<1>3. Announced(Len(c))
  BY Zenon DEF Fits
<1>4. Announced(Len(out))
  <2> HIDE DEF out, c
  <2>. QED BY <1>2, <1>3, AnnouncedLess
<1>5. ASSUME NEW k \in 1 .. Len(w) PROVE Fits(w[k])
  <2>1. w[k] \in Item
    OBVIOUS
  <2>2. Len(rlp_encode(w[k])) \in Nat /\ Len(rlp_encode(w[k])) <= Len(out)
    BY PartsLength
  <2>3. Announced(Len(rlp_encode(w[k])))
    <3> HIDE DEF out
    <3>. QED BY <1>2, <1>4, <2>2, AnnouncedLess
  <2>. QED BY <2>1, <2>3, Zenon DEF Fits, Item, Deep
<1>. QED BY <1>4, <1>5

---------------------------------------------------------------------------
(* Frames *)

(* The top of a stack is replaced.                                         *)
LEMMA PutTop ==
  ASSUME NEW S, NEW s \in Seq(S), NEW m \in Nat, m <= Len(s), NEW F \in S,
         NEW t, t = Append(SubSeq(s, 1, m), F)
  PROVE  /\ t \in Seq(S) /\ Len(t) = m + 1 /\ t[m + 1] = F
         /\ \A k \in 1 .. m : t[k] = s[k]
<1> DEFINE u == SubSeq(s, 1, m)
<1>1. u \in Seq(S) /\ Len(u) = m /\ \A k \in 1 .. m : u[k] = s[k]
  OBVIOUS
<1> HIDE DEF u
<1>2. /\ Append(u, F) \in Seq(S) /\ Len(Append(u, F)) = m + 1 /\ Append(u, F)[m + 1] = F
      /\ \A k \in 1 .. m : Append(u, F)[k] = u[k]
  BY <1>1
<1>. QED BY <1>1, <1>2 DEF u

(* The top of a stack is replaced by two.                                  *)
LEMMA PutTwo ==
  ASSUME NEW S, NEW s \in Seq(S), NEW m \in Nat, m <= Len(s), NEW F \in S, NEW G \in S,
         NEW t, t = SubSeq(s, 1, m) \o <<F, G>>
  PROVE  /\ t \in Seq(S) /\ Len(t) = m + 2 /\ t[m + 1] = F /\ t[m + 2] = G
         /\ \A k \in 1 .. m : t[k] = s[k]
<1> DEFINE u == SubSeq(s, 1, m)
<1>1. u \in Seq(S) /\ Len(u) = m /\ \A k \in 1 .. m : u[k] = s[k]
  OBVIOUS
<1> HIDE DEF u
<1>2. /\ u \o <<F, G>> \in Seq(S) /\ Len(u \o <<F, G>>) = m + 2
      /\ (u \o <<F, G>>)[m + 1] = F /\ (u \o <<F, G>>)[m + 2] = G
      /\ \A k \in 1 .. m : (u \o <<F, G>>)[k] = u[k]
  BY <1>1
<1>. QED BY <1>1, <1>2 DEF u

Frames == [rest : Seq(Nat), out : Seq(Item)]

(* The frame f has read the first items of the list w, and has the others  *)
(* left; skip is 1 if another frame reads the item between them.           *)
Follows(f, w, skip, tail) ==
  /\ Len(f.out) + skip <= Len(w)
  /\ \A i \in 1 .. Len(f.out) : f.out[i] = w[i]
  /\ f.rest = After(w, Len(f.out) + skip) \o tail

Next_(f, w) == w[Len(f.out) + 1]

(* The fields of a frame.                                                  *)
LEMMA FrameType ==
  ASSUME NEW f \in Frames
  PROVE  f.rest \in Seq(Nat) /\ f.out \in Seq(Item) /\ Len(f.out) \in Nat
BY DEF Frames

(* A frame of bytes left and items read.                                   *)
LEMMA FrameIs ==
  ASSUME NEW rest \in Seq(Nat), NEW out \in Seq(Item)
  PROVE  /\ Frame(rest, out) \in Frames
         /\ Frame(rest, out).rest = rest /\ Frame(rest, out).out = out
BY DEF Frames, Frame

(* The next item of w is appended to the first ones.                       *)
LEMMA AppendItem ==
  ASSUME NEW out \in Seq(Item), NEW x \in Item, NEW w \in Seq(Item), Len(out) < Len(w),
         \A i \in 1 .. Len(out) : out[i] = w[i], w[Len(out) + 1] = x
  PROVE  /\ Append(out, x) \in Seq(Item) /\ Len(Append(out, x)) = Len(out) + 1
         /\ \A i \in 1 .. Len(out) + 1 : Append(out, x)[i] = w[i]
<1>1. /\ Append(out, x) \in Seq(Item) /\ Len(Append(out, x)) = Len(out) + 1 /\ Len(out) \in Nat
      /\ Append(out, x)[Len(out) + 1] = x
      /\ \A i \in 1 .. Len(out) : Append(out, x)[i] = out[i]
  OBVIOUS
<1>2. ASSUME NEW i \in 1 .. Len(out) + 1 PROVE Append(out, x)[i] = w[i]
  <2>1. CASE i = Len(out) + 1
    BY <1>1, <2>1, Zenon
  <2>2. CASE i # Len(out) + 1
    <3>1. i \in 1 .. Len(out)
      BY <1>1, <2>2
    <3>. QED BY <1>1, <3>1, Zenon
  <2>. QED BY <2>1, <2>2
<1>. QED BY <1>1, <1>2

(* A frame that has items left begins with the encoding of the next.       *)
LEMMA NextItem ==
  ASSUME NEW f \in Frames, NEW w \in Seq(Item), NEW tail \in Seq(Nat),
         Follows(f, w, 0, tail), Len(f.out) < Len(w)
  PROVE  LET left == After(w, Len(f.out) + 1) \o tail
         IN  /\ Next_(f, w) \in Item /\ rlp_encode(Next_(f, w)) \in Seq(Nat) /\ left \in Seq(Nat)
             /\ f.rest = rlp_encode(Next_(f, w)) \o left
<1> DEFINE j == Len(f.out)
<1>1. j \in 0 .. Len(w) /\ j < Len(w) /\ j + 0 = j /\ j + 1 \in 0 .. Len(w)
  BY FrameType
<1> HIDE DEF j
<1>2. /\ w[j + 1] \in Item /\ rlp_encode(w[j + 1]) \in Seq(Nat)
      /\ After(w, j) = rlp_encode(w[j + 1]) \o After(w, j + 1)
  BY <1>1, NextCode, Zenon
<1>3. After(w, j + 1) \in Seq(Nat)
  BY <1>1, Coded
<1>4. f.rest = After(w, j) \o tail
  <2>1. f.rest = After(w, j + 0) \o tail
    BY Zenon DEF Follows, j
  <2>. QED BY <1>1, <2>1, Zenon
<1>5. After(w, j + 1) \o tail \in Seq(Nat)
  BY <1>3, JoinedNumbers
<1>6. rlp_encode(w[j + 1]) \o (After(w, j + 1) \o tail) = (rlp_encode(w[j + 1]) \o After(w, j + 1)) \o tail
  BY <1>2, <1>3, Associative, Zenon
<1>7. f.rest = rlp_encode(w[j + 1]) \o (After(w, j + 1) \o tail)
  BY <1>2, <1>4, <1>6, Zenon
<1>. QED BY <1>2, <1>5, <1>7, Zenon DEF Next_, j

(* The records of items.                                                   *)
LEMMA ItemRecords ==
  /\ \A b : IsBytes(Bytes(b)) /\ Bytes(b).bytes = b
  /\ \A w : ~ IsBytes(List(w)) /\ List(w).list = w
BY DEF IsBytes, Bytes, List

(* What fits is an item, and its length can be announced.                  *)
LEMMA FitsIs ==
  ASSUME NEW x, Fits(x)
  PROVE  x \in Item /\ Announced(Len(rlp_encode(x)))
BY Zenon DEF Fits, Item, Deep

(* What the first byte of an item that fits says, and what is taken.       *)
LEMMA BytesNext ==
  ASSUME NEW b \in Seq(Byte), NEW x, x = Bytes(b), Fits(x), rlp_encode(x) = rlp_encode_bytes(b),
         NEW left \in Seq(Nat)
  PROVE  /\ rlp_encode(x) \o left # <<>>
         /\ (rlp_encode(x) \o left)[1] < 192
         /\ Taken(rlp_encode(x), b, left)
<1>1. b \in Seq(Nat)
  <2>1. Byte \subseteq Nat
    BY DEF Byte
  <2>. QED BY <2>1, LargerSeq
<1>2. Announced(Len(rlp_encode_bytes(b)))
  BY FitsIs, Zenon
<1>3. Announced(Len(b))
  BY <1>1, <1>2, BytesFit
<1>4. /\ rlp_encode_bytes(b) \o left # <<>> /\ (rlp_encode_bytes(b) \o left)[1] < 192
      /\ Taken(rlp_encode_bytes(b), b, left)
  BY <1>3, BytesTaken, Zenon
<1>. QED BY <1>4, Zenon

(* The same for a list.                                                    *)
LEMMA ListNext ==
  ASSUME NEW v \in Seq(Item), NEW x, x = List(v), Fits(x),
         rlp_encode(x) = rlp_encode_length(Len(After(v, 0)), 192) \o After(v, 0),
         NEW left \in Seq(Nat)
  PROVE  /\ rlp_encode(x) \o left # <<>>
         /\ (rlp_encode(x) \o left)[1] >= 192
         /\ Taken(rlp_encode(x), After(v, 0), left)
         /\ After(v, 0) \in Seq(Nat)
         /\ \A k \in 1 .. Len(v) : Fits(v[k])
<1>1. List(v) \in Item
  BY FitsIs, Zenon
<1>2. Announced(Len(After(v, 0))) /\ \A k \in 1 .. Len(v) : Fits(v[k])
  BY <1>1, ListFits, Zenon
<1>3. After(v, 0) \in Seq(Nat)
  <2>1. 0 \in 0 .. Len(v)
    OBVIOUS
  <2>. QED BY <2>1, Coded
<1> DEFINE out == After(v, 0)
           c == rlp_encode_length(Len(out), 192) \o out
<1>4. c \o left # <<>> /\ (c \o left)[1] >= 192 /\ Taken(c, out, left)
  <2> HIDE DEF out
  <2>1. 192 \in Nat
    OBVIOUS
  <2>. QED BY <1>2, <1>3, <2>1, HeadTaken, Zenon DEF out
<1> HIDE DEF c
<1>. QED BY <1>2, <1>3, <1>4, Zenon DEF c

(* The frames that a step puts on the stack.                               *)
BytesFrame(f) ==
  LET p == Payload(f.rest)
  IN  Frame(From(f.rest, p.start + p.length),
            Append(f.out, Bytes(Slice(f.rest, p.start, p.start + p.length))))
OuterFrame(f) == LET p == Payload(f.rest) IN Frame(From(f.rest, p.start + p.length), f.out)
InnerFrame(f) == LET p == Payload(f.rest) IN Frame(Slice(f.rest, p.start, p.start + p.length), <<>>)
ClosedFrame(f, h) == Frame(f.rest, Append(f.out, List(h.out)))

(* A frame that has its next item still follows w.                         *)
LEMMA FollowsOn ==
  ASSUME NEW f \in Frames, NEW w \in Seq(Item), NEW tail \in Seq(Nat), NEW skip \in {0, 1},
         Follows(f, w, skip, tail), Len(f.out) < Len(w),
         NEW rest, rest = After(w, Len(f.out) + 1) \o tail
  PROVE  LET g == Frame(rest, Append(f.out, Next_(f, w)))
         IN  g \in Frames /\ Follows(g, w, 0, tail)
<1> DEFINE out == f.out
           x == Next_(f, w)
           more == Append(out, x)
           g == Frame(rest, more)
<1>1. out \in Seq(Item) /\ Len(out) \in Nat /\ Len(w) \in Nat
  BY FrameType
<1>2. x \in Item /\ w[Len(out) + 1] = x
  <2>1. Len(out) + 1 \in 1 .. Len(w)
    BY <1>1
  <2>. QED BY <2>1 DEF Next_
<1>3. \A i \in 1 .. Len(out) : out[i] = w[i]
  BY Zenon DEF Follows
<1> HIDE DEF out, x
<1>4. Len(out) < Len(w)
  BY DEF out
<1>5. /\ more \in Seq(Item) /\ Len(more) = Len(out) + 1
      /\ \A i \in 1 .. Len(out) + 1 : more[i] = w[i]
  BY <1>1, <1>2, <1>3, <1>4, AppendItem, Zenon
<1> HIDE DEF more
<1>6. rest \in Seq(Nat)
  <2>1. Len(out) + 1 \in 0 .. Len(w)
    BY <1>1, <1>4
  <2>2. After(w, Len(out) + 1) \in Seq(Nat)
    BY <2>1, Coded
  <2>3. rest = After(w, Len(out) + 1) \o tail
    BY Zenon DEF out
  <2>. QED BY <2>2, <2>3, JoinedNumbers
<1>7. g \in Frames /\ g.rest = rest /\ g.out = more
  BY <1>5, <1>6, FrameIs
<1> HIDE DEF g
<1>8. Len(g.out) + 0 = Len(out) + 1 /\ Len(g.out) = Len(out) + 1 /\ Len(g.out) + 0 <= Len(w)
  BY <1>1, <1>4, <1>5, <1>7
<1>9. g.rest = After(w, Len(g.out) + 0) \o tail
  BY <1>7, <1>8, Zenon DEF out
<1>10. \A i \in 1 .. Len(g.out) : g.out[i] = w[i]
  BY <1>5, <1>7, <1>8, Zenon
<1>. QED BY <1>7, <1>8, <1>9, <1>10, Zenon DEF Follows, g, more, out, x

(* A byte string is read and appended.                                     *)
LEMMA TakeBytes ==
  ASSUME NEW f \in Frames, NEW w \in Seq(Item), NEW tail \in Seq(Nat),
         Follows(f, w, 0, tail), Len(f.out) < Len(w), Fits(Next_(f, w)), f.rest[1] < 192
  PROVE  /\ \E b \in Seq(Byte) : Next_(f, w) = Bytes(b)
         /\ BytesFrame(f) \in Frames /\ Follows(BytesFrame(f), w, 0, tail)
         /\ BytesFrame(f).out = Append(f.out, Next_(f, w))
<1> DEFINE left == After(w, Len(f.out) + 1) \o tail
           x == Next_(f, w)
<1>1. /\ x \in Item /\ left \in Seq(Nat) /\ f.rest = rlp_encode(x) \o left
  BY NextItem, Zenon
<1> HIDE DEF left, x
<1>2. ~ (f.rest[1] >= 192)
  <2>1. f.rest \in Seq(Nat)
    BY FrameType
  <2>2. f.rest # <<>>
    <3>1. rlp_encode(x) \in Seq(Nat) /\ rlp_encode(x) # <<>>
      BY <1>1, CodeType
    <3>. QED BY <1>1, <3>1, JoinedFirst, Zenon
  <2>3. f.rest[1] \in Nat
    BY <2>1, <2>2
  <2>. QED BY <2>3
<1>3. PICK b \in Seq(Byte) : x = Bytes(b) /\ rlp_encode(x) = rlp_encode_bytes(b)
  <2>1. CASE \E v \in Seq(Item) :
               x = List(v) /\ rlp_encode(x) = rlp_encode_length(Len(After(v, 0)), 192) \o After(v, 0)
    <3>1. Fits(x)
      BY Zenon DEF x
    <3>2. (rlp_encode(x) \o left)[1] >= 192
      BY <1>1, <2>1, <3>1, ListNext, Zenon
    <3>. QED BY <1>1, <1>2, <3>2, Zenon
  <2>. QED BY <1>1, <2>1, ItemIs, Zenon
<1>4. Taken(rlp_encode(x), b, left)
  <2>1. Fits(x)
    BY Zenon DEF x
  <2>. QED BY <1>1, <1>3, <2>1, BytesNext, Zenon
<1> DEFINE p == Payload(f.rest)
<1>5. Slice(f.rest, p.start, p.start + p.length) = b /\ From(f.rest, p.start + p.length) = left
  BY <1>1, <1>4, Zenon DEF Taken
<1>6. BytesFrame(f) = Frame(left, Append(f.out, x))
  BY <1>3, <1>5, Zenon DEF BytesFrame
<1>7. Frame(left, Append(f.out, x)) \in Frames /\ Follows(Frame(left, Append(f.out, x)), w, 0, tail)
  <2>1. 0 \in {0, 1}
    OBVIOUS
  <2>. QED BY <2>1, FollowsOn, Zenon DEF left, x
<1>8. Frame(left, Append(f.out, x)).out = Append(f.out, x)
  BY DEF Frame
<1>. QED BY <1>3, <1>6, <1>7, <1>8, Zenon DEF x

(* A list is opened: its own frame follows its items, the frame below      *)
(* skips it.                                                               *)
LEMMA TakeList ==
  ASSUME NEW f \in Frames, NEW w \in Seq(Item), NEW tail \in Seq(Nat),
         Follows(f, w, 0, tail), Len(f.out) < Len(w), Fits(Next_(f, w)), f.rest[1] >= 192
  PROVE  \E v \in Seq(Item) :
           /\ Next_(f, w) = List(v) /\ \A k \in 1 .. Len(v) : Fits(v[k])
           /\ OuterFrame(f) \in Frames /\ OuterFrame(f).out = f.out
           /\ Follows(OuterFrame(f), w, 1, tail)
           /\ InnerFrame(f) \in Frames /\ Follows(InnerFrame(f), v, 0, <<>>)
<1> DEFINE left == After(w, Len(f.out) + 1) \o tail
           x == Next_(f, w)
<1>1. /\ x \in Item /\ left \in Seq(Nat) /\ f.rest = rlp_encode(x) \o left
  BY NextItem, Zenon
<1> HIDE DEF left, x
<1>2. ~ (f.rest[1] < 192)
  <2>1. f.rest \in Seq(Nat)
    BY FrameType
  <2>2. f.rest # <<>>
    <3>1. rlp_encode(x) \in Seq(Nat) /\ rlp_encode(x) # <<>>
      BY <1>1, CodeType
    <3>. QED BY <1>1, <3>1, JoinedFirst, Zenon
  <2>3. f.rest[1] \in Nat
    BY <2>1, <2>2
  <2>. QED BY <2>3
<1>0. Fits(x)
  BY Zenon DEF x
<1>3. PICK v \in Seq(Item) :
        x = List(v) /\ rlp_encode(x) = rlp_encode_length(Len(After(v, 0)), 192) \o After(v, 0)
  <2>1. CASE \E b \in Seq(Byte) : x = Bytes(b) /\ rlp_encode(x) = rlp_encode_bytes(b)
    <3>2. (rlp_encode(x) \o left)[1] < 192
      BY <1>0, <1>1, <2>1, BytesNext, Zenon
    <3>. QED BY <1>1, <1>2, <3>2, Zenon
  <2>. QED BY <1>1, <2>1, ItemIs, Zenon
<1>4. /\ Taken(rlp_encode(x), After(v, 0), left) /\ After(v, 0) \in Seq(Nat)
      /\ \A k \in 1 .. Len(v) : Fits(v[k])
  BY <1>0, <1>1, <1>3, ListNext, Zenon
<1> DEFINE p == Payload(f.rest)
<1>5. /\ Slice(f.rest, p.start, p.start + p.length) = After(v, 0)
      /\ From(f.rest, p.start + p.length) = left
  BY <1>1, <1>4, Zenon DEF Taken
<1>6. OuterFrame(f) = Frame(left, f.out) /\ InnerFrame(f) = Frame(After(v, 0), <<>>)
  BY <1>5, Zenon DEF OuterFrame, InnerFrame
<1> DEFINE g == Frame(left, f.out)
           h == Frame(After(v, 0), <<>>)
<1>7. g \in Frames /\ g.rest = left /\ g.out = f.out
  BY <1>1, FrameType, FrameIs
<1>8. h \in Frames /\ h.rest = After(v, 0) /\ h.out = <<>>
  <2>1. <<>> \in Seq(Item)
    OBVIOUS
  <2>. QED BY <1>4, <2>1, FrameIs, Zenon
<1> HIDE DEF g, h
<1>9. Follows(g, w, 1, tail)
  <2>1. Len(f.out) + 1 <= Len(w)
    BY FrameType
  <2>2. \A i \in 1 .. Len(f.out) : f.out[i] = w[i]
    BY Zenon DEF Follows
  <2>. QED BY <1>7, <2>1, <2>2, Zenon DEF Follows, left
<1>10. Follows(h, v, 0, <<>>)
  <2>1. Len(h.out) = 0 /\ Len(h.out) + 0 = 0 /\ Len(h.out) + 0 <= Len(v)
    BY <1>8
  <2>2. \A i \in 1 .. Len(h.out) : h.out[i] = v[i]
    BY <2>1
  <2>3. h.rest = After(v, 0) \o <<>>
    <3>1. After(v, 0) \o <<>> = After(v, 0)
      BY <1>4, JoinedEmpty
    <3>. QED BY <1>8, <3>1, Zenon
  <2>. QED BY <2>1, <2>2, <2>3, Zenon DEF Follows
<1>. QED BY <1>3, <1>4, <1>6, <1>7, <1>8, <1>9, <1>10, Zenon DEF g, h, x

(* A list whose bytes are read holds its items.                            *)
LEMMA AllRead ==
  ASSUME NEW f \in Frames, NEW w \in Seq(Item), Follows(f, w, 0, <<>>), f.rest = <<>>
  PROVE  f.out = w
<1>1. f.out \in Seq(Item) /\ Len(f.out) \in Nat /\ Len(w) \in Nat /\ Len(f.out) <= Len(w)
  <2>1. Len(f.out) + 0 <= Len(w)
    BY Zenon DEF Follows
  <2>. QED BY <2>1, FrameType
<1>2. \A i \in 1 .. Len(f.out) : f.out[i] = w[i]
  BY Zenon DEF Follows
<1>3. ASSUME Len(f.out) < Len(w) PROVE FALSE
  <2> DEFINE left == After(w, Len(f.out) + 1) \o <<>>
             x == Next_(f, w)
  <2>0. <<>> \in Seq(Nat)
    OBVIOUS
  <2>1. x \in Item /\ left \in Seq(Nat) /\ f.rest = rlp_encode(x) \o left
    BY <1>3, <2>0, NextItem, Zenon
  <2> HIDE DEF left, x
  <2>2. rlp_encode(x) \in Seq(Nat) /\ rlp_encode(x) # <<>>
    BY <2>1, CodeType
  <2>3. rlp_encode(x) \o left # <<>>
    BY <2>1, <2>2, JoinedFirst, Zenon
  <2>. QED BY <2>1, <2>3
<1>4. Len(f.out) = Len(w)
  BY <1>1, <1>3
<1>. QED BY <1>1, <1>2, <1>4, SameElements

(* A list that ends is appended below.                                     *)
LEMMA CloseList ==
  ASSUME NEW f \in Frames, NEW w \in Seq(Item), NEW tail \in Seq(Nat), Follows(f, w, 1, tail),
         NEW h \in Frames, NEW v \in Seq(Item), Follows(h, v, 0, <<>>), h.rest = <<>>,
         Next_(f, w) = List(v)
  PROVE  ClosedFrame(f, h) \in Frames /\ Follows(ClosedFrame(f, h), w, 0, tail)
<1>1. h.out = v
  BY AllRead, Zenon
<1>2. Len(f.out) < Len(w)
  <2>1. Len(f.out) + 1 <= Len(w)
    BY Zenon DEF Follows
  <2>. QED BY <2>1, FrameType
<1>3. f.rest = After(w, Len(f.out) + 1) \o tail
  BY Zenon DEF Follows
<1>4. ClosedFrame(f, h) = Frame(f.rest, Append(f.out, Next_(f, w)))
  BY <1>1, Zenon DEF ClosedFrame
<1>5. 1 \in {0, 1}
  OBVIOUS
<1>. QED BY <1>2, <1>3, <1>4, <1>5, FollowsOn, Zenon

---------------------------------------------------------------------------
(* The stack *)

(* Every frame but the last waits for the list that the next one reads,    *)
(* and the first is followed by what follows the item.                     *)
Skip(k, n)     == IF k = n THEN 0 ELSE 1
Trail(k, tail) == IF k = 1 THEN tail ELSE <<>>
Level(f, w, skip, tail) == Follows(f, w, skip, tail) /\ \A i \in 1 .. Len(w) : Fits(w[i])

(* The frames of s read the lists of `whole', each the next item of the    *)
(* one before, the first the item that was encoded.                        *)
Structure(s, item, tail, whole) ==
  /\ s \in Seq(Frames) /\ s # <<>>
  /\ whole \in Seq(Seq(Item)) /\ Len(whole) = Len(s) /\ whole[1] = <<item>>
  /\ \A k \in 1 .. Len(s) : Level(s[k], whole[k], Skip(k, Len(s)), Trail(k, tail))
  /\ \A k \in 1 .. Len(s) - 1 : Next_(s[k], whole[k]) = List(whole[k + 1])

(* The parts of a structure, and what holds of its last frame.             *)
Parts(s, item, tail, whole) ==
  /\ Len(s) \in Nat \ {0} /\ Len(s) \in 1 .. Len(s) /\ Len(whole) = Len(s)
  /\ s \in Seq(Frames) /\ whole \in Seq(Seq(Item))
  /\ \A k \in 1 .. Len(s) : s[k] \in Frames /\ whole[k] \in Seq(Item) /\ Trail(k, tail) \in Seq(Nat)
  /\ whole[1] = <<item>>
  /\ \A k \in 1 .. Len(s) : Level(s[k], whole[k], Skip(k, Len(s)), Trail(k, tail))
  /\ \A k \in 1 .. Len(s) - 1 : Next_(s[k], whole[k]) = List(whole[k + 1])
  /\ Follows(s[Len(s)], whole[Len(s)], 0, Trail(Len(s), tail))
  /\ \A i \in 1 .. Len(whole[Len(s)]) : Fits(whole[Len(s)][i])

(* A structure has these parts.                                            *)
LEMMA StructureIs ==
  ASSUME NEW s, NEW item, NEW tail \in Seq(Nat), NEW whole, Structure(s, item, tail, whole)
  PROVE  Parts(s, item, tail, whole)
<1>1. s \in Seq(Frames) /\ s # <<>> /\ whole \in Seq(Seq(Item)) /\ Len(whole) = Len(s)
      /\ whole[1] = <<item>>
  BY Zenon DEF Structure
<1>2. /\ Len(s) \in Nat \ {0} /\ Len(s) \in 1 .. Len(s)
      /\ \A k \in 1 .. Len(s) : s[k] \in Frames /\ whole[k] \in Seq(Item)
  BY <1>1
<1>3. /\ \A k \in 1 .. Len(s) : Level(s[k], whole[k], Skip(k, Len(s)), Trail(k, tail))
      /\ \A k \in 1 .. Len(s) - 1 : Next_(s[k], whole[k]) = List(whole[k + 1])
  BY Zenon DEF Structure
<1>4. \A k \in 1 .. Len(s) : Trail(k, tail) \in Seq(Nat)
  <2>1. <<>> \in Seq(Nat)
    OBVIOUS
  <2>. QED BY <2>1, Zenon DEF Trail
<1>5. Level(s[Len(s)], whole[Len(s)], 0, Trail(Len(s), tail))
  BY <1>2, <1>3, Zenon DEF Skip
<1>. QED BY <1>1, <1>2, <1>3, <1>4, <1>5, Zenon DEF Parts, Level

(* The stack of a call that begins.                                        *)
LEMMA Begins ==
  ASSUME NEW item, Fits(item), NEW tail \in Seq(Nat)
  PROVE  Structure(<<Frame(rlp_encode(item) \o tail, <<>>)>>, item, tail, <<<<item>>>>)
<1> DEFINE w == <<item>>
           f == Frame(rlp_encode(item) \o tail, <<>>)
           s == <<f>>
           whole == <<w>>
<1>1. item \in Item
  BY FitsIs
<1>2. w \in Seq(Item) /\ Len(w) = 1 /\ w[1] = item /\ w # <<>>
  BY <1>1
<1>3. rlp_encode(item) \in Seq(Nat)
  BY <1>1, CodeType
<1>4. f \in Frames /\ f.rest = rlp_encode(item) \o tail /\ f.out = <<>>
  <2>1. rlp_encode(item) \o tail \in Seq(Nat)
    BY <1>3, JoinedNumbers
  <2>2. <<>> \in Seq(Item)
    OBVIOUS
  <2>. QED BY <2>1, <2>2, FrameIs, Zenon
<1> HIDE DEF w, f
<1>5. After(w, 0) = rlp_encode(item)
  <2>1. 0 \in 0 .. Len(w) /\ 0 < Len(w) /\ 0 + 1 = 1 /\ 1 = Len(w)
    BY <1>2
  <2>2. After(w, 0) = rlp_encode(w[0 + 1]) \o After(w, 0 + 1)
    BY <1>2, <2>1, NextCode, Zenon
  <2>3. After(w, 0 + 1) = <<>>
    BY <1>2, <2>1, AllAfter, Zenon
  <2>4. rlp_encode(item) \o <<>> = rlp_encode(item)
    BY <1>3, JoinedEmpty
  <2>. QED BY <1>2, <2>1, <2>2, <2>3, <2>4, Zenon
<1>6. Follows(f, w, 0, tail)
  <2>1. Len(f.out) = 0 /\ Len(f.out) + 0 = 0 /\ Len(f.out) + 0 <= Len(w)
    BY <1>2, <1>4
  <2>2. \A i \in 1 .. Len(f.out) : f.out[i] = w[i]
    BY <2>1
  <2>. QED BY <1>4, <1>5, <2>1, <2>2, Zenon DEF Follows
<1>7. \A i \in 1 .. Len(w) : Fits(w[i])
  BY <1>2
<1>8. /\ s \in Seq(Frames) /\ s # <<>> /\ Len(s) = 1 /\ s[1] = f
      /\ whole \in Seq(Seq(Item)) /\ Len(whole) = 1 /\ whole[1] = w
  BY <1>2, <1>4
<1> HIDE DEF s, whole
<1>9. Level(f, w, Skip(1, 1), Trail(1, tail))
  BY <1>6, <1>7, Zenon DEF Level, Skip, Trail
<1>10. \A k \in 1 .. 1 : k = 1
  OBVIOUS
<1>11. \A k \in 1 .. 1 - 1 : FALSE
  OBVIOUS
<1>12. Structure(s, item, tail, whole)
  BY <1>8, <1>9, <1>10, <1>11, Zenon DEF Structure, w
<1>. QED BY <1>12, Zenon DEF s, whole, f, w

(* A frame that has bytes left has items left.                             *)
LEMMA ItemsLeft ==
  ASSUME NEW f \in Frames, NEW w \in Seq(Item), Follows(f, w, 0, <<>>), f.rest # <<>>
  PROVE  Len(f.out) < Len(w)
<1>1. Len(f.out) \in Nat /\ Len(w) \in Nat /\ Len(f.out) + 0 = Len(f.out) /\ Len(f.out) <= Len(w)
  <2>1. Len(f.out) + 0 <= Len(w)
    BY Zenon DEF Follows
  <2>. QED BY <2>1, FrameType
<1>2. ASSUME Len(f.out) = Len(w) PROVE FALSE
  <2>1. f.rest = After(w, Len(w)) \o <<>>
    BY <1>1, <1>2, Zenon DEF Follows
  <2>2. f.rest = <<>> \o <<>>
    BY <2>1, AllAfter, Zenon
  <2>. QED BY <2>2
<1>. QED BY <1>1, <1>2

(* The top of a running call has an item left.                             *)
LEMMA TopLeft ==
  ASSUME NEW s, NEW item, NEW tail \in Seq(Nat), NEW whole, Structure(s, item, tail, whole),
         IF Len(s) = 1 THEN s[Len(s)].out = <<>> ELSE s[Len(s)].rest # <<>>
  PROVE  Len(s[Len(s)].out) < Len(whole[Len(s)]) /\ s[Len(s)].rest # <<>>
<1> DEFINE n == Len(s)
           f == s[n]
           w == whole[n]
<1>1. /\ n \in Nat \ {0} /\ f \in Frames /\ w \in Seq(Item) /\ Trail(n, tail) \in Seq(Nat)
      /\ Follows(f, w, 0, Trail(n, tail)) /\ whole[1] = <<item>>
  BY StructureIs, Zenon DEF Parts
<1>2. CASE n = 1
  <2>1. f.out = <<>> /\ w = <<item>>
    BY <1>1, <1>2, Zenon
  <2>2. Len(f.out) < Len(w)
    BY <2>1
  <2> HIDE DEF f, w, n
  <2> DEFINE left == After(w, Len(f.out) + 1) \o Trail(n, tail)
             x == Next_(f, w)
  <2>3. x \in Item /\ left \in Seq(Nat) /\ f.rest = rlp_encode(x) \o left
    BY <1>1, <2>2, NextItem, Zenon
  <2> HIDE DEF left, x
  <2>4. rlp_encode(x) \in Seq(Nat) /\ rlp_encode(x) # <<>>
    BY <2>3, CodeType
  <2>5. f.rest # <<>>
    BY <2>3, <2>4, JoinedFirst, Zenon
  <2>. QED BY <2>2, <2>5 DEF f, w, n
<1>3. CASE n # 1
  <2>1. f.rest # <<>>
    BY <1>3
  <2>2. Follows(f, w, 0, <<>>)
    BY <1>1, <1>3, Zenon DEF Trail
  <2> HIDE DEF f, w, n
  <2>3. Len(f.out) < Len(w)
    BY <1>1, <2>1, <2>2, ItemsLeft, Zenon
  <2>. QED BY <2>1, <2>3 DEF f, w, n
<1>. QED BY <1>2, <1>3

(* A step of DecodeBytes keeps the structure.                              *)
LEMMA StepBytes ==
  ASSUME NEW s, NEW item, NEW tail \in Seq(Nat), NEW whole, Structure(s, item, tail, whole),
         Len(s[Len(s)].out) < Len(whole[Len(s)]), s[Len(s)].rest[1] < 192
  PROVE  Structure(Append(SubSeq(s, 1, Len(s) - 1), BytesFrame(s[Len(s)])), item, tail, whole)
<1> DEFINE n == Len(s)
           m == n - 1
           f == s[n]
           w == whole[n]
           g == BytesFrame(f)
           t == Append(SubSeq(s, 1, m), g)
<1>1. /\ n \in Nat \ {0} /\ n \in 1 .. n /\ Len(whole) = n /\ s \in Seq(Frames) /\ whole \in Seq(Seq(Item))
      /\ f \in Frames /\ w \in Seq(Item) /\ Trail(n, tail) \in Seq(Nat) /\ whole[1] = <<item>>
      /\ \A k \in 1 .. n : Level(s[k], whole[k], Skip(k, n), Trail(k, tail))
      /\ \A k \in 1 .. n - 1 : Next_(s[k], whole[k]) = List(whole[k + 1])
      /\ Follows(f, w, 0, Trail(n, tail)) /\ \A i \in 1 .. Len(w) : Fits(w[i])
  <2>1. Parts(s, item, tail, whole)
    BY StructureIs, Zenon
  <2>. QED BY <2>1, Zenon DEF Parts
<1>2. m \in Nat /\ m <= Len(s) /\ m + 1 = n /\ \A k \in 1 .. n : k = n \/ k \in 1 .. m
  BY <1>1
<1>3. Fits(Next_(f, w))
  <2>1. Len(f.out) + 1 \in 1 .. Len(w)
    <3>1. Len(f.out) < Len(w)
      OBVIOUS
    <3>2. Len(f.out) \in Nat /\ Len(w) \in Nat
      BY <1>1, FrameType
    <3> HIDE DEF f, w
    <3>. QED BY <3>1, <3>2
  <2>. QED BY <1>1, <2>1, Zenon DEF Next_
<1>4. g \in Frames /\ Follows(g, w, 0, Trail(n, tail))
  <2>1. Len(f.out) < Len(w) /\ f.rest[1] < 192
    OBVIOUS
  <2> HIDE DEF f, w
  <2>. QED BY <1>1, <1>3, <2>1, TakeBytes, Zenon
<1> HIDE DEF f, g, m
<1>5. t \in Seq(Frames) /\ Len(t) = m + 1 /\ t[m + 1] = g /\ \A k \in 1 .. m : t[k] = s[k]
  <2>1. s \in Seq(Frames) /\ m \in Nat /\ m <= Len(s) /\ g \in Frames
    BY <1>1, <1>2, <1>4, Zenon
  <2>2. t = Append(SubSeq(s, 1, m), g)
    BY Zenon
  <2> HIDE DEF n, t, w
  <2>. QED BY <2>1, <2>2, PutTop
<1> HIDE DEF t
<1>6. Len(t) = n /\ t # <<>> /\ t[n] = g
  BY <1>1, <1>2, <1>5
<1>7. ASSUME NEW k \in 1 .. n PROVE Level(t[k], whole[k], Skip(k, n), Trail(k, tail))
  <2>1. CASE k = n
    <3>1. Level(g, w, 0, Trail(n, tail)) /\ Skip(n, n) = 0
      BY <1>1, <1>4, Zenon DEF Level, Skip
    <3>. QED BY <1>6, <2>1, <3>1, Zenon DEF w
  <2>2. CASE k \in 1 .. m
    BY <1>1, <1>5, <2>2, Zenon
  <2>. QED BY <1>2, <2>1, <2>2, Zenon
<1>8. \A k \in 1 .. n - 1 : Next_(t[k], whole[k]) = List(whole[k + 1])
  BY <1>1, <1>5, Zenon DEF m
<1>9. Structure(t, item, tail, whole)
  <2> HIDE DEF n
  <2>. QED BY <1>1, <1>5, <1>6, <1>7, <1>8, Zenon DEF Structure
<1>. QED BY <1>9, Zenon DEF t, g, f, m

(* DecodeList opens a list of it.                                          *)
LEMMA StepList ==
  ASSUME NEW s, NEW item, NEW tail \in Seq(Nat), NEW whole, Structure(s, item, tail, whole),
         Len(s[Len(s)].out) < Len(whole[Len(s)]), s[Len(s)].rest[1] >= 192
  PROVE  \E v : Structure(SubSeq(s, 1, Len(s) - 1) \o <<OuterFrame(s[Len(s)]), InnerFrame(s[Len(s)])>>,
                          item, tail, v)
<1> DEFINE n == Len(s)
           m == n - 1
           f == s[n]
           w == whole[n]
           g == OuterFrame(f)
           h == InnerFrame(f)
           t == SubSeq(s, 1, m) \o <<g, h>>
<1>1. /\ n \in Nat \ {0} /\ n \in 1 .. n /\ Len(whole) = n /\ s \in Seq(Frames) /\ whole \in Seq(Seq(Item))
      /\ f \in Frames /\ w \in Seq(Item) /\ Trail(n, tail) \in Seq(Nat) /\ whole[1] = <<item>>
      /\ \A k \in 1 .. n : Level(s[k], whole[k], Skip(k, n), Trail(k, tail))
      /\ \A k \in 1 .. n - 1 : Next_(s[k], whole[k]) = List(whole[k + 1])
      /\ Follows(f, w, 0, Trail(n, tail)) /\ \A i \in 1 .. Len(w) : Fits(w[i])
  <2>1. Parts(s, item, tail, whole)
    BY StructureIs, Zenon
  <2>. QED BY <2>1, Zenon DEF Parts
<1>2. /\ m \in Nat /\ m <= Len(s) /\ m + 1 = n /\ m + 2 = n + 1
      /\ \A k \in 1 .. n + 1 : k = n + 1 \/ k = n \/ k \in 1 .. m
  BY <1>1
<1>3. Fits(Next_(f, w))
  <2>1. Len(f.out) + 1 \in 1 .. Len(w)
    <3>1. Len(f.out) < Len(w)
      OBVIOUS
    <3>2. Len(f.out) \in Nat /\ Len(w) \in Nat
      BY <1>1, FrameType
    <3> HIDE DEF f, w
    <3>. QED BY <3>1, <3>2
  <2>. QED BY <1>1, <2>1, Zenon DEF Next_
<1>4. PICK v \in Seq(Item) :
           /\ Next_(f, w) = List(v) /\ \A k \in 1 .. Len(v) : Fits(v[k])
           /\ g \in Frames /\ g.out = f.out /\ Follows(g, w, 1, Trail(n, tail))
           /\ h \in Frames /\ Follows(h, v, 0, <<>>)
  <2>1. Len(f.out) < Len(w) /\ f.rest[1] >= 192
    OBVIOUS
  <2> HIDE DEF f, w
  <2>. QED BY <1>1, <1>3, <2>1, TakeList, Zenon
<1> HIDE DEF f, g, h, m
<1>5. /\ t \in Seq(Frames) /\ Len(t) = m + 2 /\ t[m + 1] = g /\ t[m + 2] = h
      /\ \A k \in 1 .. m : t[k] = s[k]
  <2>1. s \in Seq(Frames) /\ m \in Nat /\ m <= Len(s) /\ g \in Frames /\ h \in Frames
    BY <1>1, <1>2, <1>4, Zenon
  <2>2. t = SubSeq(s, 1, m) \o <<g, h>>
    BY Zenon
  <2> HIDE DEF n, t, w
  <2>. QED BY <2>1, <2>2, PutTwo
<1> HIDE DEF t
<1>6. Len(t) = n + 1 /\ t # <<>> /\ t[n] = g /\ t[n + 1] = h
  BY <1>1, <1>2, <1>5
<1> DEFINE u == Append(whole, v)
<1>7. /\ u \in Seq(Seq(Item)) /\ Len(u) = n + 1 /\ u[n + 1] = v /\ \A k \in 1 .. n : u[k] = whole[k]
  <2>1. n \in Nat /\ Len(whole) = n /\ whole \in Seq(Seq(Item)) /\ v \in Seq(Item)
    BY <1>1, Zenon
  <2> HIDE DEF n
  <2>. QED BY <2>1
<1> HIDE DEF u
<1>8. u[1] = <<item>>
  <2>1. 1 \in 1 .. n
    BY <1>1
  <2>. QED BY <1>1, <1>7, <2>1, Zenon
<1>9. ASSUME NEW k \in 1 .. n + 1 PROVE Level(t[k], u[k], Skip(k, n + 1), Trail(k, tail))
  <2>1. CASE k = n + 1
    <3>1. n + 1 # 1
      BY <1>1
    <3>2. Level(h, v, 0, <<>>) /\ Skip(n + 1, n + 1) = 0 /\ Trail(n + 1, tail) = <<>>
      BY <1>4, <3>1, Zenon DEF Level, Skip, Trail
    <3>. QED BY <1>6, <1>7, <2>1, <3>2, Zenon
  <2>2. CASE k = n
    <3>1. n # n + 1
      BY <1>1
    <3>2. Level(g, w, 1, Trail(n, tail)) /\ Skip(n, n + 1) = 1
      BY <1>1, <1>4, <3>1, Zenon DEF Level, Skip
    <3>. QED BY <1>1, <1>6, <1>7, <2>2, <3>2, Zenon DEF w
  <2>3. CASE k \in 1 .. m
    <3>1. k # n /\ k # n + 1 /\ k \in 1 .. n
      BY <1>2, <2>3
    <3>2. Level(s[k], whole[k], 1, Trail(k, tail)) /\ Skip(k, n + 1) = 1
      BY <1>1, <3>1, Zenon DEF Skip
    <3>. QED BY <1>5, <1>7, <2>3, <3>1, <3>2, Zenon
  <2>. QED BY <1>2, <2>1, <2>2, <2>3, Zenon
<1>10. ASSUME NEW k \in 1 .. (n + 1) - 1 PROVE Next_(t[k], u[k]) = List(u[k + 1])
  <2>1. k \in 1 .. n /\ (k = n \/ (k \in 1 .. m /\ k \in 1 .. n - 1 /\ k + 1 \in 1 .. n))
    BY <1>1, <1>2
  <2>2. CASE k = n
    <3>1. Next_(g, w) = Next_(f, w)
      BY <1>4, Zenon DEF Next_
    <3>. QED BY <1>4, <1>6, <1>7, <2>1, <2>2, <3>1, Zenon DEF w
  <2>3. CASE k \in 1 .. m /\ k \in 1 .. n - 1 /\ k + 1 \in 1 .. n
    BY <1>1, <1>5, <1>7, <2>1, <2>3, Zenon
  <2>. QED BY <2>1, <2>2, <2>3, Zenon
<1>11. Structure(t, item, tail, u)
  <2> HIDE DEF n
  <2>. QED BY <1>5, <1>6, <1>7, <1>8, <1>9, <1>10, Zenon DEF Structure
<1>. QED BY <1>11, Zenon DEF t, g, h, f, m

(* ListEnds puts a list into the one around it.                            *)
LEMMA StepClose ==
  ASSUME NEW s, NEW item, NEW tail \in Seq(Nat), NEW whole, Structure(s, item, tail, whole),
         Len(s) # 1, s[Len(s)].rest = <<>>
  PROVE  \E v : Structure(Append(SubSeq(s, 1, Len(s) - 2), ClosedFrame(s[Len(s) - 1], s[Len(s)])),
                          item, tail, v)
<1> DEFINE n == Len(s)
           b == n - 1
           m == n - 2
           f == s[b]
           w == whole[b]
           g == ClosedFrame(f, s[n])
           t == Append(SubSeq(s, 1, m), g)
<1>1. /\ n \in Nat \ {0} /\ n \in 1 .. n /\ Len(whole) = n /\ s \in Seq(Frames) /\ whole \in Seq(Seq(Item))
      /\ s[n] \in Frames /\ whole[n] \in Seq(Item) /\ whole[1] = <<item>>
      /\ \A k \in 1 .. n : s[k] \in Frames /\ whole[k] \in Seq(Item) /\ Trail(k, tail) \in Seq(Nat)
      /\ \A k \in 1 .. n : Level(s[k], whole[k], Skip(k, n), Trail(k, tail))
      /\ \A k \in 1 .. n - 1 : Next_(s[k], whole[k]) = List(whole[k + 1])
      /\ Follows(s[n], whole[n], 0, Trail(n, tail))
  <2>1. Parts(s, item, tail, whole)
    BY StructureIs, Zenon
  <2>. QED BY <2>1, Zenon DEF Parts
<1>2. /\ m \in Nat /\ m <= Len(s) /\ m + 1 = b /\ b + 1 = n /\ b \in 1 .. n /\ b \in 1 .. n - 1 /\ b # n
      /\ n # 1 /\ \A k \in 1 .. b : k \in 1 .. n /\ (k = b \/ k \in 1 .. m)
  <2>1. n \in Nat \ {0} /\ n # 1 /\ n = Len(s)
    BY <1>1, Zenon
  <2> HIDE DEF n
  <2>. QED BY <2>1
<1>3. g \in Frames /\ Follows(g, w, 0, Trail(b, tail))
  <2>1. Follows(f, w, 1, Trail(b, tail))
    BY <1>1, <1>2, Zenon DEF Level, Skip
  <2>2. Follows(s[n], whole[n], 0, <<>>)
    BY <1>1, <1>2, Zenon DEF Trail
  <2>3. Next_(f, w) = List(whole[n])
    BY <1>1, <1>2, Zenon
  <2>4. f \in Frames /\ w \in Seq(Item) /\ Trail(b, tail) \in Seq(Nat) /\ s[n].rest = <<>>
    BY <1>1, <1>2, Zenon
  <2> HIDE DEF f, w, n, b
  <2>. QED BY <1>1, <2>1, <2>2, <2>3, <2>4, CloseList, Zenon
<1> HIDE DEF f, g, m
<1>4. t \in Seq(Frames) /\ Len(t) = m + 1 /\ t[m + 1] = g /\ \A k \in 1 .. m : t[k] = s[k]
  <2>1. s \in Seq(Frames) /\ m \in Nat /\ m <= Len(s) /\ g \in Frames
    BY <1>1, <1>2, <1>3, Zenon
  <2>2. t = Append(SubSeq(s, 1, m), g)
    BY Zenon
  <2> HIDE DEF n, t, w
  <2>. QED BY <2>1, <2>2, PutTop
<1> HIDE DEF t
<1>5. Len(t) = b /\ t # <<>> /\ t[b] = g
  BY <1>2, <1>4
<1> DEFINE u == SubSeq(whole, 1, b)
<1>6. /\ u \in Seq(Seq(Item)) /\ Len(u) = b /\ \A k \in 1 .. b : u[k] = whole[k]
  <2>1. b \in Nat /\ b <= Len(whole)
    BY <1>1, <1>2
  <2> HIDE DEF b
  <2>. QED BY <1>1, <2>1
<1> HIDE DEF u
<1>7. u[1] = <<item>>
  <2>1. 1 \in 1 .. b
    BY <1>2
  <2>. QED BY <1>1, <1>6, <2>1
<1>8. ASSUME NEW k \in 1 .. b PROVE Level(t[k], u[k], Skip(k, b), Trail(k, tail))
  <2>1. CASE k = b
    <3>1. \A i \in 1 .. Len(w) : Fits(w[i])
      BY <1>1, <1>2, Zenon DEF Level
    <3>2. Level(g, w, 0, Trail(b, tail)) /\ Skip(b, b) = 0
      BY <1>3, <3>1, Zenon DEF Level, Skip
    <3>. QED BY <1>5, <1>6, <2>1, <3>2, Zenon DEF w
  <2>2. CASE k \in 1 .. m
    <3>1. k # n /\ k # b /\ k \in 1 .. n
      BY <1>2, <2>2
    <3>2. Level(s[k], whole[k], 1, Trail(k, tail)) /\ Skip(k, b) = 1
      BY <1>1, <3>1, Zenon DEF Skip
    <3>. QED BY <1>4, <1>6, <2>2, <3>2, Zenon
  <2>. QED BY <1>2, <2>1, <2>2, Zenon
<1>9. ASSUME NEW k \in 1 .. b - 1 PROVE Next_(t[k], u[k]) = List(u[k + 1])
  <2>1. k \in 1 .. m /\ k \in 1 .. n - 1 /\ k \in 1 .. b /\ k + 1 \in 1 .. b
    BY <1>1, <1>2
  <2>. QED BY <1>1, <1>4, <1>6, <2>1, Zenon
<1>10. Structure(t, item, tail, u)
  <2> HIDE DEF b
  <2>. QED BY <1>4, <1>5, <1>6, <1>7, <1>8, <1>9, Zenon DEF Structure
<1>. QED BY <1>10, Zenon DEF t, g, f, m, b

(* At the end the first frame holds the item, and what follows is left.    *)
LEMMA ItemRead ==
  ASSUME NEW s, NEW item, NEW tail \in Seq(Nat), NEW whole, Structure(s, item, tail, whole),
         Len(s) = 1, s[Len(s)].out # <<>>
  PROVE  s[Len(s)].out[1] = item /\ s[Len(s)].rest = tail
<1> DEFINE f == s[Len(s)]
           w == whole[1]
<1>1. /\ f \in Frames /\ w \in Seq(Item) /\ w = <<item>> /\ Follows(f, w, 0, tail)
  <2>1. /\ Len(s) \in 1 .. Len(s) /\ f \in Frames /\ whole[Len(s)] \in Seq(Item) /\ whole[1] = <<item>>
        /\ Follows(f, whole[Len(s)], 0, Trail(Len(s), tail))
    <3>1. Parts(s, item, tail, whole)
      BY StructureIs, Zenon
    <3>. QED BY <3>1, Zenon DEF Parts
  <2>. QED BY <2>1, Zenon DEF Trail
<1> HIDE DEF f, w
<1>2. f.out \in Seq(Item) /\ f.out # <<>>
  BY <1>1, FrameType DEF f
<1>3. Len(w) = 1 /\ w[1] = item
  BY <1>1
<1>4. Len(f.out) = 1 /\ 1 \in 1 .. Len(f.out) /\ Len(f.out) + 0 = 1
  <2>1. Len(f.out) + 0 <= Len(w)
    BY <1>1, Zenon DEF Follows
  <2>2. Len(f.out) \in Nat \ {0}
    BY <1>2
  <2> DEFINE k == Len(f.out)
  <2>3. k + 0 <= 1 /\ k \in Nat \ {0}
    BY <1>3, <2>1, <2>2, Zenon
  <2> HIDE DEF k
  <2>4. k = 1 /\ 1 \in 1 .. k /\ k + 0 = 1
    BY <2>3
  <2>. QED BY <2>4, Zenon DEF k
<1>5. f.out[1] = item
  BY <1>1, <1>3, <1>4, Zenon DEF Follows
<1>6. f.rest = After(w, Len(w)) \o tail
  BY <1>1, <1>3, <1>4, Zenon DEF Follows
<1>7. f.rest = tail
  <2>1. f.rest = <<>> \o tail
    BY <1>1, <1>6, AllAfter, Zenon
  <2>. QED BY <2>1, JoinedEmpty
<1>. QED BY <1>5, <1>7, Zenon DEF f

---------------------------------------------------------------------------
(* Paths *)

NibbleValue == 0 .. 15

(* The nibbles of a path. *)
LEMMA PathNibbles ==
  ASSUME NEW p \in Seq(NibbleValue)
  PROVE  /\ Len(p) \in Nat
         /\ \A i \in 1 .. Len(p) : p[i] \in Nat /\ p[i] < 16
         /\ p = [i \in 1 .. Len(p) |-> p[i]]
<1>1. Len(p) \in Nat /\ \A i \in 1 .. Len(p) : p[i] \in NibbleValue
  OBVIOUS
<1>2. \A s \in Seq(NibbleValue) : s = [i \in 1 .. Len(s) |-> s[i]]
  OBVIOUS
<1>3. \A x \in NibbleValue : x \in Nat /\ x < 16
  BY DEF NibbleValue
<1>. QED BY <1>1, <1>2, <1>3, Zenon

(* A byte holds two nibbles. *)
LEMMA ByteHalves ==
  \A a, b \in Nat : b < 16 => (a * 16 + b) \div 16 = a /\ (a * 16 + b) % 16 = b
OBVIOUS

(* The bytes of a packed path, the flag of parity and kind in the first. *)
Packs(e, p, flag, odd, n) ==
  /\ Len(e) = n + 1
  /\ e[1] = IF odd = 1 THEN (flag + 1) * 16 + p[1] ELSE flag * 16
  /\ \A k \in 1 .. n : e[k + 1] = p[2 * k - 1 + odd] * 16 + p[2 * k + odd]

(* _decode_hp of bytes that hold a flag and the nibbles of a path. *)
LEMMA PackedNibbles ==
  ASSUME NEW p \in Seq(NibbleValue), NEW flag \in {0, 2}, NEW e,
         NEW odd \in {0, 1}, NEW n \in Nat, Len(p) = 2 * n + odd, Packs(e, p, flag, odd, n)
  PROVE  decode_hp(e) = [path |-> p, is_leaf |-> flag = 2]
<1> DEFINE nibs == nibbles(e)
           L == Len(p)
<1>1. L \in Nat /\ (\A i \in 1 .. L : p[i] \in Nat /\ p[i] < 16) /\ p = [i \in 1 .. L |-> p[i]]
  BY PathNibbles
<1>2. L = 2 * n + odd /\ Len(e) = n + 1 /\ (\A k \in 1 .. n : e[k + 1] = p[2 * k - 1 + odd] * 16 + p[2 * k + odd])
  BY DEF Packs
<1>0. e[1] = (flag + odd) * 16 + (IF odd = 1 THEN p[1] ELSE 0)
  BY <1>1, <1>2 DEF Packs
<1>3. nibs = [k \in 1 .. 2 * (n + 1) |-> IF k % 2 = 1 THEN e[(k + 1) \div 2] \div 16
                                                   ELSE e[(k + 1) \div 2] % 16]
  BY <1>2 DEF nibbles
<1> HIDE DEF nibs, L
<1>4. Len(nibs) = 2 * (n + 1)
  BY <1>3
<1>5. ASSUME NEW j \in 1 .. n + 1
      PROVE  nibs[2 * j - 1] = e[j] \div 16 /\ nibs[2 * j] = e[j] % 16
  <2>1. /\ 2 * j - 1 \in 1 .. 2 * (n + 1) /\ (2 * j - 1) % 2 = 1 /\ ((2 * j - 1) + 1) \div 2 = j
        /\ 2 * j \in 1 .. 2 * (n + 1) /\ (2 * j) % 2 = 0 /\ (2 * j + 1) \div 2 = j
    OBVIOUS
  <2>2. 0 # 1
    OBVIOUS
  <2>. QED BY <1>3, <2>1, <2>2, Zenon
<1>6. nibs[1] = flag + odd /\ (odd = 1 => nibs[2] = p[1])
  <2> DEFINE low == IF odd = 1 THEN p[1] ELSE 0
             high == flag + odd
  <2>1. low \in Nat /\ low < 16 /\ high \in Nat /\ (odd = 1 => low = p[1])
    BY <1>1, <1>2
  <2>2. e[1] = high * 16 + low
    BY <1>0
  <2>3. 1 \in 1 .. n + 1 /\ 2 * 1 - 1 = 1 /\ 2 * 1 = 2
    OBVIOUS
  <2>4. nibs[1] = e[1] \div 16 /\ nibs[2] = e[1] % 16
    BY <1>5, <2>3
  <2> HIDE DEF low, high
  <2>5. nibs[1] = high /\ nibs[2] = low
    BY <2>1, <2>2, <2>4, ByteHalves
  <2>. QED BY <2>1, <2>5 DEF high
<1>7. ASSUME NEW k \in 1 .. n
      PROVE  nibs[2 * k + 1] = p[2 * k - 1 + odd] /\ nibs[2 * k + 2] = p[2 * k + odd]
  <2>1. k + 1 \in 1 .. n + 1 /\ 2 * (k + 1) - 1 = 2 * k + 1 /\ 2 * (k + 1) = 2 * k + 2
    OBVIOUS
  <2>2. nibs[2 * k + 1] = e[k + 1] \div 16 /\ nibs[2 * k + 2] = e[k + 1] % 16
    BY <1>5, <2>1
  <2> DEFINE x == p[2 * k - 1 + odd]
             y == p[2 * k + odd]
  <2>3. 2 * k - 1 + odd \in 1 .. L /\ 2 * k + odd \in 1 .. L
    BY <1>2
  <2>4. x \in Nat /\ y \in Nat /\ y < 16 /\ e[k + 1] = x * 16 + y
    BY <1>1, <1>2, <2>3
  <2> HIDE DEF x, y
  <2>5. e[k + 1] \div 16 = x /\ e[k + 1] % 16 = y
    BY <2>4, ByteHalves
  <2>. QED BY <2>2, <2>5 DEF x, y
<1>8. ASSUME NEW i \in 1 .. L
      PROVE  nibs[i + (2 - odd)] = p[i]
  <2>1. CASE odd = 1 /\ i = 1
    BY <1>6, <2>1
  <2>2. CASE ~ (odd = 1 /\ i = 1)
    <3>1. \E k \in 1 .. n : i = 2 * k - 1 + odd \/ i = 2 * k + odd
      <4> DEFINE k == (i - odd + 1) \div 2
      <4>1. k \in 1 .. n /\ (i = 2 * k - 1 + odd \/ i = 2 * k + odd)
        BY <1>2, <2>2
      <4> HIDE DEF k
      <4>. QED BY <4>1
    <3>2. PICK k \in 1 .. n : i = 2 * k - 1 + odd \/ i = 2 * k + odd
      BY <3>1
    <3>3. CASE i = 2 * k - 1 + odd
      <4>1. i + (2 - odd) = 2 * k + 1
        BY <3>3
      <4>. QED BY <1>7, <3>3, <4>1, Zenon
    <3>4. CASE i = 2 * k + odd
      <4>1. i + (2 - odd) = 2 * k + 2
        BY <3>4
      <4>. QED BY <1>7, <3>4, <4>1, Zenon
    <3>. QED BY <3>2, <3>3, <3>4
  <2>. QED BY <2>1, <2>2
<1>9. (IF nibs[1] % 2 = 1 THEN 1 ELSE 2) = 2 - odd
  BY <1>6
<1>10. From(nibs, 2 - odd) = p
  <2>1. From(nibs, 2 - odd) = SubSeq(nibs, (2 - odd) + 1, Len(nibs))
    BY <1>4 DEF From, Slice
  <2>2. SubSeq(nibs, (2 - odd) + 1, Len(nibs)) = [i \in 1 .. L |-> nibs[i + (2 - odd)]]
    <3>1. Len(nibs) - (2 - odd) = L
      BY <1>2, <1>4
    <3>. QED BY <1>4, <3>1
  <2>3. [i \in 1 .. L |-> nibs[i + (2 - odd)]] = [i \in 1 .. L |-> p[i]]
    BY <1>8, Zenon
  <2>. QED BY <1>1, <2>1, <2>2, <2>3, Zenon
<1>11. nibs[1] >= 2 <=> flag = 2
  BY <1>6
<1>12. (nibs[1] >= 2) = (flag = 2)
  BY <1>11
<1>. QED BY <1>9, <1>10, <1>12, Zenon DEF decode_hp, nibs


(* A length, halved. *)
LEMMA ByTwo ==
  \A a \in Nat : a % 2 \in {0, 1} /\ a \div 2 \in Nat /\ a = 2 * (a \div 2) + (a % 2)
OBVIOUS

(* PackedPath packs a path behind the flag of a leaf, ExtensionPath behind *)
(* that of an extension.                                                   *)
LEMMA PathsPacked ==
  ASSUME NEW p \in Seq(NibbleValue)
  PROVE  /\ Len(p) % 2 \in {0, 1} /\ Len(p) \div 2 \in Nat
         /\ Len(p) = 2 * (Len(p) \div 2) + (Len(p) % 2)
         /\ Packs(PackedPath(p), p, 2, Len(p) % 2, Len(p) \div 2)
         /\ Packs(ExtensionPath(p), p, 0, Len(p) % 2, Len(p) \div 2)
<1> DEFINE odd == Len(p) % 2
           n == Len(p) \div 2
           rest == IF odd = 1 THEN Tail(p) ELSE p
           first == IF odd = 1 THEN 3 * 16 + p[1] ELSE 2 * 16
           body == [k \in 1 .. n |-> rest[2 * k - 1] * 16 + rest[2 * k]]
           e == PackedPath(p)
           x == ExtensionPath(p)
<1>1. /\ Len(p) \in Nat /\ p = [i \in 1 .. Len(p) |-> p[i]]
      /\ \A i \in 1 .. Len(p) : p[i] \in Nat
  BY PathNibbles
<1>2. odd \in {0, 1} /\ n \in Nat /\ Len(p) = 2 * n + odd
  BY <1>1, ByTwo, Zenon
<1>3. Len(rest) \div 2 = n /\ \A i \in 1 .. 2 * n : rest[i] = p[i + odd]
  <2>1. CASE odd = 1
    <3>1. p # <<>> /\ Len(Tail(p)) = Len(p) - 1 /\ \A i \in 1 .. Len(p) - 1 : Tail(p)[i] = p[i + 1]
      BY <1>2, <2>1
    <3>. QED BY <1>2, <2>1, <3>1
  <2>2. CASE odd = 0
    <3>1. rest = p
      <4>1. odd # 1
        BY <2>2
      <4>. QED BY <4>1, Zenon
    <3> HIDE DEF rest, odd, n
    <3>. QED BY <1>2, <2>2, <3>1
  <2>. QED BY <1>2, <2>1, <2>2
<1>4. e = <<first>> \o body
  <2>1. n = Len(rest) \div 2
    BY <1>3
  <2>. QED BY <2>1, Zenon DEF PackedPath
<1>5. /\ Len(e) = n + 1 /\ DOMAIN e = 1 .. n + 1 /\ e[1] = first
      /\ \A k \in 1 .. n : e[k + 1] = rest[2 * k - 1] * 16 + rest[2 * k]
  <2> DEFINE S == {first} \union {rest[2 * k - 1] * 16 + rest[2 * k] : k \in 1 .. n}
  <2>1. first \in S /\ \A k \in 1 .. n : body[k] \in S /\ body[k] = rest[2 * k - 1] * 16 + rest[2 * k]
    OBVIOUS
  <2>2. DOMAIN body = 1 .. n /\ body = [k \in 1 .. n |-> body[k]]
    OBVIOUS
  <2> HIDE DEF e, first, rest, n, body, S
  <2>3. <<first>> \in Seq(S) /\ Len(<<first>>) = 1 /\ <<first>>[1] = first
    BY <2>1
  <2>4. body \in Seq(S) /\ Len(body) = n
    <3>1. \A m \in Nat : \A s : (\A k \in 1 .. m : s[k] \in S) /\ s = [k \in 1 .. m |-> s[k]]
                                => s \in Seq(S) /\ Len(s) = m
      OBVIOUS
    <3>. QED BY <1>2, <2>1, <2>2, <3>1, Zenon
  <2>5. /\ Len(e) = n + 1 /\ DOMAIN e = 1 .. n + 1 /\ e[1] = first
        /\ \A k \in 1 .. n : e[k + 1] = body[k]
    BY <1>2, <1>4, <2>3, <2>4
  <2>. QED BY <2>1, <2>5, Zenon
<1>6. \A k \in 1 .. n : e[k + 1] = p[2 * k - 1 + odd] * 16 + p[2 * k + odd]
  <2> SUFFICES ASSUME NEW k \in 1 .. n PROVE e[k + 1] = p[2 * k - 1 + odd] * 16 + p[2 * k + odd]
    OBVIOUS
  <2> HIDE DEF e, rest, n, odd
  <2>1. 2 * k - 1 \in 1 .. 2 * n /\ 2 * k \in 1 .. 2 * n
    BY <1>2
  <2>. QED BY <1>3, <1>5, <2>1, Zenon
<1>7. Len(x) = n + 1 /\ x[1] = first - 2 * 16 /\ \A k \in 1 .. n : x[k + 1] = e[k + 1]
  <2>1. x = [e EXCEPT ![1] = @ - 2 * 16]
    BY DEF ExtensionPath
  <2> HIDE DEF e, x, n, first
  <2>2. \A k \in 1 .. n : k + 1 \in 1 .. n + 1 /\ k + 1 # 1
    BY <1>2
  <2>3. 1 \in 1 .. n + 1 /\ n + 1 \in Nat
    BY <1>2
  <2>4. x[1] = e[1] - 2 * 16 /\ DOMAIN x = 1 .. n + 1 /\ \A k \in 1 .. n : x[k + 1] = e[k + 1]
    BY <1>5, <2>1, <2>2, <2>3, Zenon
  <2>5. Len(x) = n + 1
    BY <2>1, <2>3, <2>4, <1>5
  <2>. QED BY <1>5, <2>4, <2>5, Zenon
<1> HIDE DEF e, x, n, odd
<1>8. odd = 1 => p[1] \in Nat
  BY <1>1, <1>2
<1>9. Packs(e, p, 2, odd, n)
  BY <1>5, <1>6 DEF Packs
<1>10. Packs(x, p, 0, odd, n)
  BY <1>6, <1>7, <1>8 DEF Packs
<1>11. odd = Len(p) % 2 /\ n = Len(p) \div 2 /\ e = PackedPath(p) /\ x = ExtensionPath(p)
  BY DEF odd, n, e, x
<1>12. /\ Packs(PackedPath(p), p, 2, Len(p) % 2, Len(p) \div 2)
       /\ Packs(ExtensionPath(p), p, 0, Len(p) % 2, Len(p) \div 2)
  BY <1>9, <1>10, <1>11, Zenon
<1>13. /\ Len(p) % 2 \in {0, 1} /\ Len(p) \div 2 \in Nat
       /\ Len(p) = 2 * (Len(p) \div 2) + (Len(p) % 2)
  BY <1>1, ByTwo, Zenon
<1>. QED BY <1>12, <1>13

(* _decode_hp undoes the packing of _leaf_node: a path of any length and   *)
(* parity comes back, as that of a leaf or of an extension, so the walk    *)
(* may be modelled over nodes that hold their paths.                       *)
THEOREM PathsReturn ==
  \A path \in Seq(NibbleValue) :
    /\ decode_hp(PackedPath(path)) = [path |-> path, is_leaf |-> TRUE]
    /\ decode_hp(ExtensionPath(path)) = [path |-> path, is_leaf |-> FALSE]
<1>1. 2 \in {0, 2} /\ 0 \in {0, 2} /\ (2 = 2) = TRUE /\ (0 = 2) = FALSE
  OBVIOUS
<1>2. ASSUME NEW p \in Seq(NibbleValue)
      PROVE  /\ decode_hp(PackedPath(p)) = [path |-> p, is_leaf |-> TRUE]
             /\ decode_hp(ExtensionPath(p)) = [path |-> p, is_leaf |-> FALSE]
  <2> DEFINE odd == Len(p) % 2
             n == Len(p) \div 2
  <2>1. /\ odd \in {0, 1} /\ n \in Nat /\ Len(p) = 2 * n + odd
        /\ Packs(PackedPath(p), p, 2, odd, n) /\ Packs(ExtensionPath(p), p, 0, odd, n)
    BY PathsPacked
  <2> HIDE DEF odd, n
  <2>. QED BY <1>1, <2>1, PackedNibbles, Zenon
<1>. QED BY <1>2

(* A packed path has a first byte.                                         *)
LEMMA PathsNotEmpty ==
  ASSUME NEW p \in Seq(NibbleValue)
  PROVE  PackedPath(p) # <<>> /\ ExtensionPath(p) # <<>>
<1>1. ASSUME NEW e, NEW flag, Packs(e, p, flag, Len(p) % 2, Len(p) \div 2) PROVE e # <<>>
  <2>1. Len(e) = Len(p) \div 2 + 1
    BY <1>1, Zenon DEF Packs
  <2>2. Len(p) \div 2 \in Nat
    BY PathsPacked, Zenon
  <2>. QED BY <2>1, <2>2
<1>. QED BY <1>1, PathsPacked, Zenon

---------------------------------------------------------------------------
(* What is read from an item *)

(* An account and a number read back from their items.                     *)
LEMMA AccountRead ==
  ASSUME NEW nonce \in Numbers, NEW balance \in Numbers, NEW root, NEW code
  PROVE  decode_account(Account(nonce, balance, root, code))
           = [nonce |-> nonce, balance |-> balance,
              storageRoot |-> Bytes(root), codeHash |-> Bytes(code)]
<1> DEFINE w == <<Bytes(be_trim(nonce)), Bytes(be_trim(balance)), Bytes(root), Bytes(code)>>
           item == Account(nonce, balance, root, code)
<1>1. ~ IsBytes(item) /\ item.list = w
  BY ItemRecords, Zenon DEF Account
<1>2. Len(w) = 4 /\ w[1] = Bytes(be_trim(nonce)) /\ w[2] = Bytes(be_trim(balance))
      /\ w[3] = Bytes(root) /\ w[4] = Bytes(code)
  OBVIOUS
<1> HIDE DEF w, item
<1>3. ASSUME NEW x \in Numbers
      PROVE  ~ BeToIntFails(Bytes(be_trim(x))) /\ be_to_int(Bytes(be_trim(x))) = x
  <2>1. from_bytes(be_trim(x)) = x
    BY SizesAssumption, NumbersReturn, Zenon
  <2>2. IsBytes(Bytes(be_trim(x))) /\ Bytes(be_trim(x)).bytes = be_trim(x)
    BY ItemRecords, Zenon
  <2>. QED BY <2>1, <2>2, Zenon DEF BeToIntFails, be_to_int
<1>4. decode_account(item)
        = [nonce |-> be_to_int(w[1]), balance |-> be_to_int(w[2]), storageRoot |-> w[3], codeHash |-> w[4]]
  BY <1>1, <1>2, <1>3, Zenon DEF decode_account
<1>. QED BY <1>2, <1>3, <1>4, Zenon DEF item

(* A storage value reads back, from bytes without a leading zero.          *)
LEMMA NumberRead ==
  ASSUME NEW x \in Numbers
  PROVE  /\ ~ BeToIntFails(Bytes(be_trim(x))) /\ be_to_int(Bytes(be_trim(x))) = x
         /\ be_trim(x) # <<>> => be_trim(x)[1] # 0
<1>1. from_bytes(be_trim(x)) = x /\ (be_trim(x) # <<>> => be_trim(x)[1] # 0)
  BY SizesAssumption, NumbersReturn, Zenon
<1>2. IsBytes(Bytes(be_trim(x))) /\ Bytes(be_trim(x)).bytes = be_trim(x)
  BY ItemRecords, Zenon
<1>. QED BY <1>1, <1>2, Zenon DEF BeToIntFails, be_to_int

(* A node of two items reads as its path and kind.                         *)
LEMMA NodeRead ==
  ASSUME NEW packed, packed # <<>>, NEW hash
  PROVE  ReadPath(PathNode(packed, hash)) = decode_hp(packed)
<1> DEFINE w == <<Bytes(packed), Bytes(hash)>>
           item == PathNode(packed, hash)
<1>1. ~ IsBytes(item) /\ item.list = w
  BY ItemRecords, Zenon DEF PathNode
<1>2. Len(w) = 2 /\ w[1] = Bytes(packed)
  OBVIOUS
<1> HIDE DEF w, item
<1>3. IsBytes(w[1]) /\ w[1].bytes = packed
  BY <1>2, ItemRecords, Zenon
<1>4. ReadPath(item) = decode_hp(packed)
  BY <1>1, <1>2, <1>3, Zenon DEF ReadPath
<1>. QED BY <1>4, Zenon DEF item

(* A leaf and an extension read as what _leaf_node packed.                 *)
LEMMA PathsRead ==
  ASSUME NEW path \in Paths, NEW hash
  PROVE  /\ Decoded(PathNode(PackedPath(path), hash))
              = [item |-> PathNode(PackedPath(path), hash), read |-> [path |-> path, is_leaf |-> TRUE]]
         /\ Decoded(PathNode(ExtensionPath(path), hash))
              = [item |-> PathNode(ExtensionPath(path), hash), read |-> [path |-> path, is_leaf |-> FALSE]]
<1>1. path \in Seq(NibbleValue)
  BY InputsAssumption, Zenon DEF NibbleValue
<1>2. /\ decode_hp(PackedPath(path)) = [path |-> path, is_leaf |-> TRUE]
      /\ decode_hp(ExtensionPath(path)) = [path |-> path, is_leaf |-> FALSE]
  BY <1>1, PathsReturn, Zenon
<1>3. PackedPath(path) # <<>> /\ ExtensionPath(path) # <<>>
  BY <1>1, PathsNotEmpty, Zenon
<1>4. /\ ReadPath(PathNode(PackedPath(path), hash)) = [path |-> path, is_leaf |-> TRUE]
      /\ ReadPath(PathNode(ExtensionPath(path), hash)) = [path |-> path, is_leaf |-> FALSE]
  BY <1>2, <1>3, NodeRead, Zenon
<1>. QED BY <1>4, Zenon DEF Decoded

---------------------------------------------------------------------------
(* Decoding what was encoded *)

(* The input is the encoding of the item before the tail, the stack holds  *)
(* what is read of it, and the answer is what the call makes of the item.  *)
Answers(item, tail) == expected = IF tail = <<>> THEN Use(item) ELSE Raised("AssertionError")
Canonical(item)     == \E b : item = Bytes(b) /\ (b # <<>> => b[1] # 0)
Reading(item, tail) ==
  /\ tail \in Seq(Nat) /\ Fits(item) /\ data = rlp_encode(item) \o tail
  /\ Answers(item, tail)
  /\ call = "verify_storage_inclusion" => Canonical(item)
  /\ \E whole : Structure(stack, item, tail, whole)
  /\ result = NONE \/ (result = expected /\ Len(stack) = 1 /\ Top.out # <<>>)

EncodedInv == \E item, tail : Reading(item, tail)

(* A call that begins on an encoded item.                                  *)
Fresh == stack = <<Frame(data, <<>>)>> /\ result = NONE

(* An encoded item before a tail.                                          *)
LEMMA FreshReads ==
  ASSUME NEW item, Fits(item), NEW tail \in Seq(Nat), data = rlp_encode(item) \o tail,
         Answers(item, tail), call = "verify_storage_inclusion" => Canonical(item), Fresh
  PROVE  EncodedInv
<1>1. Structure(stack, item, tail, <<<<item>>>>)
  BY Begins, Zenon DEF Fresh
<1>2. Reading(item, tail)
  BY <1>1, Zenon DEF Reading, Fresh
<1>. QED BY <1>2 DEF EncodedInv

(* An encoded item alone.                                                  *)
LEMMA WholeReads ==
  ASSUME NEW item, Fits(item), data = rlp_encode(item), expected = Use(item),
         call = "verify_storage_inclusion" => Canonical(item), Fresh
  PROVE  EncodedInv
<1>1. rlp_encode(item) \in Seq(Nat)
  BY FitsIs, CodeType, Zenon
<1>2. <<>> \in Seq(Nat) /\ rlp_encode(item) \o <<>> = rlp_encode(item)
  BY <1>1, JoinedEmpty
<1>3. Answers(item, <<>>)
  BY Zenon DEF Answers
<1>. QED BY <1>2, <1>3, FreshReads, Zenon

(* Bytes that no encoder need have written: nothing is expected of them.   *)
AnyBytes == expected = NONE /\ (call = "_walk" => data \in Datas) /\ Fresh

(* Every call begins on an encoded item or on any bytes.                   *)
LEMMA InitReads ==
  Init => EncodedInv \/ AnyBytes
<1> SUFFICES ASSUME Init PROVE EncodedInv \/ AnyBytes
  OBVIOUS
<1>1. Fresh
  BY DEF Init, Fresh
<1>2. ASSUME NEW item \in Items, NEW tail \in Tails,
             Called("rlp_decode", rlp_encode(item) \o tail,
                    IF tail = <<>> THEN [item |-> item] ELSE Raised("AssertionError"))
      PROVE  EncodedInv
  <2>1. Fits(item)
    BY InputsAssumption, Zenon
  <2>2. tail \in Seq(Nat)
    <3>1. tail \in Seq(Byte)
      BY InputsAssumption
    <3>2. Byte \subseteq Nat
      BY DEF Byte
    <3>. QED BY <3>1, <3>2, LargerSeq
  <2>3. call = "rlp_decode" /\ data = rlp_encode(item) \o tail /\ call # "verify_storage_inclusion"
    BY <1>2 DEF Called
  <2>4. Answers(item, tail)
    <3>1. Use(item) = [item |-> item]
      BY <2>3 DEF Use
    <3>. QED BY <1>2, <3>1, Zenon DEF Called, Answers
  <2>. QED BY <1>1, <2>1, <2>2, <2>3, <2>4, FreshReads, Zenon
<1>3. ASSUME call = "_walk" PROVE call # "verify_storage_inclusion" /\ \A item : Use(item) = Decoded(item)
  BY <1>3 DEF Use
<1>4. ASSUME NEW item, Fits(item), Called("_walk", rlp_encode(item), Decoded(item))
      PROVE  EncodedInv
  <2>1. call = "_walk" /\ data = rlp_encode(item) /\ expected = Decoded(item)
    BY <1>4, Zenon DEF Called
  <2>. QED BY <1>1, <1>3, <1>4, <2>1, WholeReads, Zenon
<1>5. ASSUME NEW item \in Items, Called("_walk", rlp_encode(item), Decoded(item))
      PROVE  EncodedInv
  <2>1. Fits(item)
    BY InputsAssumption, Zenon
  <2>. QED BY <1>4, <1>5, <2>1, Zenon
<1>6. ASSUME NEW path \in Paths, NEW hash \in Hashes
      PROVE  /\ Called("_walk", leaf_node(path, hash),
                       [item |-> PathNode(PackedPath(path), hash),
                        read |-> [path |-> path, is_leaf |-> TRUE]]) => EncodedInv
             /\ Called("_walk", extension_node(path, hash),
                       [item |-> PathNode(ExtensionPath(path), hash),
                        read |-> [path |-> path, is_leaf |-> FALSE]]) => EncodedInv
  <2>1. Fits(PathNode(PackedPath(path), hash)) /\ Fits(PathNode(ExtensionPath(path), hash))
    BY InputsAssumption, Zenon
  <2>2. /\ leaf_node(path, hash) = rlp_encode(PathNode(PackedPath(path), hash))
        /\ extension_node(path, hash) = rlp_encode(PathNode(ExtensionPath(path), hash))
    BY Zenon DEF leaf_node, extension_node
  <2>. QED BY <1>4, <2>1, <2>2, PathsRead, Zenon
<1>7. ASSUME NEW nonce \in Numbers, NEW balance \in Numbers, NEW root \in Hashes, NEW code \in Hashes,
             Called("decode_account", encode_account(nonce, balance, root, code),
                    [nonce |-> nonce, balance |-> balance,
                     storageRoot |-> Bytes(root), codeHash |-> Bytes(code)])
      PROVE  EncodedInv
  <2> DEFINE item == Account(nonce, balance, root, code)
  <2>1. Fits(item)
    BY InputsAssumption, Zenon
  <2>2. call = "decode_account" /\ call # "verify_storage_inclusion"
    BY <1>7 DEF Called
  <2>3. data = rlp_encode(item)
    BY <1>7, Zenon DEF Called, encode_account
  <2> HIDE DEF item
  <2>4. Use(item) = decode_account(item)
    BY <2>2 DEF Use
  <2> DEFINE answer == [nonce |-> nonce, balance |-> balance,
                        storageRoot |-> Bytes(root), codeHash |-> Bytes(code)]
  <2>5. expected = Use(item)
    <3>1. decode_account(item) = answer
      BY AccountRead DEF item
    <3>2. expected = answer
      BY <1>7, Zenon DEF Called
    <3>. QED BY <2>4, <3>1, <3>2, Zenon
  <2>. QED BY <1>1, <2>1, <2>2, <2>3, <2>5, WholeReads, Zenon
<1>8. ASSUME NEW value \in Numbers,
             Called("verify_storage_inclusion", rlp_encode(Bytes(be_trim(value))), [int |-> value])
      PROVE  EncodedInv
  <2> DEFINE item == Bytes(be_trim(value))
  <2>1. Fits(item)
    BY InputsAssumption, Zenon
  <2>2. call = "verify_storage_inclusion" /\ data = rlp_encode(item) /\ expected = [int |-> value]
    BY <1>8, Zenon DEF Called
  <2>3. Canonical(item) /\ ~ BeToIntFails(item) /\ be_to_int(item) = value
    BY NumberRead, Zenon DEF Canonical
  <2> HIDE DEF item
  <2>4. Use(item) = IF BeToIntFails(item) THEN Raised("TypeError") ELSE [int |-> be_to_int(item)]
    BY <2>2 DEF Use
  <2>5. expected = Use(item)
    BY <2>2, <2>3, <2>4, Zenon
  <2>. QED BY <1>1, <2>1, <2>2, <2>3, <2>5, WholeReads, Zenon
<1>9. ASSUME NEW who \in {"decode_account", "verify_storage_inclusion"}, NEW item \in Shapes,
             Called(who, rlp_encode(item), NONE)
      PROVE  AnyBytes
  <2>1. expected = NONE /\ call # "_walk"
    BY <1>9 DEF Called
  <2>. QED BY <1>1, <2>1, Zenon DEF AnyBytes
<1>10. ASSUME NEW who \in Calls, NEW bytes \in Datas, Called(who, bytes, NONE)
       PROVE  AnyBytes
  BY <1>1, <1>10, Zenon DEF Called, AnyBytes
<1>. QED BY <1>2, <1>5, <1>6, <1>7, <1>8, <1>9, <1>10, Zenon DEF Init

(* The children that _next_ref encodes again are elements of a list that   *)
(* was read.                                                               *)
LEMMA InlinedFits ==
  ASSUME NEW item, Fits(item), result = Decoded(item), NEW child \in Inlined
  PROVE  Fits(child)
<1>1. result.item = item
  BY DEF Decoded
<1>2. ~ IsBytes(item) /\ \E k \in DOMAIN item.list : child = item.list[k]
  <2>1. ~ IsBytes(item)
    BY <1>1, Zenon DEF Inlined
  <2> DEFINE items == result.item.list
             nodes == {k \in DOMAIN items : ~IsBytes(items[k])}
  <2>2. child \in (CASE Len(items) = 17 -> {items[k] : k \in {k \in nodes : k < 17 /\ items[k].list # <<>>}}
             [] Len(items) = 2  -> IF "path" \in DOMAIN result.read /\ ~result.read.is_leaf
                                     THEN {items[k] : k \in nodes \ {1}} ELSE {}
             [] OTHER -> {})
    BY <1>1, <2>1 DEF Inlined
  <2>3. CASE Len(items) = 17
    <3>1. child \in {items[k] : k \in {k \in nodes : k < 17 /\ items[k].list # <<>>}}
      BY <2>2, <2>3
    <3>. QED BY <1>1, <2>1, <3>1, Zenon
  <2>4. CASE Len(items) = 2
    <3>1. child \in IF "path" \in DOMAIN result.read /\ ~result.read.is_leaf
                    THEN {items[k] : k \in nodes \ {1}} ELSE {}
      BY <2>2, <2>4
    <3>2. child \in {items[k] : k \in nodes \ {1}}
      BY <3>1, Zenon
    <3>. QED BY <1>1, <2>1, <3>2, Zenon
  <2>5. CASE Len(items) # 17 /\ Len(items) # 2
    BY <2>2, <2>5
  <2>. QED BY <2>3, <2>4, <2>5
<1>3. PICK w \in Seq(Item) :
        item = List(w) /\ rlp_encode(item) = rlp_encode_length(Len(After(w, 0)), 192) \o After(w, 0)
  <2>1. item \in Item
    BY FitsIs, Zenon
  <2>. QED BY <1>2, <2>1, ItemIs, ItemRecords, Zenon
<1>4. item.list = w
  BY <1>3, ItemRecords, Zenon
<1>5. List(w) \in Item
  BY <1>3, FitsIs, Zenon
<1>6. \A k \in 1 .. Len(w) : Fits(w[k])
  BY <1>3, <1>5, ListFits, Zenon
<1>7. DOMAIN w = 1 .. Len(w)
  OBVIOUS
<1>. QED BY <1>2, <1>4, <1>6, <1>7, Zenon

(* A step that reads on keeps what is expected.                            *)
LEMMA ReadsOn ==
  ASSUME NEW item, NEW tail, Reading(item, tail), UNCHANGED <<call, data, result, expected>>,
         result = NONE, NEW whole, Structure(stack', item, tail, whole)
  PROVE  EncodedInv'
<1>1. call' = call /\ data' = data /\ expected' = expected /\ result' = NONE
  OBVIOUS
<1>2. Answers(item, tail)'
  <2>1. Answers(item, tail)
    BY Zenon DEF Reading
  <2>2. Use(item)' = Use(item)
    BY <1>1, Zenon DEF Use
  <2>. QED BY <1>1, <2>1, <2>2, Zenon DEF Answers
<1>3. Reading(item, tail)'
  <2>1. /\ tail \in Seq(Nat) /\ Fits(item) /\ data = rlp_encode(item) \o tail
        /\ call = "verify_storage_inclusion" => Canonical(item)
    BY Zenon DEF Reading
  <2>2. /\ data' = rlp_encode(item) \o tail
        /\ call' = "verify_storage_inclusion" => Canonical(item)
    BY <1>1, <2>1, Zenon
  <2>. QED BY <1>1, <1>2, <2>1, <2>2, Zenon DEF Reading
<1>. QED BY <1>3, Zenon DEF EncodedInv

(* The walk goes on with a child that fits, encoded again.                 *)
LEMMA ChildReads ==
  ASSUME NEW child, Fits(child), NextRef, data' = rlp_encode(child), expected' = Decoded(child)
  PROVE  EncodedInv'
<1>1. call' = "_walk" /\ stack' = <<Frame(data', <<>>)>> /\ result' = NONE
  BY Zenon DEF NextRef
<1>2. rlp_encode(child) \in Seq(Nat)
  BY FitsIs, CodeType, Zenon
<1>3. <<>> \in Seq(Nat) /\ rlp_encode(child) \o <<>> = rlp_encode(child)
  BY <1>2, JoinedEmpty
<1>4. Answers(child, <<>>)'
  <2>1. Use(child)' = Decoded(child)
    BY <1>1 DEF Use
  <2>. QED BY <2>1, Zenon DEF Answers
<1>5. Structure(stack', child, <<>>, <<<<child>>>>)
  <2>1. Structure(<<Frame(rlp_encode(child) \o <<>>, <<>>)>>, child, <<>>, <<<<child>>>>)
    BY <1>3, Begins, Zenon
  <2>. QED BY <1>1, <1>3, <2>1, Zenon
<1>6. call' # "verify_storage_inclusion"
  BY <1>1
<1>7. Reading(child, <<>>)'
  BY <1>1, <1>3, <1>4, <1>5, <1>6, Zenon DEF Reading
<1>. QED BY <1>7, Zenon DEF EncodedInv

(* EncodedInv is inductive.                                                *)
LEMMA EncodedStep ==
  ASSUME EncodedInv, [Next]_vars
  PROVE  EncodedInv'
<1>1. PICK item, tail : Reading(item, tail)
  BY DEF EncodedInv
<1>2. PICK whole : Structure(stack, item, tail, whole)
  BY <1>1, Zenon DEF Reading
<1>3. /\ tail \in Seq(Nat) /\ Fits(item) /\ data = rlp_encode(item) \o tail
      /\ Answers(item, tail) /\ (call = "verify_storage_inclusion" => Canonical(item))
      /\ result = NONE \/ (result = expected /\ Len(stack) = 1 /\ Top.out # <<>>)
  BY <1>1, Zenon DEF Reading
<1> DEFINE n == Len(stack)
<1>4. Parts(stack, item, tail, whole)
  BY <1>2, <1>3, StructureIs, Zenon
<1>5. n \in Nat \ {0}
  BY <1>4, Zenon DEF Parts
<1>6. ASSUME Decoding
      PROVE  result = NONE /\ Len(Top.out) < Len(whole[n]) /\ Top.rest # <<>>
  BY <1>2, <1>3, <1>6, TopLeft, Zenon DEF Decoding, Top
<1>7. CASE DecodeNothing
  <2>1. Decoding /\ Top.rest = <<>>
    BY <1>7, Zenon DEF DecodeNothing
  <2>. QED BY <1>6, <2>1, Zenon
<1>8. CASE DecodeBytes
  <2>1. Decoding /\ Top.rest[1] < 192 /\ UNCHANGED <<call, data, result, expected>>
    BY <1>8, Zenon DEF DecodeBytes
  <2>2. stack' = Append(SubSeq(stack, 1, Len(stack) - 1), BytesFrame(stack[Len(stack)]))
    BY <1>8, Zenon DEF DecodeBytes, Pop, Top, BytesFrame
  <2>3. Structure(stack', item, tail, whole)
    BY <1>2, <1>3, <1>6, <2>1, <2>2, StepBytes, Zenon DEF Top
  <2>. QED BY <1>1, <1>6, <2>1, <2>3, ReadsOn, Zenon
<1>9. CASE DecodeList
  <2>1. Decoding /\ Top.rest[1] >= 192 /\ UNCHANGED <<call, data, result, expected>>
    BY <1>9, Zenon DEF DecodeList
  <2>2. stack' = SubSeq(stack, 1, Len(stack) - 1) \o <<OuterFrame(stack[Len(stack)]), InnerFrame(stack[Len(stack)])>>
    BY <1>9, Zenon DEF DecodeList, Pop, Top, OuterFrame, InnerFrame
  <2>3. \E v : Structure(stack', item, tail, v)
    BY <1>2, <1>3, <1>6, <2>1, <2>2, StepList, Zenon DEF Top
  <2>. QED BY <1>1, <1>6, <2>1, <2>3, ReadsOn, Zenon
<1>10. CASE ListEnds
  <2>1. /\ result = NONE /\ Len(stack) > 1 /\ Top.rest = <<>>
        /\ UNCHANGED <<call, data, result, expected>>
    BY <1>10, Zenon DEF ListEnds
  <2>2. stack' = Append(SubSeq(stack, 1, Len(stack) - 2),
                        ClosedFrame(stack[Len(stack) - 1], stack[Len(stack)]))
    BY <1>10, Zenon DEF ListEnds, Top, Caller, ClosedFrame
  <2>3. Len(stack) # 1
    <3>1. \A i \in Nat : i > 1 => i # 1
      OBVIOUS
    <3>. QED BY <1>5, <2>1, <3>1, Zenon
  <2>4. \E v : Structure(stack', item, tail, v)
    BY <1>2, <1>3, <2>1, <2>2, <2>3, StepClose, Zenon DEF Top
  <2>. QED BY <1>1, <2>1, <2>4, ReadsOn, Zenon
<1>11. CASE Return
  <2>1. /\ Len(stack) = 1 /\ Top.out # <<>> /\ UNCHANGED <<call, data, stack, expected>>
        /\ result' = IF Top.rest = <<>> THEN Use(Top.out[1]) ELSE Raised("AssertionError")
    BY <1>11, Zenon DEF Return, End
  <2>2. Top.out[1] = item /\ Top.rest = tail
    BY <1>2, <1>3, <2>1, ItemRead, Zenon DEF Top
  <2>3. result' = expected
    BY <1>3, <2>1, <2>2, Zenon DEF Answers
  <2>4. call' = call /\ data' = data /\ stack' = stack /\ expected' = expected
    BY <2>1
  <2>5. Use(item)' = Use(item) /\ Top' = Top
    BY <2>4, Zenon DEF Use, Top
  <2>6. Answers(item, tail)'
    BY <1>3, <2>4, <2>5, Zenon DEF Answers
  <2>7. Reading(item, tail)'
    BY <1>2, <1>3, <2>1, <2>3, <2>4, <2>5, <2>6, Zenon DEF Reading
  <2>. QED BY <2>7, Zenon DEF EncodedInv
<1>12. CASE NextRef
  <2>1. call = "_walk" /\ result # NONE /\ "item" \in DOMAIN result
    BY <1>12, Zenon DEF NextRef
  <2>2. result = Decoded(item)
    <3>1. result = IF tail = <<>> THEN Use(item) ELSE Raised("AssertionError")
      BY <1>3, <2>1, Zenon DEF Answers
    <3>2. "item" \notin DOMAIN Raised("AssertionError")
      BY DEF Raised
    <3>3. Use(item) = Decoded(item)
      BY <2>1 DEF Use
    <3>. QED BY <2>1, <3>1, <3>2, <3>3, Zenon
  <2>3. PICK child \in Inlined : data' = rlp_encode(child) /\ expected' = Decoded(child)
    BY <1>12, Zenon DEF NextRef
  <2>4. Fits(child)
    BY <1>3, <2>2, InlinedFits, Zenon
  <2>. QED BY <1>12, <2>3, <2>4, ChildReads, Zenon
<1>13. CASE UNCHANGED vars
  <2>1. call' = call /\ data' = data /\ stack' = stack /\ expected' = expected /\ result' = result
    BY <1>13 DEF vars
  <2>2. Use(item)' = Use(item) /\ Top' = Top
    BY <2>1, Zenon DEF Use, Top
  <2>3. Answers(item, tail)'
    BY <1>3, <2>1, <2>2, Zenon DEF Answers
  <2>4. Reading(item, tail)'
    BY <1>2, <1>3, <2>1, <2>2, <2>3, Zenon DEF Reading
  <2>. QED BY <2>4, Zenon DEF EncodedInv
<1>. QED BY <1>7, <1>8, <1>9, <1>10, <1>11, <1>12, <1>13, Zenon DEF Next

---------------------------------------------------------------------------
(* Bytes that were not encoded: an item read from them is encoded again in *)
(* no more bytes, nor nested deeper, than it was read from.                *)

(* Bytes make a number of no more than their own size.                     *)
LEMMA NumberBound ==
  ASSUME NEW b \in Seq(Byte)
  PROVE  from_bytes(b) \in Nat /\ from_bytes(b) < pow2[8 * Len(b)]
<1>1. b \in Seq(Nat) /\ Len(b) \in Nat /\ \A n \in 1 .. Len(b) : b[n] \in Nat /\ b[n] < 256
  <2>1. \A y \in Byte : y \in Nat /\ y < 256
    BY DEF Byte
  <2>2. Len(b) \in Nat /\ \A n \in 1 .. Len(b) : b[n] \in Byte
    OBVIOUS
  <2>3. b \in Seq(Nat)
    BY <2>1, LargerSeq
  <2>. QED BY <2>1, <2>2, <2>3, Zenon
<1>2. PICK f \in [0 .. Len(b) -> Nat] :
           /\ from_bytes(b) = f[Len(b)]
           /\ f[0] = 0
           /\ \A n \in 0 .. Len(b) - 1 : f[n + 1] = f[n] * 256 + b[n + 1]
  BY <1>1, BytesSum, Zenon
<1> DEFINE T == {n \in Nat : n <= Len(b) => f[n] < pow2[8 * n]}
<1>3. 0 \in T
  <2>1. 8 * 0 = 0 /\ pow2[0] = 1
    BY PowersOfTwo
  <2>. QED BY <1>2, <2>1
<1>4. ASSUME NEW n \in Nat, n \in T PROVE n + 1 \in T
  <2> SUFFICES ASSUME n + 1 <= Len(b) PROVE f[n + 1] < pow2[8 * (n + 1)]
    OBVIOUS
  <2>1. n \in 0 .. Len(b) - 1 /\ n + 1 \in 1 .. Len(b) /\ n \in 0 .. Len(b) /\ n <= Len(b)
    BY <1>1
  <2> DEFINE v == f[n]
             w == f[n + 1]
             y == b[n + 1]
             P == pow2[8 * n]
             Q == pow2[8 * (n + 1)]
  <2>2. v \in Nat /\ v < P /\ w = v * 256 + y
    BY <1>2, <1>4, <2>1
  <2>3. y \in Nat /\ y < 256
    BY <1>1, <2>1
  <2>4. P \in Nat /\ Q = 256 * P
    BY ByteWeights
  <2> HIDE DEF v, w, y, P, Q
  <2>5. w < Q
    BY <2>2, <2>3, <2>4
  <2>. QED BY <2>5 DEF w, Q
<1>5. Len(b) \in T
  <2> HIDE DEF T
  <2>. QED BY <1>1, <1>3, <1>4, SetInduction
<1>. QED BY <1>1, <1>2, <1>5

(* A number needs no more bytes than it fits in.                           *)
LEMMA FewBytes ==
  ASSUME NEW m \in Nat, m < pow2[MAX_BITS], NEW l \in Nat, m < pow2[8 * l]
  PROVE  ByteLength(m) <= l
<1> DEFINE n == bit_length(m)
<1>1. n \in Nat /\ (n > 0 => pow2[n - 1] <= m)
  BY BitLength, SizesAssumption
<1> HIDE DEF n
<1>2. n <= 8 * l
  <2>1. ASSUME n > 8 * l PROVE FALSE
    <3>1. n > 0 /\ n - 1 \in Nat /\ 8 * l \in Nat /\ 8 * l <= n - 1
      BY <1>1, <2>1
    <3>2. pow2[8 * l] <= pow2[n - 1] /\ pow2[8 * l] \in Nat /\ pow2[n - 1] \in Nat
      BY <3>1, PowerMonotone, PowersOfTwo
    <3>. QED BY <1>1, <3>1, <3>2
  <2>. QED BY <1>1, <2>1
<1>3. (n + 7) \div 8 <= l
  BY <1>1, <1>2
<1>. QED BY <1>3 DEF ByteLength, n

(* A shorter payload has no longer a prefix.                               *)
LEMMA HeadShorter ==
  ASSUME NEW m \in Nat, NEW n \in Nat, m <= n, NEW offset \in Nat
  PROVE  /\ Len(rlp_encode_length(m, offset)) \in Nat \ {0}
         /\ Len(rlp_encode_length(n, offset)) \in Nat \ {0}
         /\ Len(rlp_encode_length(m, offset)) <= Len(rlp_encode_length(n, offset))
<1>1. /\ m < 56 => Len(rlp_encode_length(m, offset)) = 1
      /\ ~ (m < 56) => Len(rlp_encode_length(m, offset)) = 1 + ByteLength(m)
      /\ n < 56 => Len(rlp_encode_length(n, offset)) = 1
      /\ ~ (n < 56) => Len(rlp_encode_length(n, offset)) = 1 + ByteLength(n)
  BY LengthType
<1>2. ByteLength(m) \in Nat /\ ByteLength(n) \in Nat
  BY ByteLengthType
<1>3. ByteLength(m) <= ByteLength(n)
  <2>1. bit_length(m) <= bit_length(n) /\ bit_length(m) \in Nat /\ bit_length(n) \in Nat
    BY BitsMonotone, BitLengthType
  <2>. QED BY <2>1 DEF ByteLength
<1> DEFINE hm == Len(rlp_encode_length(m, offset))
           hn == Len(rlp_encode_length(n, offset))
<1>4. /\ m < 56 => hm = 1
      /\ ~ (m < 56) => hm = 1 + ByteLength(m)
      /\ n < 56 => hn = 1
      /\ ~ (n < 56) => hn = 1 + ByteLength(n)
  BY <1>1, Zenon
<1> HIDE DEF hm, hn
<1>5. hm \in Nat \ {0} /\ hn \in Nat \ {0} /\ hm <= hn
  BY <1>2, <1>3, <1>4
<1>. QED BY <1>5 DEF hm, hn

(* The lengths of a slice and of what follows it, as Python cuts them.     *)
LEMMA Slices ==
  ASSUME NEW S, NEW rest \in Seq(S), NEW i \in Nat, NEW j \in Nat, i <= j
  PROVE  /\ Slice(rest, i, j) \in Seq(S) /\ From(rest, j) \in Seq(S)
         /\ Len(Slice(rest, i, j)) \in Nat /\ Len(From(rest, j)) \in Nat /\ Len(rest) \in Nat
         /\ Len(Slice(rest, i, j)) <= j - i
         /\ i <= Len(rest) => i + Len(Slice(rest, i, j)) + Len(From(rest, j)) <= Len(rest)
         /\ i > Len(rest) => Len(Slice(rest, i, j)) = 0 /\ Len(From(rest, j)) = 0
<1> DEFINE L == Len(rest)
           e == IF j < L THEN j ELSE L
           b == SubSeq(rest, i + 1, e)
           c == SubSeq(rest, j + 1, L)
<1>1. L \in Nat
  OBVIOUS
<1>2. Slice(rest, i, j) = b
  BY Zenon DEF Slice
<1>3. From(rest, j) = c
  <2>1. (IF L < L THEN L ELSE L) = L
    OBVIOUS
  <2>. QED BY <2>1, Zenon DEF From, Slice
<1>4. e \in Nat /\ e <= L /\ e <= j /\ (j <= L => e = j) /\ (L <= j => e = L)
  BY <1>1
<1> HIDE DEF e
<1>5. b \in Seq(S) /\ Len(b) = (IF i + 1 <= e THEN e - i ELSE 0)
  BY <1>1, <1>4
<1>6. c \in Seq(S) /\ Len(c) = (IF j + 1 <= L THEN L - j ELSE 0)
  BY <1>1
<1> HIDE DEF b, c, L
<1>7. /\ Len(b) \in Nat /\ Len(c) \in Nat /\ Len(b) <= j - i
      /\ i <= L => i + Len(b) + Len(c) <= L
      /\ i > L => Len(b) = 0 /\ Len(c) = 0
  BY <1>1, <1>4, <1>5, <1>6
<1>. QED BY <1>1, <1>2, <1>3, <1>5, <1>6, <1>7, Zenon DEF L

(* Where a payload begins, and how long it is at most.                     *)
LEMMA PayloadIs ==
  ASSUME NEW rest \in Seq(Byte), rest # <<>>, ~ (rest[1] < 128)
  PROVE  \E start \in Nat \ {0}, length \in Nat :
           /\ Payload(rest) = [start |-> start, length |-> length]
           /\ \/ start = 1 /\ length < 56
              \/ length < pow2[8 * (start - 1)]
<1> DEFINE y == rest[1]
           d(n) == from_bytes(Slice(rest, 1, 1 + n))
<1>1. y \in 128 .. 255
  <2>1. y \in Byte
    OBVIOUS
  <2> HIDE DEF y
  <2>2. ~ (y < 128)
    BY DEF y
  <2>. QED BY <2>1, <2>2 DEF Byte
<1>2. ASSUME NEW n \in Nat PROVE d(n) \in Nat /\ d(n) < pow2[8 * n]
  <2> DEFINE b == Slice(rest, 1, 1 + n)
  <2>1. b \in Seq(Byte) /\ Len(b) \in Nat /\ Len(b) <= (1 + n) - 1
    <3>1. 1 \in Nat /\ 1 + n \in Nat /\ 1 <= 1 + n
      OBVIOUS
    <3>. QED BY <3>1, Slices
  <2> HIDE DEF b
  <2>2. from_bytes(b) \in Nat /\ from_bytes(b) < pow2[8 * Len(b)]
    BY <2>1, NumberBound
  <2>3. 8 * Len(b) \in Nat /\ 8 * n \in Nat /\ 8 * Len(b) <= 8 * n
    BY <2>1
  <2>4. pow2[8 * Len(b)] <= pow2[8 * n] /\ pow2[8 * Len(b)] \in Nat /\ pow2[8 * n] \in Nat
    BY <2>3, PowerMonotone, PowersOfTwo
  <2>5. from_bytes(b) < pow2[8 * n]
    BY <2>2, <2>4
  <2>. QED BY <2>2, <2>5, Zenon DEF b
<1> HIDE DEF y, d
<1>3. /\ y \in 128 .. 183 => Payload(rest) = [start |-> 1, length |-> y - 128]
      /\ y \in 184 .. 191 => Payload(rest) = [start |-> 1 + (y - 183), length |-> d(y - 183)]
      /\ y \in 192 .. 247 => Payload(rest) = [start |-> 1, length |-> y - 192]
      /\ y \in 248 .. 255 => Payload(rest) = [start |-> 1 + (y - 247), length |-> d(y - 247)]
  <2>1. ASSUME y \in 128 .. 183 PROVE Payload(rest) = [start |-> 1, length |-> y - 128]
    <3>1. ~ (y < 128) /\ ~ (y \in 184 .. 191) /\ ~ (y \in 192 .. 247)
      BY <2>1
    <3>. QED BY <2>1, <3>1 DEF Payload, y
  <2>2. ASSUME y \in 184 .. 191 PROVE Payload(rest) = [start |-> 1 + (y - 183), length |-> d(y - 183)]
    <3>1. ~ (y < 128) /\ ~ (y \in 128 .. 183) /\ ~ (y \in 192 .. 247)
      BY <2>2
    <3>. QED BY <2>2, <3>1 DEF Payload, y, d
  <2>3. ASSUME y \in 192 .. 247 PROVE Payload(rest) = [start |-> 1, length |-> y - 192]
    <3>1. ~ (y < 128) /\ ~ (y \in 128 .. 183) /\ ~ (y \in 184 .. 191)
      BY <2>3
    <3>. QED BY <2>3, <3>1 DEF Payload, y
  <2>4. ASSUME y \in 248 .. 255 PROVE Payload(rest) = [start |-> 1 + (y - 247), length |-> d(y - 247)]
    <3>1. ~ (y < 128) /\ ~ (y \in 128 .. 183) /\ ~ (y \in 184 .. 191) /\ ~ (y \in 192 .. 247)
      BY <2>4
    <3>. QED BY <3>1 DEF Payload, y, d
  <2>. QED BY <2>1, <2>2, <2>3, <2>4
<1>4. CASE y \in 128 .. 183
  <2>1. 1 \in Nat \ {0} /\ y - 128 \in Nat /\ y - 128 < 56
    BY <1>4
  <2>. QED BY <1>3, <1>4, <2>1
<1>5. CASE y \in 192 .. 247
  <2>1. 1 \in Nat \ {0} /\ y - 192 \in Nat /\ y - 192 < 56
    BY <1>5
  <2>. QED BY <1>3, <1>5, <2>1
<1>6. ASSUME NEW n \in Nat, Payload(rest) = [start |-> 1 + n, length |-> d(n)]
      PROVE  \E start \in Nat \ {0}, length \in Nat :
               /\ Payload(rest) = [start |-> start, length |-> length]
               /\ \/ start = 1 /\ length < 56
                  \/ length < pow2[8 * (start - 1)]
  <2>1. 1 + n \in Nat \ {0} /\ (1 + n) - 1 = n
    OBVIOUS
  <2>2. d(n) \in Nat /\ d(n) < pow2[8 * ((1 + n) - 1)]
    BY <1>2, <2>1
  <2>. QED BY <1>6, <2>1, <2>2, Zenon
<1>7. CASE y \in 184 .. 191
  <2>1. y - 183 \in Nat
    BY <1>7
  <2>2. Payload(rest) = [start |-> 1 + (y - 183), length |-> d(y - 183)]
    BY <1>3, <1>7
  <2>. QED BY <1>6, <2>1, <2>2, Zenon
<1>8. CASE y \in 248 .. 255
  <2>1. y - 247 \in Nat
    BY <1>8
  <2>2. Payload(rest) = [start |-> 1 + (y - 247), length |-> d(y - 247)]
    BY <1>3, <1>8
  <2>. QED BY <1>6, <2>1, <2>2, Zenon
<1>. QED BY <1>1, <1>4, <1>5, <1>7, <1>8

(* Whatever part of the payload is encoded again, its prefix is no longer  *)
(* than the one that was read.                                             *)
LEMMA PayloadShorter ==
  ASSUME NEW rest \in Seq(Byte), rest # <<>>, ~ (rest[1] < 128), Announced(Len(rest)),
         NEW offset \in Nat, NEW p, p = Payload(rest),
         NEW b, b = Slice(rest, p.start, p.start + p.length),
         NEW c, c = From(rest, p.start + p.length)
  PROVE  /\ b \in Seq(Byte) /\ c \in Seq(Byte) /\ Len(b) \in Nat /\ Len(c) \in Nat
         /\ Len(rlp_encode_length(Len(b), offset)) + Len(b) + Len(c) <= Len(rest)
<1>1. PICK start \in Nat \ {0}, length \in Nat :
           /\ Payload(rest) = [start |-> start, length |-> length]
           /\ \/ start = 1 /\ length < 56
              \/ length < pow2[8 * (start - 1)]
  BY PayloadIs, Zenon
<1>2. p.start = start /\ p.length = length
  BY <1>1
<1>3. start + length \in Nat /\ start <= start + length /\ (start + length) - start = length
  OBVIOUS
<1>4. /\ b \in Seq(Byte) /\ c \in Seq(Byte)
      /\ Len(b) \in Nat /\ Len(c) \in Nat /\ Len(rest) \in Nat
      /\ Len(b) <= length
      /\ start <= Len(rest) => start + Len(b) + Len(c) <= Len(rest)
      /\ start > Len(rest) => Len(b) = 0 /\ Len(c) = 0
  <2> DEFINE j == start + length
  <2>1. start \in Nat /\ j \in Nat /\ start <= j /\ j - start = length
    BY <1>3
  <2>2. b = Slice(rest, start, j) /\ c = From(rest, j)
    BY <1>2, Zenon
  <2> HIDE DEF j
  <2>3. Len(Slice(rest, start, j)) <= j - start
    BY <2>1, Slices, Zenon
  <2>4. /\ Slice(rest, start, j) \in Seq(Byte) /\ From(rest, j) \in Seq(Byte)
        /\ Len(Slice(rest, start, j)) \in Nat /\ Len(From(rest, j)) \in Nat /\ Len(rest) \in Nat
    BY <2>1, Slices, Zenon
  <2>5. start <= Len(rest) => start + Len(Slice(rest, start, j)) + Len(From(rest, j)) <= Len(rest)
    BY <2>1, Slices, Zenon
  <2>6. start > Len(rest) => Len(Slice(rest, start, j)) = 0 /\ Len(From(rest, j)) = 0
    BY <2>1, Slices, Zenon
  <2>. QED BY <2>1, <2>2, <2>3, <2>4, <2>5, <2>6, Zenon
<1> DEFINE n == Len(b)
           h == Len(rlp_encode_length(n, offset))
<1>5. /\ n < 56 => h = 1
      /\ ~ (n < 56) => h = 1 + ByteLength(n)
  <2>1. n \in Nat
    BY <1>4
  <2> HIDE DEF n
  <2>. QED BY <2>1, LengthType
<1>6. Len(rest) >= 1
  BY <1>4
<1>7. ByteLength(n) \in Nat
  BY ByteLengthType
<1>8. ASSUME start <= Len(rest) PROVE h <= start
  <2>1. CASE start = 1 /\ length < 56
    <3>1. n < 56
      BY <1>4, <2>1
    <3>2. h = 1
      BY <1>5, <3>1, Zenon
    <3> HIDE DEF h
    <3>. QED BY <2>1, <3>2
  <2>2. CASE length < pow2[8 * (start - 1)]
    <3>1. n < pow2[MAX_BITS]
      <4>1. n <= Len(rest)
        BY <1>4, <1>8
      <4>2. Announced(n)
        BY <1>4, <4>1, AnnouncedLess
      <4>. QED BY <4>2, Zenon DEF Announced
    <3>2. start - 1 \in Nat /\ 8 * (start - 1) \in Nat
      OBVIOUS
    <3>3. n < pow2[8 * (start - 1)]
      <4>1. pow2[8 * (start - 1)] \in Nat
        BY <3>2, PowersOfTwo
      <4>. QED BY <1>4, <2>2, <4>1
    <3>4. ByteLength(n) <= start - 1
      BY <1>4, <3>1, <3>2, <3>3, FewBytes
    <3> HIDE DEF h, n
    <3>. QED BY <1>5, <1>7, <3>4
  <2>. QED BY <1>1, <2>1, <2>2
<1>9. h + n + Len(c) <= Len(rest)
  <2> HIDE DEF h
  <2>1. CASE start <= Len(rest)
    <3>1. h <= start /\ start + n + Len(c) <= Len(rest)
      BY <1>4, <1>8, <2>1
    <3>2. h \in Nat
      BY <1>4, <1>5, <1>7
    <3>. QED BY <1>4, <3>1, <3>2
  <2>2. CASE start > Len(rest)
    BY <1>4, <1>5, <1>6, <2>2
  <2>. QED BY <1>4, <2>1, <2>2
<1>. QED BY <1>4, <1>9

(* Sums of lengths.                                                        *)
LEMMA SumBounds ==
  \A a, i, r, s \in Nat : a + i + r <= s => a <= s /\ r <= s
OBVIOUS

(* A part of a sum is replaced by a smaller one.                           *)
LEMMA SumReplaced ==
  \A a, i, r, s, x, q \in Nat : a + i + r <= s /\ x + q <= i + r => (a + x) + 0 + q <= s
OBVIOUS

(* The slice of the first byte.                                            *)
LEMMA FirstByte ==
  ASSUME NEW S, NEW rest \in Seq(S), rest # <<>>
  PROVE  Len(Slice(rest, 0, 1)) = 1 /\ Slice(rest, 0, 1)[1] = rest[1]
<1>1. Len(rest) \in Nat /\ Len(rest) >= 1
  OBVIOUS
<1>2. (IF 1 < Len(rest) THEN 1 ELSE Len(rest)) = 1 /\ 0 + 1 = 1
  <2>1. \A l \in Nat : l >= 1 => (IF 1 < l THEN 1 ELSE l) = 1
    OBVIOUS
  <2>2. 0 + 1 = 1
    OBVIOUS
  <2>. QED BY <1>1, <2>1, <2>2, Zenon
<1>3. Slice(rest, 0, 1) = SubSeq(rest, 1, 1)
  BY <1>2, Zenon DEF Slice
<1>. QED BY <1>1, <1>3

(* The bytes of an item appended to a list.                                *)
LEMMA AppendCode ==
  ASSUME NEW out \in Seq(Item), NEW x \in Item
  PROVE  /\ Append(out, x) \in Seq(Item)
         /\ Len(After(out, 0)) \in Nat /\ Len(rlp_encode(x)) \in Nat
         /\ Len(After(Append(out, x), 0)) = Len(After(out, 0)) + Len(rlp_encode(x))
<1> DEFINE w == Append(out, x)
           j == Len(out)
<1>1. /\ w \in Seq(Item) /\ Len(w) = j + 1 /\ j \in Nat /\ w[j + 1] = x
      /\ \A k \in 1 .. j : w[k] = out[k]
  OBVIOUS
<1> HIDE DEF w
<1>2. /\ 0 \in 0 .. Len(out) /\ j \in 0 .. Len(out) /\ j \in 0 .. Len(w) /\ j < Len(w) /\ 0 \in 0 .. Len(w)
      /\ j + 1 \in 0 .. Len(w)
  BY <1>1
<1>3. After(out, 0) = Before(out, j)
  <2>1. Before(out, j) \in Seq(Nat)
    BY <1>2, Coded
  <2>2. After(out, 0) = Before(out, j) \o After(out, j)
    BY <1>2, SplitCode, Zenon
  <2>3. After(out, j) = <<>>
    BY AllAfter, Zenon
  <2>. QED BY <2>1, <2>2, <2>3, JoinedEmpty
<1>4. Before(w, j) = Before(out, j)
  <2>1. FrontCodes(w, j) = FrontCodes(out, j)
    BY <1>1, Zenon DEF FrontCodes
  <2>. QED BY <2>1, Zenon DEF Before
<1>5. rlp_encode(x) \in Seq(Nat) /\ After(w, j) = rlp_encode(x)
  <2>1. /\ rlp_encode(w[j + 1]) \in Seq(Nat)
        /\ After(w, j) = rlp_encode(w[j + 1]) \o After(w, j + 1)
    BY <1>1, <1>2, NextCode, Zenon
  <2>2. After(w, j + 1) = <<>>
    BY <1>1, AllAfter, Zenon
  <2>. QED BY <1>1, <2>1, <2>2, JoinedEmpty
<1>6. After(w, 0) = After(out, 0) \o rlp_encode(x)
  BY <1>1, <1>2, <1>3, <1>4, <1>5, SplitCode, Zenon
<1>7. After(out, 0) \in Seq(Nat)
  BY <1>2, Coded
<1>8. Len(After(w, 0)) = Len(After(out, 0)) + Len(rlp_encode(x))
      /\ Len(After(out, 0)) \in Nat /\ Len(rlp_encode(x)) \in Nat
  BY <1>5, <1>6, <1>7, JoinedNumbers
<1>. QED BY <1>1, <1>8, Zenon DEF w

(* The items of a frame, encoded again, what is kept for the list that is  *)
(* read in it, and the bytes left are not more than it began with.         *)
ByteFrames == [rest : Seq(Byte), out : Seq(Item)]
Held(f, size, inner) ==
  /\ f \in ByteFrames /\ f.out \in Seq(Deep(size))
  /\ size \in Nat /\ size <= MAX_NESTING /\ Announced(size)
  /\ Len(After(f.out, 0)) + inner + Len(f.rest) <= size

(* The longest that a list of so many bytes is encoded.                    *)
ListLength(size) == Len(rlp_encode_length(size, 192)) + size

(* A frame of bytes and items.                                             *)
LEMMA ByteFrameIs ==
  ASSUME NEW rest \in Seq(Byte), NEW out \in Seq(Item)
  PROVE  /\ Frame(rest, out) \in ByteFrames
         /\ Frame(rest, out).rest = rest /\ Frame(rest, out).out = out
BY DEF ByteFrames, Frame

(* What Held says, with the types that follow.                             *)
LEMMA HeldIs ==
  ASSUME NEW f, NEW size, NEW inner \in Nat, Held(f, size, inner)
  PROVE  /\ f.rest \in Seq(Byte) /\ f.out \in Seq(Item) /\ f.out \in Seq(Deep(size))
         /\ Len(f.rest) \in Nat /\ After(f.out, 0) \in Seq(Nat) /\ Len(After(f.out, 0)) \in Nat
         /\ size \in Nat /\ size <= MAX_NESTING /\ Announced(size)
         /\ Len(After(f.out, 0)) + inner + Len(f.rest) <= size
         /\ Announced(Len(f.rest)) /\ Announced(Len(After(f.out, 0)))
         /\ Deep(size) \subseteq Item
<1>1. f.rest \in Seq(Byte) /\ f.out \in Seq(Item) /\ Len(f.rest) \in Nat
  BY DEF Held, ByteFrames
<1>2. After(f.out, 0) \in Seq(Nat) /\ Len(After(f.out, 0)) \in Nat
  <2>1. 0 \in 0 .. Len(f.out)
    BY <1>1
  <2>2. After(f.out, 0) \in Seq(Nat)
    BY <1>1, <2>1, Coded
  <2>. QED BY <2>2
<1>3. /\ size \in Nat /\ size <= MAX_NESTING /\ Announced(size) /\ f.out \in Seq(Deep(size))
      /\ Len(After(f.out, 0)) + inner + Len(f.rest) <= size
  BY Zenon DEF Held
<1>4. Len(f.rest) <= size /\ Len(After(f.out, 0)) <= size
  BY <1>1, <1>2, <1>3, SumBounds, Zenon
<1>5. Announced(Len(f.rest)) /\ Announced(Len(After(f.out, 0)))
  BY <1>1, <1>2, <1>3, <1>4, AnnouncedLess, Zenon
<1>6. Deep(size) \subseteq Item
  BY <1>3, SizesAssumption, Deeper, Zenon DEF Item
<1>. QED BY <1>1, <1>2, <1>3, <1>5, <1>6, Zenon

(* An item that is appended in place of the bytes it was read from.        *)
LEMMA HoldItem ==
  ASSUME NEW f, NEW size, NEW inner \in Nat, Held(f, size, inner),
         NEW x \in Deep(size), NEW rest \in Seq(Byte),
         Len(rlp_encode(x)) + Len(rest) <= inner + Len(f.rest)
  PROVE  Held(Frame(rest, Append(f.out, x)), size, 0)
<1>1. /\ f.out \in Seq(Item) /\ f.out \in Seq(Deep(size))
      /\ Len(f.rest) \in Nat /\ Len(After(f.out, 0)) \in Nat
      /\ size \in Nat /\ size <= MAX_NESTING /\ Announced(size)
      /\ Len(After(f.out, 0)) + inner + Len(f.rest) <= size
      /\ Deep(size) \subseteq Item
  BY HeldIs, Zenon
<1> DEFINE out == Append(f.out, x)
<1>2. x \in Item
  BY <1>1
<1>3. /\ out \in Seq(Item) /\ Len(rlp_encode(x)) \in Nat
      /\ Len(After(out, 0)) = Len(After(f.out, 0)) + Len(rlp_encode(x))
  BY <1>1, <1>2, AppendCode, Zenon
<1>4. out \in Seq(Deep(size))
  <2> DEFINE S == Deep(size)
  <2>1. f.out \in Seq(S) /\ x \in S
    BY <1>1, Zenon
  <2> HIDE DEF S
  <2>2. out \in Seq(S)
    BY <2>1
  <2>. QED BY <2>2 DEF S
<1> HIDE DEF out
<1>5. Len(After(out, 0)) + 0 + Len(rest) <= size
  <2>1. Len(rest) \in Nat
    OBVIOUS
  <2>2. (Len(After(f.out, 0)) + Len(rlp_encode(x))) + 0 + Len(rest) <= size
    BY <1>1, <1>3, <2>1, SumReplaced, Zenon
  <2>. QED BY <1>3, <2>2, Zenon
<1>6. /\ Frame(rest, out) \in ByteFrames
      /\ Frame(rest, out).rest = rest /\ Frame(rest, out).out = out
  BY <1>3, ByteFrameIs, Zenon
<1>. QED BY <1>1, <1>4, <1>5, <1>6, Zenon DEF Held, out

(* A byte string is encoded with a prefix at most.                         *)
LEMMA BytesLength ==
  ASSUME NEW b \in Seq(Byte)
  PROVE  /\ Len(rlp_encode_bytes(b)) \in Nat
         /\ Len(b) = 1 /\ b[1] < 128 => Len(rlp_encode_bytes(b)) = 1
         /\ Len(rlp_encode_bytes(b)) <= Len(rlp_encode_length(Len(b), 128)) + Len(b)
<1>1. b \in Seq(Nat) /\ Len(b) \in Nat
  <2>1. Byte \subseteq Nat
    BY DEF Byte
  <2>. QED BY <2>1, LargerSeq
<1> DEFINE head == rlp_encode_length(Len(b), 128)
<1>2. head \in Seq(Nat)
  <2>1. 128 \in Nat
    OBVIOUS
  <2>. QED BY <1>1, <2>1, LengthType, Zenon
<1> HIDE DEF head
<1>3. /\ Len(head \o b) = Len(head) + Len(b) /\ Len(head) \in Nat
  BY <1>1, <1>2, JoinedNumbers
<1>4. rlp_encode_bytes(b) = IF Len(b) = 1 /\ b[1] < 128 THEN b ELSE head \o b
  BY Zenon DEF rlp_encode_bytes, head
<1>5. CASE Len(b) = 1 /\ b[1] < 128
  <2>1. rlp_encode_bytes(b) = b
    BY <1>4, <1>5, Zenon
  <2>2. Len(rlp_encode_bytes(b)) = 1
    BY <1>5, <2>1, Zenon
  <2>. QED BY <1>1, <1>3, <1>5, <2>2 DEF head
<1>6. CASE ~ (Len(b) = 1 /\ b[1] < 128)
  <2>1. rlp_encode_bytes(b) = head \o b
    BY <1>4, <1>6, Zenon
  <2>. QED BY <1>1, <1>3, <1>6, <2>1 DEF head
<1>. QED BY <1>5, <1>6

(* A byte string that is read.                                             *)
LEMMA HoldBytes ==
  ASSUME NEW f, NEW size, Held(f, size, 0), f.rest # <<>>, f.rest[1] < 192
  PROVE  Held(BytesFrame(f), size, 0)
<1> DEFINE rest == f.rest
           p == Payload(rest)
           b == Slice(rest, p.start, p.start + p.length)
           c == From(rest, p.start + p.length)
           x == Bytes(b)
<1>0. 0 \in Nat
  OBVIOUS
<1>1. /\ rest \in Seq(Byte) /\ f.out \in Seq(Item)
      /\ Len(rest) \in Nat /\ Len(After(f.out, 0)) \in Nat
      /\ size \in Nat /\ size <= MAX_NESTING /\ Announced(Len(rest))
      /\ Len(After(f.out, 0)) + 0 + Len(rest) <= size
  BY <1>0, HeldIs, Zenon
<1> HIDE DEF rest
<1>2. size # 0 /\ 1 <= size /\ 1 \in Nat /\ MAX_NESTING # 0 /\ rest # <<>>
  <2>1. rest # <<>>
    BY DEF rest
  <2>. QED BY <1>1, <2>1, SizesAssumption
<1>3. b \in Seq(Byte) /\ c \in Seq(Byte) /\ Len(rlp_encode_bytes(b)) + Len(c) <= Len(rest)
  <2>1. CASE rest[1] < 128
    <3>1. p = [start |-> 0, length |-> 1]
      <4>1. rest[1] \in Nat
        <5>1. rest[1] \in Byte
          BY <1>1, <1>2
        <5>2. \A y \in Byte : y \in Nat
          BY DEF Byte
        <5>. QED BY <5>1, <5>2, Zenon
      <4>. QED BY <2>1, <4>1, SmallByte, Zenon
    <3>2. b = Slice(rest, 0, 1) /\ c = From(rest, 1)
      <4>1. p.start = 0 /\ p.start + p.length = 1
        BY <3>1
      <4>. QED BY <4>1, Zenon
    <3> HIDE DEF b, c, p
    <3>3. /\ b \in Seq(Byte) /\ c \in Seq(Byte) /\ Len(b) \in Nat /\ Len(c) \in Nat
          /\ 0 + Len(b) + Len(c) <= Len(rest)
      <4>1. 0 \in Nat /\ 1 \in Nat /\ 0 <= 1 /\ 0 <= Len(rest)
        BY <1>1
      <4>2. /\ Slice(rest, 0, 1) \in Seq(Byte) /\ From(rest, 1) \in Seq(Byte)
            /\ Len(Slice(rest, 0, 1)) \in Nat /\ Len(From(rest, 1)) \in Nat
            /\ 0 + Len(Slice(rest, 0, 1)) + Len(From(rest, 1)) <= Len(rest)
        BY <1>1, <4>1, Slices, Zenon
      <4>. QED BY <3>2, <4>2, Zenon
    <3>4. Len(b) = 1 /\ b[1] = rest[1]
      BY <1>1, <1>2, <3>2, FirstByte, Zenon
    <3>5. Len(rlp_encode_bytes(b)) = 1
      BY <2>1, <3>3, <3>4, BytesLength, Zenon
    <3>. QED BY <1>1, <3>3, <3>4, <3>5
  <2>2. CASE ~ (rest[1] < 128)
    <3>1. 128 \in Nat
      OBVIOUS
    <3> HIDE DEF b, c, p
    <3>2. p = Payload(rest) /\ b = Slice(rest, p.start, p.start + p.length)
          /\ c = From(rest, p.start + p.length)
      BY DEF p, b, c
    <3>3. /\ b \in Seq(Byte) /\ c \in Seq(Byte) /\ Len(b) \in Nat /\ Len(c) \in Nat
          /\ Len(rlp_encode_length(Len(b), 128)) + Len(b) + Len(c) <= Len(rest)
      BY <1>1, <1>2, <2>2, <3>1, <3>2, PayloadShorter
    <3>4. /\ Len(rlp_encode_bytes(b)) \in Nat
          /\ Len(rlp_encode_bytes(b)) <= Len(rlp_encode_length(Len(b), 128)) + Len(b)
      BY <3>3, BytesLength, Zenon
    <3>5. Len(rlp_encode_length(Len(b), 128)) \in Nat
      BY <3>1, <3>3, HeadShorter
    <3>. QED BY <1>1, <3>3, <3>4, <3>5
  <2>. QED BY <2>1, <2>2
<1>4. x \in Deep(size) /\ rlp_encode(x) = rlp_encode_bytes(b)
  <2> HIDE DEF b
  <2>1. x \in Deep(1) /\ rlp_encode(x) = rlp_encode_bytes(b)
    BY <1>2, <1>3, BytesCode, Zenon
  <2>2. Deep(1) \subseteq Deep(size)
    BY <1>1, <1>2, Deeper, Zenon
  <2>. QED BY <2>1, <2>2, Zenon
<1> HIDE DEF x
<1>5. BytesFrame(f) = Frame(c, Append(f.out, x))
  BY Zenon DEF BytesFrame, rest, x
<1>6. Len(rlp_encode(x)) + Len(c) <= 0 + Len(f.rest)
  <2>1. 0 + Len(rest) = Len(rest)
    BY <1>1
  <2>. QED BY <1>3, <1>4, <2>1, Zenon DEF rest
<1> HIDE DEF c
<1>. QED BY <1>0, <1>3, <1>4, <1>5, <1>6, HoldItem, Zenon

(* A list that is opened: part of the bytes go to its own frame.           *)
LEMMA HoldList ==
  ASSUME NEW f, NEW size, Held(f, size, 0), f.rest # <<>>, f.rest[1] >= 192
  PROVE  \E t : Held(OuterFrame(f), size, ListLength(t)) /\ Held(InnerFrame(f), t, 0) /\ t \in Nat
<1> DEFINE rest == f.rest
           p == Payload(rest)
           b == Slice(rest, p.start, p.start + p.length)
           c == From(rest, p.start + p.length)
           t == Len(b)
<1>0. 0 \in Nat /\ 192 \in Nat
  OBVIOUS
<1>1. /\ rest \in Seq(Byte) /\ f.out \in Seq(Item) /\ f.out \in Seq(Deep(size))
      /\ Len(rest) \in Nat /\ Len(After(f.out, 0)) \in Nat
      /\ size \in Nat /\ size <= MAX_NESTING /\ Announced(size) /\ Announced(Len(rest))
      /\ Len(After(f.out, 0)) + 0 + Len(rest) <= size
  BY <1>0, HeldIs, Zenon
<1> HIDE DEF rest
<1>2. rest # <<>> /\ ~ (rest[1] < 128)
  <2>1. rest # <<>> /\ rest[1] >= 192
    BY DEF rest
  <2>2. rest[1] \in Byte
    BY <1>1, <2>1
  <2>3. \A y \in Byte : y >= 192 => ~ (y < 128)
    BY DEF Byte
  <2>. QED BY <2>1, <2>2, <2>3, Zenon
<1> HIDE DEF b, c, p
<1>3. /\ b \in Seq(Byte) /\ c \in Seq(Byte) /\ Len(b) \in Nat /\ Len(c) \in Nat
      /\ Len(rlp_encode_length(Len(b), 192)) + Len(b) + Len(c) <= Len(rest)
  <2>1. p = Payload(rest) /\ b = Slice(rest, p.start, p.start + p.length)
        /\ c = From(rest, p.start + p.length)
    BY DEF p, b, c
  <2>. QED BY <1>0, <1>1, <1>2, <2>1, PayloadShorter
<1>4. Len(rlp_encode_length(t, 192)) \in Nat /\ ListLength(t) \in Nat
  <2>1. Len(rlp_encode_length(t, 192)) \in Nat
    BY <1>0, <1>3, HeadShorter
  <2>. QED BY <1>3, <2>1 DEF ListLength
<1>5. OuterFrame(f) = Frame(c, f.out) /\ InnerFrame(f) = Frame(b, <<>>)
  BY Zenon DEF OuterFrame, InnerFrame, rest, b, c, p
<1>6. Held(Frame(c, f.out), size, ListLength(t))
  <2>1. Frame(c, f.out) \in ByteFrames /\ Frame(c, f.out).rest = c /\ Frame(c, f.out).out = f.out
    BY <1>1, <1>3, ByteFrameIs, Zenon
  <2>2. Len(After(f.out, 0)) + ListLength(t) + Len(c) <= size
    BY <1>1, <1>3, <1>4 DEF ListLength
  <2>. QED BY <1>1, <2>1, <2>2, Zenon DEF Held
<1>7. Held(Frame(b, <<>>), t, 0)
  <2>1. <<>> \in Seq(Item) /\ <<>> \in Seq(Deep(t)) /\ Len(<<>>) = 0
    OBVIOUS
  <2>2. Frame(b, <<>>) \in ByteFrames /\ Frame(b, <<>>).rest = b /\ Frame(b, <<>>).out = <<>>
    BY <1>3, <2>1, ByteFrameIs, Zenon
  <2>3. After(<<>>, 0) = <<>>
    BY <2>1, AllAfter, Zenon
  <2>4. t \in Nat /\ t <= size /\ t <= MAX_NESTING
    BY <1>1, <1>3, <1>4, SizesAssumption
  <2>5. Announced(t)
    BY <1>1, <2>4, AnnouncedLess, Zenon
  <2>6. Len(After(<<>>, 0)) + 0 + Len(b) <= t
    BY <1>3, <2>1, <2>3
  <2>. QED BY <2>1, <2>2, <2>4, <2>5, <2>6, Zenon DEF Held
<1>. QED BY <1>3, <1>5, <1>6, <1>7, Zenon

(* A list that ends.                                                       *)
LEMMA HoldClose ==
  ASSUME NEW f, NEW size, NEW t \in Nat, Held(f, size, ListLength(t)), NEW h, Held(h, t, 0)
  PROVE  Held(ClosedFrame(f, h), size, 0)
<1>0. 0 \in Nat /\ 192 \in Nat
  OBVIOUS
<1>1. /\ h.out \in Seq(Item) /\ h.out \in Seq(Deep(t)) /\ Len(h.rest) \in Nat
      /\ After(h.out, 0) \in Seq(Nat) /\ Len(After(h.out, 0)) \in Nat
      /\ Len(After(h.out, 0)) + 0 + Len(h.rest) <= t
  BY <1>0, HeldIs, Zenon
<1> DEFINE m == Len(After(h.out, 0))
           x == List(h.out)
<1>2. m \in Nat /\ m <= t
  BY <1>0, <1>1, SumBounds, Zenon
<1>3. /\ Len(rlp_encode_length(m, 192)) \in Nat \ {0}
      /\ Len(rlp_encode_length(t, 192)) \in Nat \ {0}
      /\ Len(rlp_encode_length(m, 192)) <= Len(rlp_encode_length(t, 192))
  <2> HIDE DEF m
  <2>. QED BY <1>0, <1>2, HeadShorter
<1>4. ListLength(t) \in Nat /\ t + 1 <= ListLength(t)
  BY <1>3 DEF ListLength
<1>5. /\ f.rest \in Seq(Byte) /\ f.out \in Seq(Item) /\ Len(f.rest) \in Nat
      /\ Len(After(f.out, 0)) \in Nat /\ size \in Nat /\ size <= MAX_NESTING
      /\ Len(After(f.out, 0)) + ListLength(t) + Len(f.rest) <= size
  BY <1>4, HeldIs, Zenon
<1>6. t + 1 \in Nat /\ t + 1 <= size /\ t + 1 <= MAX_NESTING
  BY <1>4, <1>5, SizesAssumption
<1>7. x \in Deep(t + 1) /\ rlp_encode(x) = rlp_encode_length(m, 192) \o After(h.out, 0)
  BY <1>1, <1>6, ListCode, Zenon
<1>8. x \in Deep(size)
  <2>1. Deep(t + 1) \subseteq Deep(size)
    BY <1>5, <1>6, Deeper, Zenon
  <2> HIDE DEF x
  <2>. QED BY <1>7, <2>1, Zenon
<1>9. Len(rlp_encode(x)) = Len(rlp_encode_length(m, 192)) + m
  <2>1. rlp_encode_length(m, 192) \in Seq(Nat)
    <3> HIDE DEF m
    <3>. QED BY <1>0, <1>2, LengthType, Zenon
  <2>2. Len(rlp_encode_length(m, 192) \o After(h.out, 0)) = Len(rlp_encode_length(m, 192)) + m
    BY <1>1, <2>1, JoinedNumbers, Zenon
  <2>. QED BY <1>7, <2>2, Zenon
<1> HIDE DEF x, m
<1>10. Len(rlp_encode(x)) + Len(f.rest) <= ListLength(t) + Len(f.rest)
  BY <1>2, <1>3, <1>5, <1>9 DEF ListLength
<1>11. ClosedFrame(f, h) = Frame(f.rest, Append(f.out, x))
  BY Zenon DEF ClosedFrame, x
<1>. QED BY <1>4, <1>5, <1>8, <1>10, <1>11, HoldItem, Zenon

(* What is read fits.                                                      *)
LEMMA HoldFits ==
  ASSUME NEW f, NEW size, Held(f, size, 0), f.out # <<>>
  PROVE  Fits(f.out[1])
<1>0. 0 \in Nat
  OBVIOUS
<1>1. f.out \in Seq(Item) /\ Announced(Len(After(f.out, 0))) /\ Len(After(f.out, 0)) \in Nat
  BY <1>0, HeldIs, Zenon
<1>2. 1 \in 1 .. Len(f.out) /\ f.out[1] \in Item
  BY <1>1
<1>3. Len(rlp_encode(f.out[1])) \in Nat /\ Len(rlp_encode(f.out[1])) <= Len(After(f.out, 0))
  BY <1>1, <1>2, PartsLength
<1>4. Announced(Len(rlp_encode(f.out[1])))
  BY <1>1, <1>3, AnnouncedLess, Zenon
<1>. QED BY <1>2, <1>4, Zenon DEF Fits, Item, Deep

(* The frames of a stack, each with the size it began with, and what is    *)
(* kept for the list that the next one reads.                              *)
Inside(size, k) == IF k = Len(size) THEN 0 ELSE ListLength(size[k + 1])
Sized(s, size) ==
  /\ s \in Seq(ByteFrames) /\ s # <<>> /\ size \in Seq(Nat) /\ Len(size) = Len(s)
  /\ \A k \in 1 .. Len(s) : Held(s[k], size[k], Inside(size, k))

SizedParts(s, size) ==
  /\ Len(s) \in Nat \ {0} /\ Len(s) \in 1 .. Len(s) /\ Len(size) = Len(s)
  /\ s \in Seq(ByteFrames) /\ size \in Seq(Nat)
  /\ \A k \in 1 .. Len(s) : s[k] \in ByteFrames /\ size[k] \in Nat
  /\ \A k \in 1 .. Len(s) : Held(s[k], size[k], Inside(size, k))
  /\ Held(s[Len(s)], size[Len(s)], 0)

(* A sized stack has these parts.                                          *)
LEMMA SizedIs ==
  ASSUME NEW s, NEW size, Sized(s, size)
  PROVE  SizedParts(s, size)
<1>1. /\ s \in Seq(ByteFrames) /\ s # <<>> /\ size \in Seq(Nat) /\ Len(size) = Len(s)
      /\ \A k \in 1 .. Len(s) : Held(s[k], size[k], Inside(size, k))
  BY Zenon DEF Sized
<1>2. /\ Len(s) \in Nat \ {0} /\ Len(s) \in 1 .. Len(s)
      /\ \A k \in 1 .. Len(s) : s[k] \in ByteFrames /\ size[k] \in Nat
  BY <1>1
<1>3. Held(s[Len(s)], size[Len(s)], 0)
  BY <1>1, <1>2, Zenon DEF Inside
<1>. QED BY <1>1, <1>2, <1>3, Zenon DEF SizedParts

(* A held frame is a frame of bytes.                                       *)
LEMMA HeldFrame ==
  ASSUME NEW f, NEW size, NEW inner, Held(f, size, inner)
  PROVE  f \in ByteFrames /\ size \in Nat
BY Zenon DEF Held

(* A step of DecodeBytes keeps the sizes.                                  *)
LEMMA SizedBytes ==
  ASSUME NEW s, NEW size, Sized(s, size), s[Len(s)].rest # <<>>, s[Len(s)].rest[1] < 192
  PROVE  Sized(Append(SubSeq(s, 1, Len(s) - 1), BytesFrame(s[Len(s)])), size)
<1> DEFINE n == Len(s)
           m == n - 1
           g == BytesFrame(s[n])
           t == Append(SubSeq(s, 1, m), g)
<1>1. /\ n \in Nat \ {0} /\ Len(size) = n /\ s \in Seq(ByteFrames) /\ size \in Seq(Nat)
      /\ \A k \in 1 .. n : Held(s[k], size[k], Inside(size, k))
      /\ Held(s[n], size[n], 0)
  <2>1. SizedParts(s, size)
    BY SizedIs, Zenon
  <2>. QED BY <2>1, Zenon DEF SizedParts
<1>2. m \in Nat /\ m <= Len(s) /\ m + 1 = n /\ \A k \in 1 .. n : k = n \/ k \in 1 .. m
  BY <1>1
<1>3. g \in ByteFrames /\ Held(g, size[n], 0)
  <2>1. Held(g, size[n], 0)
    BY <1>1, HoldBytes, Zenon
  <2>. QED BY <2>1, HeldFrame, Zenon
<1> HIDE DEF g, m
<1>4. t \in Seq(ByteFrames) /\ Len(t) = m + 1 /\ t[m + 1] = g /\ \A k \in 1 .. m : t[k] = s[k]
  <2>1. s \in Seq(ByteFrames) /\ m \in Nat /\ m <= Len(s) /\ g \in ByteFrames
    BY <1>1, <1>2, <1>3, Zenon
  <2>2. t = Append(SubSeq(s, 1, m), g)
    BY Zenon
  <2> HIDE DEF n, t
  <2>. QED BY <2>1, <2>2, PutTop
<1> HIDE DEF t
<1>5. Len(t) = n /\ t # <<>> /\ t[n] = g
  BY <1>1, <1>2, <1>4
<1>6. ASSUME NEW k \in 1 .. n PROVE Held(t[k], size[k], Inside(size, k))
  <2>1. CASE k = n
    <3>1. Inside(size, n) = 0
      BY <1>1, Zenon DEF Inside
    <3>. QED BY <1>3, <1>5, <2>1, <3>1, Zenon
  <2>2. CASE k \in 1 .. m
    BY <1>1, <1>4, <2>2, Zenon
  <2>. QED BY <1>2, <2>1, <2>2, Zenon
<1>7. Sized(t, size)
  <2> HIDE DEF n
  <2>. QED BY <1>1, <1>4, <1>5, <1>6, Zenon DEF Sized
<1>. QED BY <1>7, Zenon DEF t, g, m

(* DecodeList gives the new list the size of its bytes.                    *)
LEMMA SizedList ==
  ASSUME NEW s, NEW size, Sized(s, size), s[Len(s)].rest # <<>>, s[Len(s)].rest[1] >= 192
  PROVE  \E more : Sized(SubSeq(s, 1, Len(s) - 1) \o <<OuterFrame(s[Len(s)]), InnerFrame(s[Len(s)])>>, more)
<1> DEFINE n == Len(s)
           m == n - 1
           g == OuterFrame(s[n])
           h == InnerFrame(s[n])
           t == SubSeq(s, 1, m) \o <<g, h>>
<1>1. /\ n \in Nat \ {0} /\ Len(size) = n /\ s \in Seq(ByteFrames) /\ size \in Seq(Nat)
      /\ \A k \in 1 .. n : Held(s[k], size[k], Inside(size, k))
      /\ Held(s[n], size[n], 0)
  <2>1. SizedParts(s, size)
    BY SizedIs, Zenon
  <2>. QED BY <2>1, Zenon DEF SizedParts
<1>2. /\ m \in Nat /\ m <= Len(s) /\ m + 1 = n /\ m + 2 = n + 1
      /\ \A k \in 1 .. n + 1 : k = n + 1 \/ k = n \/ k \in 1 .. m
  BY <1>1
<1>3. PICK i \in Nat : Held(g, size[n], ListLength(i)) /\ Held(h, i, 0)
  BY <1>1, HoldList, Zenon
<1>4. g \in ByteFrames /\ h \in ByteFrames
  BY <1>3, HeldFrame, Zenon
<1> HIDE DEF g, h, m
<1>5. /\ t \in Seq(ByteFrames) /\ Len(t) = m + 2 /\ t[m + 1] = g /\ t[m + 2] = h
      /\ \A k \in 1 .. m : t[k] = s[k]
  <2>1. s \in Seq(ByteFrames) /\ m \in Nat /\ m <= Len(s) /\ g \in ByteFrames /\ h \in ByteFrames
    BY <1>1, <1>2, <1>4, Zenon
  <2>2. t = SubSeq(s, 1, m) \o <<g, h>>
    BY Zenon
  <2> HIDE DEF n, t
  <2>. QED BY <2>1, <2>2, PutTwo
<1> HIDE DEF t
<1>6. Len(t) = n + 1 /\ t # <<>> /\ t[n] = g /\ t[n + 1] = h
  BY <1>1, <1>2, <1>5
<1> DEFINE u == Append(size, i)
<1>7. /\ u \in Seq(Nat) /\ Len(u) = n + 1 /\ u[n + 1] = i /\ \A k \in 1 .. n : u[k] = size[k]
  <2>1. n \in Nat /\ Len(size) = n /\ size \in Seq(Nat) /\ i \in Nat
    BY <1>1, Zenon
  <2> HIDE DEF n
  <2>. QED BY <2>1
<1> HIDE DEF u
<1>8. ASSUME NEW k \in 1 .. n + 1 PROVE Held(t[k], u[k], Inside(u, k))
  <2>1. CASE k = n + 1
    <3>1. Inside(u, n + 1) = 0
      BY <1>7, Zenon DEF Inside
    <3>. QED BY <1>3, <1>6, <1>7, <2>1, <3>1, Zenon
  <2>2. CASE k = n
    <3>1. n # n + 1 /\ n \in 1 .. n
      BY <1>1
    <3>2. Inside(u, n) = ListLength(i)
      BY <1>7, <3>1, Zenon DEF Inside
    <3>. QED BY <1>3, <1>6, <1>7, <2>2, <3>1, <3>2, Zenon
  <2>3. CASE k \in 1 .. m
    <3>1. k # n /\ k # n + 1 /\ k \in 1 .. n /\ k + 1 \in 1 .. n
      BY <1>2, <2>3
    <3>2. Inside(u, k) = Inside(size, k)
      BY <1>1, <1>7, <3>1, Zenon DEF Inside
    <3>. QED BY <1>1, <1>5, <1>7, <2>3, <3>1, <3>2, Zenon
  <2>. QED BY <1>2, <2>1, <2>2, <2>3, Zenon
<1>9. Sized(t, u)
  <2> HIDE DEF n
  <2>. QED BY <1>5, <1>6, <1>7, <1>8, Zenon DEF Sized
<1>. QED BY <1>9, Zenon DEF t, g, h, m

(* ListEnds leaves room for the list in the one around it.                 *)
LEMMA SizedClose ==
  ASSUME NEW s, NEW size, Sized(s, size), Len(s) # 1
  PROVE  \E less : Sized(Append(SubSeq(s, 1, Len(s) - 2), ClosedFrame(s[Len(s) - 1], s[Len(s)])), less)
<1> DEFINE n == Len(s)
           b == n - 1
           m == n - 2
           g == ClosedFrame(s[b], s[n])
           t == Append(SubSeq(s, 1, m), g)
<1>1. /\ n \in Nat \ {0} /\ Len(size) = n /\ s \in Seq(ByteFrames) /\ size \in Seq(Nat)
      /\ \A k \in 1 .. n : s[k] \in ByteFrames /\ size[k] \in Nat
      /\ \A k \in 1 .. n : Held(s[k], size[k], Inside(size, k))
      /\ Held(s[n], size[n], 0)
  <2>1. SizedParts(s, size)
    BY SizedIs, Zenon
  <2>. QED BY <2>1, Zenon DEF SizedParts
<1>2. /\ m \in Nat /\ m <= Len(s) /\ m + 1 = b /\ b + 1 = n /\ b \in 1 .. n /\ n \in 1 .. n /\ b # n
      /\ b \in Nat /\ b <= n /\ \A k \in 1 .. b : k \in 1 .. n /\ (k = b \/ k \in 1 .. m)
  <2>1. n \in Nat \ {0} /\ n # 1 /\ n = Len(s)
    BY <1>1, Zenon
  <2> HIDE DEF n
  <2>. QED BY <2>1
<1>3. g \in ByteFrames /\ Held(g, size[b], 0)
  <2>1. Inside(size, b) = ListLength(size[n])
    BY <1>1, <1>2, Zenon DEF Inside
  <2>2. Held(s[b], size[b], ListLength(size[n])) /\ size[n] \in Nat
    BY <1>1, <1>2, <2>1, Zenon
  <2> HIDE DEF n, b
  <2>3. Held(g, size[b], 0)
    BY <1>1, <2>2, HoldClose, Zenon
  <2>. QED BY <2>3, HeldFrame, Zenon
<1> HIDE DEF g, m
<1>4. t \in Seq(ByteFrames) /\ Len(t) = m + 1 /\ t[m + 1] = g /\ \A k \in 1 .. m : t[k] = s[k]
  <2>1. s \in Seq(ByteFrames) /\ m \in Nat /\ m <= Len(s) /\ g \in ByteFrames
    BY <1>1, <1>2, <1>3, Zenon
  <2>2. t = Append(SubSeq(s, 1, m), g)
    BY Zenon
  <2> HIDE DEF n, t, b
  <2>. QED BY <2>1, <2>2, PutTop
<1> HIDE DEF t
<1>5. Len(t) = b /\ t # <<>> /\ t[b] = g
  BY <1>2, <1>4
<1> DEFINE u == SubSeq(size, 1, b)
<1>6. u \in Seq(Nat) /\ Len(u) = b /\ \A k \in 1 .. b : u[k] = size[k]
  <2>1. b \in Nat /\ b <= Len(size) /\ size \in Seq(Nat)
    BY <1>1, <1>2, Zenon
  <2> HIDE DEF b
  <2>. QED BY <2>1
<1> HIDE DEF u
<1>7. ASSUME NEW k \in 1 .. b PROVE Held(t[k], u[k], Inside(u, k))
  <2>1. CASE k = b
    <3>1. Inside(u, b) = 0 /\ b \in 1 .. b
      <4>1. b \in 1 .. b
        BY <2>1
      <4>. QED BY <1>6, <4>1, Zenon DEF Inside
    <3>. QED BY <1>3, <1>5, <1>6, <2>1, <3>1, Zenon
  <2>2. CASE k \in 1 .. m
    <3>1. k # n /\ k # b /\ k \in 1 .. n /\ k + 1 \in 1 .. b
      BY <1>2, <2>2
    <3>2. Inside(u, k) = Inside(size, k)
      BY <1>1, <1>6, <3>1, Zenon DEF Inside
    <3>. QED BY <1>1, <1>4, <1>6, <2>2, <3>1, <3>2, Zenon
  <2>. QED BY <1>2, <2>1, <2>2, Zenon
<1>8. Sized(t, u)
  <2> HIDE DEF b
  <2>. QED BY <1>4, <1>5, <1>6, <1>7, Zenon DEF Sized
<1>. QED BY <1>8, Zenon DEF t, g, m, b

(* The stack of a call that begins on bytes of a proof.                    *)
LEMMA SizedBegins ==
  ASSUME NEW d \in Datas
  PROVE  Sized(<<Frame(d, <<>>)>>, <<Len(d)>>)
<1>1. d \in Seq(Byte) /\ Len(d) <= MAX_NESTING /\ Announced(Len(d))
  BY InputsAssumption
<1>2. <<>> \in Seq(Item) /\ <<>> \in Seq(Deep(Len(d))) /\ Len(<<>>) = 0 /\ Len(d) \in Nat
  BY <1>1
<1> DEFINE f == Frame(d, <<>>)
           s == <<f>>
           size == <<Len(d)>>
<1>3. f \in ByteFrames /\ f.rest = d /\ f.out = <<>>
  BY <1>1, <1>2, ByteFrameIs, Zenon
<1>4. Len(After(<<>>, 0)) + 0 + Len(d) <= Len(d)
  <2>1. After(<<>>, 0) = <<>>
    BY <1>2, AllAfter, Zenon
  <2>. QED BY <1>2, <2>1
<1>5. Held(f, Len(d), 0)
  BY <1>1, <1>2, <1>3, <1>4, Zenon DEF Held
<1> HIDE DEF f
<1>6. /\ s \in Seq(ByteFrames) /\ s # <<>> /\ size \in Seq(Nat) /\ Len(size) = 1 /\ Len(s) = 1
      /\ s[1] = f /\ size[1] = Len(d) /\ \A k \in 1 .. 1 : k = 1
  BY <1>2, <1>3
<1> HIDE DEF s, size
<1>7. Inside(size, 1) = 0
  BY <1>6, Zenon DEF Inside
<1>8. Sized(s, size)
  BY <1>5, <1>6, <1>7, Zenon DEF Sized
<1>. QED BY <1>8, Zenon DEF s, size, f

---------------------------------------------------------------------------
(* The round trips *)

(* A walk over bytes of a proof, and what it may have read.                *)
NodeOrError == result = NONE \/ "item" \notin DOMAIN result \/ \E x : Fits(x) /\ result = Decoded(x)
BytesInv ==
  /\ expected = NONE
  /\ call = "_walk" => (\E size : Sized(stack, size)) /\ NodeOrError

(* A call that begins on any bytes.                                        *)
LEMMA AnyBytesBegin ==
  ASSUME AnyBytes
  PROVE  BytesInv
<1>1. ASSUME call = "_walk" PROVE \E size : Sized(stack, size)
  BY <1>1, SizedBegins, Zenon DEF AnyBytes, Fresh
<1>2. expected = NONE /\ result = NONE
  BY Zenon DEF AnyBytes, Fresh
<1>. QED BY <1>1, <1>2, Zenon DEF BytesInv, NodeOrError

(* What was read from bytes is walked, too; and a child that is encoded    *)
(* again is an encoded item.                                               *)
LEMMA BytesStep ==
  ASSUME BytesInv, [Next]_vars
  PROVE  EncodedInv' \/ BytesInv'
<1>1. expected = NONE
  BY Zenon DEF BytesInv
<1>2. ASSUME UNCHANGED <<call, expected>>, call # "_walk" PROVE BytesInv'
  <2>1. call' = call /\ expected' = expected
    BY <1>2
  <2>. QED BY <1>1, <1>2, <2>1, Zenon DEF BytesInv
<1>3. ASSUME UNCHANGED <<call, expected>>, UNCHANGED stack \/ (\E more : Sized(stack', more)),
             UNCHANGED result \/ (NodeOrError)'
      PROVE  BytesInv'
  <2>1. call' = call /\ expected' = expected
    BY <1>3
  <2>2. ASSUME call = "_walk" PROVE (\E size : Sized(stack', size)) /\ (NodeOrError)'
    <3>1. (\E size : Sized(stack, size)) /\ NodeOrError
      BY <2>2, Zenon DEF BytesInv
    <3>2. \E size : Sized(stack', size)
      BY <1>3, <3>1
    <3>3. (NodeOrError)'
      BY <1>3, <3>1 DEF NodeOrError
    <3>. QED BY <3>2, <3>3
  <2>. QED BY <1>1, <2>1, <2>2, Zenon DEF BytesInv
<1> SUFFICES ASSUME call = "_walk" \/ ~ (UNCHANGED <<call, expected>>) PROVE EncodedInv' \/ BytesInv'
  BY <1>2, Zenon
<1>4. ASSUME NEW answer, UNCHANGED <<call, data, stack, expected>>, result' = answer,
             "item" \notin DOMAIN answer \/ \E x : Fits(x) /\ answer = Decoded(x)
      PROVE  BytesInv'
  <2>1. (NodeOrError)'
    BY <1>4, Zenon DEF NodeOrError
  <2>2. UNCHANGED <<call, expected>> /\ UNCHANGED stack
    BY <1>4
  <2>. QED BY <1>3, <2>1, <2>2
<1>5. \A e : "item" \notin DOMAIN Raised(e)
  BY DEF Raised
<1>6. CASE DecodeNothing
  BY <1>4, <1>5, <1>6, Zenon DEF DecodeNothing, End
<1>7. ASSUME DecodeBytes \/ DecodeList \/ ListEnds \/ Return
      PROVE  call = "_walk" /\ UNCHANGED <<call, expected>>
  <2>1. UNCHANGED <<call, expected>>
    BY <1>7 DEF DecodeBytes, DecodeList, ListEnds, Return, End
  <2>. QED BY <2>1
<1>8. ASSUME call = "_walk" PROVE (\E size : Sized(stack, size)) /\ NodeOrError
  BY <1>8, Zenon DEF BytesInv
<1>9. CASE DecodeBytes
  <2>1. PICK size : Sized(stack, size)
    BY <1>7, <1>8, <1>9, Zenon
  <2>2. /\ stack[Len(stack)].rest # <<>> /\ stack[Len(stack)].rest[1] < 192
        /\ stack' = Append(SubSeq(stack, 1, Len(stack) - 1), BytesFrame(stack[Len(stack)]))
    BY <1>9, Zenon DEF DecodeBytes, Pop, Top, BytesFrame
  <2>3. Sized(stack', size)
    BY <2>1, <2>2, SizedBytes, Zenon
  <2>4. UNCHANGED <<call, expected>> /\ UNCHANGED result
    BY <1>9 DEF DecodeBytes
  <2>. QED BY <1>3, <2>3, <2>4, Zenon
<1>10. CASE DecodeList
  <2>1. PICK size : Sized(stack, size)
    BY <1>7, <1>8, <1>10, Zenon
  <2>2. /\ stack[Len(stack)].rest # <<>> /\ stack[Len(stack)].rest[1] >= 192
        /\ stack' = SubSeq(stack, 1, Len(stack) - 1) \o <<OuterFrame(stack[Len(stack)]), InnerFrame(stack[Len(stack)])>>
    BY <1>10, Zenon DEF DecodeList, Pop, Top, OuterFrame, InnerFrame
  <2>3. \E more : Sized(stack', more)
    BY <2>1, <2>2, SizedList, Zenon
  <2>4. UNCHANGED <<call, expected>> /\ UNCHANGED result
    BY <1>10 DEF DecodeList
  <2>. QED BY <1>3, <2>3, <2>4, Zenon
<1>11. CASE ListEnds
  <2>1. PICK size : Sized(stack, size)
    BY <1>7, <1>8, <1>11, Zenon
  <2>2. Len(stack) # 1
    <3>1. Len(stack) > 1
      BY <1>11, Zenon DEF ListEnds
    <3>2. Len(stack) \in Nat
      BY <2>1, SizedIs, Zenon DEF SizedParts
    <3>3. \A i \in Nat : i > 1 => i # 1
      OBVIOUS
    <3>. QED BY <3>1, <3>2, <3>3, Zenon
  <2>3. stack' = Append(SubSeq(stack, 1, Len(stack) - 2),
                        ClosedFrame(stack[Len(stack) - 1], stack[Len(stack)]))
    BY <1>11, Zenon DEF ListEnds, Top, Caller, ClosedFrame
  <2>4. \E more : Sized(stack', more)
    BY <2>1, <2>2, <2>3, SizedClose, Zenon
  <2>5. UNCHANGED <<call, expected>> /\ UNCHANGED result
    BY <1>11 DEF ListEnds
  <2>. QED BY <1>3, <2>4, <2>5, Zenon
<1>12. CASE Return
  <2>1. /\ Len(stack) = 1 /\ Top.out # <<>> /\ UNCHANGED <<call, data, stack, expected>>
        /\ result' = IF Top.rest = <<>> THEN Use(Top.out[1]) ELSE Raised("AssertionError")
    BY <1>12, Zenon DEF Return, End
  <2>2. PICK size : Sized(stack, size)
    BY <1>7, <1>8, <1>12, Zenon
  <2>3. Held(Top, size[Len(stack)], 0)
    BY <2>2, SizedIs, Zenon DEF SizedParts, Top
  <2>4. Fits(Top.out[1])
    BY <2>1, <2>3, HoldFits, Zenon
  <2>5. Use(Top.out[1]) = Decoded(Top.out[1])
    BY <1>7, <1>12 DEF Use
  <2>6. "item" \notin DOMAIN result' \/ \E x : Fits(x) /\ result' = Decoded(x)
    BY <1>5, <2>1, <2>4, <2>5, Zenon
  <2>. QED BY <1>4, <2>1, <2>6, Zenon
<1>13. CASE NextRef
  <2>1. call = "_walk" /\ result # NONE /\ "item" \in DOMAIN result
    BY <1>13, Zenon DEF NextRef
  <2>2. PICK x : Fits(x) /\ result = Decoded(x)
    BY <1>8, <2>1, Zenon DEF NodeOrError
  <2>3. PICK child \in Inlined : data' = rlp_encode(child) /\ expected' = Decoded(child)
    BY <1>13, Zenon DEF NextRef
  <2>4. Fits(child)
    BY <2>2, InlinedFits, Zenon
  <2>. QED BY <1>13, <2>3, <2>4, ChildReads, Zenon
<1>14. CASE UNCHANGED vars
  <2>1. UNCHANGED <<call, expected>> /\ UNCHANGED stack /\ UNCHANGED result
    BY <1>14 DEF vars
  <2>. QED BY <1>3, <2>1, Zenon
<1>. QED BY <1>6, <1>9, <1>10, <1>11, <1>12, <1>13, <1>14, Zenon DEF Next

(* A call reads an encoded item, or bytes of which nothing is expected.    *)
LEMMA Reads_Invariant ==
  Spec => [](EncodedInv \/ BytesInv)
<1>1. Init => EncodedInv \/ BytesInv
  BY InitReads, AnyBytesBegin
<1>2. (EncodedInv \/ BytesInv) /\ [Next]_vars => (EncodedInv \/ BytesInv)'
  BY EncodedStep, BytesStep
<1>. QED BY <1>1, <1>2, PTL DEF Spec

(* The answer of a call that has one is the expected.                      *)
LEMMA AsExpected ==
  ASSUME EncodedInv \/ BytesInv, expected # NONE, result # NONE
  PROVE  result = expected
<1>1. EncodedInv
  BY Zenon DEF BytesInv
<1>. QED BY <1>1, Zenon DEF EncodedInv, Reading

(* What rlp_encode wrote rlp_decode reads, for every item whose length an  *)
(* RLP prefix can announce, and whatever follows the item is noticed.      *)
THEOREM ItemsReturn == Spec => []ItemRoundTrip
<1>1. EncodedInv \/ BytesInv => ItemRoundTrip
  BY AsExpected, Zenon DEF ItemRoundTrip, Answered
<1>. QED BY <1>1, Reads_Invariant, PTL

(* The walk reads back the path and the kind of every leaf and extension,  *)
(* and every inlined child that _next_ref encoded again, whatever bytes    *)
(* the child was read from.                                                *)
THEOREM NodesReturn == Spec => []NodeRoundTrip
<1>1. EncodedInv \/ BytesInv => NodeRoundTrip
  BY AsExpected, Zenon DEF NodeRoundTrip, Answered
<1>. QED BY <1>1, Reads_Invariant, PTL

(* Every account comes back field by field from encode_account.            *)
THEOREM AccountsReturn == Spec => []AccountRoundTrip
<1>1. EncodedInv \/ BytesInv => AccountRoundTrip
  BY AsExpected, Zenon DEF AccountRoundTrip, Answered
<1>. QED BY <1>1, Reads_Invariant, PTL

(* Every storage value comes back, from bytes without a leading zero.      *)
THEOREM StorageReturns == Spec => []StorageRoundTrip
<1>1. ASSUME EncodedInv \/ BytesInv, Answered("verify_storage_inclusion")
      PROVE  LET b == Top.out[1].bytes IN b # <<>> => b[1] # 0
  <2>1. call = "verify_storage_inclusion" /\ expected # NONE /\ result # NONE
    BY <1>1, Zenon DEF Answered
  <2>2. PICK item, tail : Reading(item, tail)
    BY <1>1, <2>1, Zenon DEF EncodedInv, BytesInv
  <2>3. /\ tail \in Seq(Nat) /\ Canonical(item) /\ Len(stack) = 1 /\ Top.out # <<>>
        /\ \E whole : Structure(stack, item, tail, whole)
    BY <2>1, <2>2, Zenon DEF Reading
  <2>4. Top.out[1] = item
    BY <2>3, ItemRead, Zenon DEF Top
  <2>5. PICK b : item = Bytes(b) /\ (b # <<>> => b[1] # 0)
    BY <2>3, Zenon DEF Canonical
  <2>6. Top.out[1].bytes = b
    BY <2>4, <2>5, ItemRecords, Zenon
  <2>. QED BY <2>5, <2>6, Zenon
<1>2. EncodedInv \/ BytesInv => StorageRoundTrip
  <2> SUFFICES ASSUME EncodedInv \/ BytesInv, Answered("verify_storage_inclusion")
               PROVE  /\ result = expected
                      /\ LET b == Top.out[1].bytes IN b # <<>> => b[1] # 0
    BY Zenon DEF StorageRoundTrip
  <2>1. result = expected
    BY AsExpected, Zenon DEF Answered
  <2>. QED BY <1>1, <2>1
<1>. QED BY <1>2, Reads_Invariant, PTL

---------------------------------------------------------------------------
(* No byte is lost *)

(* What the frames of s have read and what they have left, if above frame  *)
(* k there is h[k + 1]: the definition in NothingLost, for any stack.      *)
ReadCode(out)  == FlattenSeq([j \in DOMAIN out |-> rlp_encode(out[j])])
InnerCode(s, h, k) ==
  IF k = Len(s) THEN <<>> ELSE rlp_encode_length(Len(h[k + 1]), 192) \o h[k + 1]
UnreadCode(s, h, k) == ReadCode(s[k].out) \o InnerCode(s, h, k) \o s[k].rest
UnreadOf(s, h) == [k \in 1 .. Len(s) |-> UnreadCode(s, h, k)]
Solves(s, h)   == h = UnreadOf(s, h)

(* The items read, encoded again, are the first bytes of the list.         *)
LEMMA ReadIs ==
  ASSUME NEW f \in Frames, NEW w \in Seq(Item), NEW skip \in {0, 1}, NEW tail, Follows(f, w, skip, tail)
  PROVE  /\ ReadCode(f.out) = Before(w, Len(f.out))
         /\ Len(f.out) \in 0 .. Len(w) /\ Len(f.out) + skip \in 0 .. Len(w)
<1> DEFINE out == f.out
           n == Len(out)
<1>1. out \in Seq(Item) /\ Len(w) \in Nat
  BY FrameType
<1>2. n + skip <= Len(w) /\ \A i \in 1 .. n : out[i] = w[i]
  BY Zenon DEF Follows
<1> HIDE DEF out
<1>3. DOMAIN out = 1 .. n /\ n \in Nat
  BY <1>1
<1>4. [j \in DOMAIN out |-> rlp_encode(out[j])] = [k \in 1 .. n |-> rlp_encode(w[k])]
  BY <1>2, <1>3, Zenon
<1>5. ReadCode(out) = Before(w, n)
  BY <1>4, Zenon DEF ReadCode, Before, FrontCodes
<1>6. n \in 0 .. Len(w) /\ n + skip \in 0 .. Len(w)
  BY <1>1, <1>2, <1>3
<1>. QED BY <1>5, <1>6 DEF out

(* The innermost list.                                                     *)
LEMMA TopUnread ==
  ASSUME NEW f \in Frames, NEW w \in Seq(Item), NEW tail \in Seq(Nat), Follows(f, w, 0, tail)
  PROVE  ReadCode(f.out) \o <<>> \o f.rest = After(w, 0) \o tail
<1> DEFINE n == Len(f.out)
           R == Before(w, n)
           A == After(w, n)
<1>1. 0 \in {0, 1}
  OBVIOUS
<1>2. ReadCode(f.out) = R /\ n \in 0 .. Len(w)
  BY <1>1, ReadIs, Zenon
<1>3. n + 0 = n
  BY FrameType
<1>4. f.rest = A \o tail
  BY <1>3, Zenon DEF Follows
<1>5. R \in Seq(Nat) /\ A \in Seq(Nat) /\ After(w, 0) = R \o A
  BY <1>2, Coded, SplitCode, Zenon
<1> HIDE DEF R, A
<1>6. R \o <<>> = R
  BY <1>5, JoinedEmpty
<1>7. R \o (A \o tail) = (R \o A) \o tail
  BY <1>5, Associative
<1>. QED BY <1>2, <1>4, <1>5, <1>6, <1>7, Zenon

(* A list that waits for the one that is read.                             *)
LEMMA LowerUnread ==
  ASSUME NEW f \in Frames, NEW w \in Seq(Item), NEW tail \in Seq(Nat), Follows(f, w, 1, tail)
  PROVE  /\ Next_(f, w) \in Item
         /\ ReadCode(f.out) \o rlp_encode(Next_(f, w)) \o f.rest = After(w, 0) \o tail
<1> DEFINE n == Len(f.out)
           R == Before(w, n)
           A == After(w, n + 1)
           c == rlp_encode(w[n + 1])
<1>1. 1 \in {0, 1}
  OBVIOUS
<1>2. ReadCode(f.out) = R /\ n \in 0 .. Len(w) /\ n + 1 \in 0 .. Len(w)
  BY <1>1, ReadIs, Zenon
<1>3. n < Len(w)
  <2>1. \A i, j \in Nat : i + 1 \in 0 .. j => i < j
    OBVIOUS
  <2>2. n \in Nat /\ Len(w) \in Nat
    BY FrameType
  <2>. QED BY <1>2, <2>1, <2>2, Zenon
<1>4. f.rest = A \o tail
  BY Zenon DEF Follows
<1>5. R \in Seq(Nat) /\ A \in Seq(Nat) /\ After(w, 0) = R \o After(w, n)
  BY <1>2, Coded, SplitCode, Zenon
<1>6. w[n + 1] \in Item /\ c \in Seq(Nat) /\ After(w, n) = c \o A
  BY <1>2, <1>3, NextCode, Zenon
<1>7. Next_(f, w) \in Item /\ rlp_encode(Next_(f, w)) = c
  BY <1>6, Zenon DEF Next_
<1> HIDE DEF R, A, c
<1>8. (R \o c) \o (A \o tail) = (R \o (c \o A)) \o tail
  <2>1. R \o c \in Seq(Nat)
    BY <1>5, <1>6, JoinedNumbers
  <2>2. (R \o c) \o (A \o tail) = ((R \o c) \o A) \o tail
    BY <1>5, <2>1, Associative, Zenon
  <2>3. (R \o c) \o A = R \o (c \o A)
    BY <1>5, <1>6, Associative, Zenon
  <2>. QED BY <2>2, <2>3, Zenon
<1>. QED BY <1>2, <1>4, <1>5, <1>6, <1>7, <1>8, Zenon

(* The encoding of a list is its prefix and its items.                     *)
LEMMA ListIs ==
  ASSUME NEW v, NEW x \in Item, x = List(v)
  PROVE  rlp_encode(x) = rlp_encode_length(Len(After(v, 0)), 192) \o After(v, 0)
<1>1. ~ IsBytes(x) /\ x.list = v
  BY ItemRecords, Zenon
<1>2. CASE \E b \in Seq(Byte) : x = Bytes(b) /\ rlp_encode(x) = rlp_encode_bytes(b)
  BY <1>1, <1>2, ItemRecords, Zenon
<1>3. CASE \E w \in Seq(Item) :
             x = List(w) /\ rlp_encode(x) = rlp_encode_length(Len(After(w, 0)), 192) \o After(w, 0)
  BY <1>1, <1>3, ItemRecords, Zenon
<1>. QED BY <1>2, <1>3, ItemIs, Zenon

(* The bytes of the list of frame k, and of what follows it.               *)
ListCodeOf(whole, tail, k) == After(whole[k], 0) \o Trail(k, tail)
Above(s, h, whole, tail, k) == k # Len(s) => h[k + 1] = ListCodeOf(whole, tail, k + 1)

(* A frame makes up its list if the frame above it does.                   *)
LEMMA UnreadStep ==
  ASSUME NEW s, NEW item, NEW tail \in Seq(Nat), NEW whole, Structure(s, item, tail, whole),
         NEW k \in 1 .. Len(s), NEW h, Above(s, h, whole, tail, k)
  PROVE  UnreadCode(s, h, k) = ListCodeOf(whole, tail, k)
<1> DEFINE f == s[k]
           w == whole[k]
           t == Trail(k, tail)
<1>1. Parts(s, item, tail, whole)
  BY StructureIs, Zenon
<1>2. f \in Frames /\ w \in Seq(Item) /\ t \in Seq(Nat) /\ Follows(f, w, Skip(k, Len(s)), t)
  BY <1>1, Zenon DEF Parts, Level
<1>3. CASE k = Len(s)
  <2>1. Follows(f, w, 0, t)
    BY <1>2, <1>3, Zenon DEF Skip
  <2>2. ReadCode(f.out) \o <<>> \o f.rest = After(w, 0) \o t
    BY <1>2, <2>1, TopUnread, Zenon
  <2>. QED BY <1>3, <2>2, Zenon DEF UnreadCode, InnerCode, ListCodeOf
<1>4. CASE k # Len(s)
  <2>1. Follows(f, w, 1, t)
    BY <1>2, <1>4, Zenon DEF Skip
  <2>2. Next_(f, w) \in Item /\ ReadCode(f.out) \o rlp_encode(Next_(f, w)) \o f.rest = After(w, 0) \o t
    BY <1>2, <2>1, LowerUnread, Zenon
  <2>3. k \in 1 .. Len(s) - 1 /\ k + 1 \in 1 .. Len(s) /\ k + 1 # 1
    <3>1. Len(s) \in Nat
      BY <1>1, Zenon DEF Parts
    <3>2. \A n \in Nat : \A i \in 1 .. n : i # n => i \in 1 .. n - 1 /\ i + 1 \in 1 .. n /\ i + 1 # 1
      OBVIOUS
    <3>. QED BY <1>4, <3>1, <3>2, Zenon
  <2> DEFINE v == whole[k + 1]
  <2>4. Next_(f, w) = List(v) /\ v \in Seq(Item)
    BY <1>1, <2>3, Zenon DEF Parts
  <2>5. rlp_encode(Next_(f, w)) = rlp_encode_length(Len(After(v, 0)), 192) \o After(v, 0)
    BY <2>2, <2>4, ListIs, Zenon
  <2>6. h[k + 1] = After(v, 0)
    <3>1. h[k + 1] = After(v, 0) \o <<>>
      BY <1>4, <2>3, Zenon DEF Above, ListCodeOf, Trail
    <3>2. Len(v) \in Nat
      BY <2>4
    <3>3. 0 \in 0 .. Len(v)
      BY <3>2
    <3>4. After(v, 0) \in Seq(Nat)
      BY <2>4, <3>3, Coded, Zenon
    <3>5. After(v, 0) \o <<>> = After(v, 0)
      BY <3>4, JoinedEmpty
    <3>. QED BY <3>1, <3>5, Zenon
  <2>. QED BY <1>4, <2>2, <2>5, <2>6, Zenon DEF UnreadCode, InnerCode, ListCodeOf
<1>. QED BY <1>3, <1>4, Zenon

(* From the top of the stack down, the frames make up their lists.         *)
LEMMA UnreadAll ==
  ASSUME NEW s, NEW item, NEW tail \in Seq(Nat), NEW whole, Structure(s, item, tail, whole),
         NEW h, Solves(s, h)
  PROVE  \A k \in 1 .. Len(s) : h[k] = ListCodeOf(whole, tail, k)
<1> DEFINE n == Len(s)
           U(k) == ListCodeOf(whole, tail, k)
           S == {i \in Nat : i < n => h[n - i] = U(n - i)}
<1>1. n \in Nat \ {0}
  BY StructureIs, Zenon DEF Parts
<1>2. ASSUME NEW k \in 1 .. n, k # n => h[k + 1] = U(k + 1) PROVE h[k] = U(k)
  <2>1. h[k] = UnreadCode(s, h, k)
    BY Zenon DEF Solves, UnreadOf
  <2>2. Above(s, h, whole, tail, k)
    BY <1>2, Zenon DEF Above
  <2>3. UnreadCode(s, h, k) = U(k)
    BY <2>2, UnreadStep, Zenon
  <2>. QED BY <2>1, <2>3, Zenon
<1> HIDE DEF n, U
<1>3. 0 \in S
  <2>1. n - 0 = n /\ n \in 1 .. n
    BY <1>1
  <2>. QED BY <1>2, <2>1
<1>4. ASSUME NEW i \in Nat, i \in S PROVE i + 1 \in S
  <2> SUFFICES ASSUME i + 1 < n PROVE h[n - (i + 1)] = U(n - (i + 1))
    BY <1>4
  <2> DEFINE k == n - (i + 1)
  <2>1. k \in 1 .. n /\ k + 1 = n - i /\ i < n
    BY <1>1
  <2>2. h[k + 1] = U(k + 1)
    BY <1>4, <2>1
  <2>. QED BY <1>2, <2>1, <2>2, Zenon
<1>5. \A i \in Nat : i \in S
  <2> HIDE DEF S
  <2>. QED BY <1>3, <1>4, SetInduction, Zenon
<1>6. ASSUME NEW k \in 1 .. n PROVE h[k] = U(k)
  <2>1. n - k \in Nat /\ n - k < n /\ n - (n - k) = k
    BY <1>1
  <2>2. n - k \in S
    BY <1>5, <2>1, Zenon
  <2>. QED BY <2>1, <2>2
<1>. QED BY <1>6, Zenon DEF n, U

(* The definition has a solution.                                          *)
LEMMA UnreadExists ==
  ASSUME NEW s, NEW item, NEW tail \in Seq(Nat), NEW whole, Structure(s, item, tail, whole)
  PROVE  \E h : Solves(s, h)
<1> DEFINE h == [k \in 1 .. Len(s) |-> ListCodeOf(whole, tail, k)]
<1>1. Len(s) \in Nat
  BY StructureIs, Zenon DEF Parts
<1>2. ASSUME NEW k \in 1 .. Len(s) PROVE h[k] = UnreadCode(s, h, k)
  <2>1. k # Len(s) => k + 1 \in 1 .. Len(s)
    <3>1. \A n \in Nat : \A i \in 1 .. n : i # n => i + 1 \in 1 .. n
      OBVIOUS
    <3>. QED BY <1>1, <3>1, Zenon
  <2>2. k # Len(s) => h[k + 1] = ListCodeOf(whole, tail, k + 1)
    BY <2>1, Zenon
  <2>3. h[k] = ListCodeOf(whole, tail, k)
    BY Zenon
  <2> HIDE DEF h
  <2>4. Above(s, h, whole, tail, k)
    BY <2>2, Zenon DEF Above
  <2>5. UnreadCode(s, h, k) = ListCodeOf(whole, tail, k)
    BY <2>4, UnreadStep, Zenon
  <2>. QED BY <2>3, <2>5, Zenon
<1>3. h = [k \in 1 .. Len(s) |-> h[k]]
  BY Zenon
<1> HIDE DEF h
<1>4. [k \in 1 .. Len(s) |-> h[k]] = [k \in 1 .. Len(s) |-> UnreadCode(s, h, k)]
  BY <1>2, Zenon
<1>5. Solves(s, h)
  BY <1>3, <1>4, Zenon DEF Solves, UnreadOf
<1>. QED BY <1>5, Zenon

(* NothingLost speaks of the solution of UnreadOf.                         *)
LEMMA NothingLostIs ==
  ASSUME (CHOOSE h : Solves(stack, h))[1] = data
  PROVE  NothingLost
BY Zenon DEF NothingLost, Solves, UnreadOf, UnreadCode, InnerCode, ReadCode

(* While a call reads an encoded item, whatever the item and however deep  *)
(* the lists that are open, what it has read and what is left make up the  *)
(* input.                                                                  *)
THEOREM BytesKept == Spec => []NothingLost
<1>1. ASSUME EncodedInv PROVE NothingLost
  <2>1. PICK item, tail : Reading(item, tail)
    BY <1>1, Zenon DEF EncodedInv
  <2>2. tail \in Seq(Nat) /\ Fits(item) /\ data = rlp_encode(item) \o tail
    BY <2>1, Zenon DEF Reading
  <2>3. PICK whole : Structure(stack, item, tail, whole)
    BY <2>1, Zenon DEF Reading
  <2> DEFINE h == CHOOSE u : Solves(stack, u)
  <2>4. Solves(stack, h)
    BY <2>2, <2>3, UnreadExists, Zenon
  <2>5. Len(stack) \in Nat \ {0} /\ whole[1] = <<item>>
    BY <2>2, <2>3, StructureIs, Zenon DEF Parts
  <2>6. 1 \in 1 .. Len(stack)
    BY <2>5
  <2> HIDE DEF h
  <2>7. h[1] = ListCodeOf(whole, tail, 1)
    <3>1. tail \in Seq(Nat)
      BY <2>2
    <3>2. \A k \in 1 .. Len(stack) : h[k] = ListCodeOf(whole, tail, k)
      BY <2>3, <2>4, <3>1, UnreadAll, Zenon
    <3>. QED BY <2>6, <3>2, Zenon
  <2>8. ListCodeOf(whole, tail, 1) = After(<<item>>, 0) \o tail
    BY <2>5, Zenon DEF ListCodeOf, Trail
  <2>9. After(<<item>>, 0) = rlp_encode(item)
    <3>1. item \in Item
      BY <2>2, FitsIs, Zenon
    <3>2. <<item>> \in Seq(Item) /\ Len(<<item>>) = 1 /\ <<item>>[1] = item
      BY <3>1
    <3> DEFINE w == <<item>>
    <3> HIDE DEF w
    <3>3. 0 \in 0 .. Len(w) /\ 0 < Len(w) /\ 0 + 1 = 1 /\ 1 = Len(w) /\ w \in Seq(Item) /\ w[1] = item
      BY <3>2 DEF w
    <3>4. /\ rlp_encode(w[0 + 1]) \in Seq(Nat)
          /\ After(w, 0) = rlp_encode(w[0 + 1]) \o After(w, 0 + 1)
      BY <3>3, NextCode, Zenon
    <3>5. After(w, 0 + 1) = <<>>
      BY <3>3, AllAfter, Zenon
    <3>6. rlp_encode(w[0 + 1]) \o <<>> = rlp_encode(w[0 + 1])
      BY <3>4, JoinedEmpty
    <3>7. After(w, 0) = rlp_encode(item)
      BY <3>3, <3>4, <3>5, <3>6, Zenon
    <3>. QED BY <3>7, Zenon DEF w
  <2>10. h[1] = data
    BY <2>2, <2>7, <2>8, <2>9, Zenon
  <2>. QED BY <2>10, NothingLostIs, Zenon DEF h
<1>2. ASSUME BytesInv PROVE NothingLost
  <2>1. expected = NONE
    BY <1>2, Zenon DEF BytesInv
  <2>. QED BY <2>1, Zenon DEF NothingLost
<1>3. EncodedInv \/ BytesInv => NothingLost
  BY <1>1, <1>2
<1>. QED BY <1>3, Reads_Invariant, PTL
=============================================================================
