------------------------------- MODULE Jvm_proofs ------------------------------
(***************************************************************************)
(* Lemmas about the bytes codegen.c writes and patches and what is read    *)
(* back from them, and the form of induction the other proofs use: a set   *)
(* of natural numbers that is not empty has a least element.               *)
(***************************************************************************)
EXTENDS Jvm, WellFoundedInduction, TLAPS

(* A set of naturals that is not empty has a least member. Cited where an   *)
(* induction is needed: of the values that are a counterexample there would *)
(* be a least one.                                                          *)
LEMMA LeastNatural ==
  ASSUME NEW T, T \subseteq Nat, T # {}
  PROVE  \E n \in T : \A m \in T : n <= m
<1>. DEFINE R == OpToRel(<, Nat)
<1>1. IsWellFoundedOn(R, Nat)
  BY NatLessThanWellFounded
<1>2. \A a, b \in Nat : a < b => << a, b >> \in R
  BY DEF OpToRel
<1>. HIDE DEF R
<1>3. PICK n \in T : \A m \in T : ~(<< m, n >> \in R)
  BY <1>1, WFMin
<1>4. ASSUME NEW m \in T PROVE n <= m
  <2>1. m \in Nat /\ n \in Nat
    OBVIOUS
  <2>2. ~(m < n)
    BY <1>2, <1>3, <2>1
  <2>. QED  BY <2>1, <2>2
<1>. QED  BY <1>4

-----------------------------------------------------------------------------
(* Arithmetic of the fixed-width integers.                                  *)

(* A number is one multiple of the base and one remainder.                  *)
LEMMA ModUnique ==
  ASSUME NEW b \in Nat \ {0}, NEW q \in Int, NEW r \in 0 .. b - 1
  PROVE  (b * q + r) % b = r
<1>. DEFINE x == b * q + r
            p == x \div b
            t == x % b
<1>1. x \in Int /\ b \in Int /\ b > 0 /\ r \in Int /\ 0 <= r /\ r < b
  OBVIOUS
<1>2. p \in Int /\ t \in Int /\ x = b * p + t /\ 0 <= t /\ t < b
  <2>. HIDE DEF x
  <2>. QED  BY <1>1
<1>3. b * q \in Int /\ b * p \in Int
  BY <1>2
<1>. HIDE DEF p, t
<1>4. \A u, v \in Int : u < v => b * u + b <= b * v
  <2>. SUFFICES ASSUME NEW u \in Int, NEW v \in Int, u < v
                PROVE  b * u + b <= b * v
    OBVIOUS
  <2>1. b * (v - u - 1) >= 0 /\ b * (v - u - 1) = b * v - b * u - b
    OBVIOUS
  <2>. QED  BY <2>1
<1>5. CASE q = p
  <2>1. b * q = b * p
    BY <1>5
  <2>. QED  BY <1>1, <1>2, <1>3, <2>1 DEF t
<1>6. CASE q < p
  <2>1. b * q + b <= b * p
    BY <1>2, <1>4, <1>6
  <2>. QED  BY <1>1, <1>2, <1>3, <2>1
<1>7. CASE p < q
  <2>1. b * p + b <= b * q
    BY <1>2, <1>4, <1>7
  <2>. QED  BY <1>1, <1>2, <1>3, <2>1
<1>. QED  BY <1>2, <1>5, <1>6, <1>7

(* A multiple of the base does not change the remainder.                    *)
LEMMA ModShift ==
  ASSUME NEW b \in Nat \ {0}, NEW x \in Int, NEW p \in Int
  PROVE  (b * p + x) % b = x % b
<1>. DEFINE q == x \div b
            t == x % b
<1>1. q \in Int /\ t \in 0 .. b - 1 /\ x = b * q + t
  OBVIOUS
<1>. HIDE DEF q, t
<1>2. b * p + x = b * (p + q) + t /\ p + q \in Int
  BY <1>1
<1>3. (b * (p + q) + t) % b = t
  BY <1>1, <1>2, ModUnique
<1>. QED  BY <1>2, <1>3 DEF t

(* Truncating before a sum or a difference does not change what is left     *)
(* after it.                                                                *)
LEMMA ModSum ==
  ASSUME NEW b \in Nat \ {0}, NEW n \in Int, NEW m \in Int
  PROVE  /\ ((n % b) + m) % b = (n + m) % b
         /\ (m - (n % b)) % b = (m - n) % b
<1>. DEFINE p == n \div b
            t == n % b
<1>1. p \in Int /\ t \in Int /\ n = b * p + t
  OBVIOUS
<1>. HIDE DEF p, t
<1>2. n + m = b * p + (t + m) /\ t + m \in Int
  BY <1>1
<1>3. m - t = b * p + (m - n) /\ m - n \in Int
  BY <1>1
<1>4. (n + m) % b = (t + m) % b
  <2>1. (b * p + (t + m)) % b = (t + m) % b
    BY <1>1, <1>2, ModShift
  <2>. QED  BY <1>2, <2>1
<1>5. (m - t) % b = (m - n) % b
  <2>1. (b * p + (m - n)) % b = (m - n) % b
    BY <1>1, <1>3, ModShift
  <2>. QED  BY <1>3, <2>1
<1>. QED  BY <1>4, <1>5 DEF t

-----------------------------------------------------------------------------
(* Types.                                                                   *)

(* write_bytes writes bytes, whatever the value.                            *)
LEMMA BytesAreBytes ==
  ASSUME NEW n \in Int
  PROVE  Bytes2(n) \in Seq(Byte) /\ Bytes4(n) \in Seq(Byte)
BY DEF Bytes2, Bytes4, Byte

(* overwrite_bytes leaves a sequence of bytes of the same length.           *)
LEMMA OverwriteType ==
  ASSUME NEW s \in Seq(Byte), NEW bytes \in Seq(Byte), NEW start \in Int
  PROVE  /\ Overwrite(s, start, bytes) \in Seq(Byte)
         /\ Len(Overwrite(s, start, bytes)) = Len(s)
BY SMTT(60) DEF Overwrite

(* Bytes appended to bytes are bytes.                                       *)
LEMMA ConcatType ==
  ASSUME NEW s \in Seq(Byte), NEW t \in Seq(Byte)
  PROVE  s \o t \in Seq(Byte)
OBVIOUS

-----------------------------------------------------------------------------
(* Reading back.                                                            *)

(* Where the bytes of a concatenation come from.                            *)
LEMMA ConcatBytes ==
  ASSUME NEW s \in Seq(Byte), NEW t \in Seq(Byte)
  PROVE  /\ Len(s \o t) = Len(s) + Len(t)
         /\ \A n \in 1 .. Len(s) : (s \o t)[n] = s[n]
         /\ \A n \in 1 .. Len(t) : (s \o t)[Len(s) + n] = t[n]
OBVIOUS

(* Overwriting four bytes changes those four and no other.                  *)
LEMMA OverwriteBytes ==
  ASSUME NEW s \in Seq(Byte), NEW value \in Int, NEW start \in Nat,
         start + 4 <= Len(s)
  PROVE  LET t == Overwrite(s, start, Bytes4(value))
         IN  /\ \A n \in 1 .. 4 : t[start + n] = Bytes4(value)[n]
             /\ \A n \in 1 .. Len(s) : n \notin start + 1 .. start + 4 => t[n] = s[n]
<1>. DEFINE bytes == Bytes4(value)
<1>1. DOMAIN bytes = 1 .. 4
  BY DEF Bytes4
<1>. HIDE DEF bytes
<1>2. ASSUME NEW n \in 1 .. 4 PROVE Overwrite(s, start, bytes)[start + n] = bytes[n]
  BY <1>1, <1>2 DEF Overwrite
<1>3. ASSUME NEW n \in 1 .. Len(s), n \notin start + 1 .. start + 4
      PROVE  Overwrite(s, start, bytes)[n] = s[n]
  BY <1>1, <1>3 DEF Overwrite
<1>. QED  BY <1>2, <1>3 DEF bytes

(* The bytes that are not overwritten stay.                                 *)
LEMMA OverwriteElsewhere ==
  ASSUME NEW s \in Seq(Byte), NEW value \in Int, NEW start \in Nat,
         start + 4 <= Len(s)
  PROVE  \A n \in 1 .. Len(s) :
           n \notin start + 1 .. start + 4 => Overwrite(s, start, Bytes4(value))[n] = s[n]
BY OverwriteBytes, Zenon

(* Two bytes hold what fits into them, and are read back as it.             *)
LEMMA Bytes2Read ==
  ASSUME NEW n \in Nat, n < 65536
  PROVE  Bytes2(n)[1] * 256 + Bytes2(n)[2] = n
<1>. DEFINE a == n \div 256
<1>1. n \in Int /\ a \in Int /\ 0 <= a /\ a < 256
  <2>1. n \in Int /\ 0 <= n /\ n < 65536
    OBVIOUS
  <2>. HIDE DEF a
  <2>2. a \in Int /\ n = 256 * a + (n % 256) /\ n % 256 \in 0 .. 255
    BY <2>1 DEF a
  <2>. QED  BY <2>1, <2>2
<1>2. n = 256 * a + (n % 256)
  BY <1>1
<1>. HIDE DEF a
<1>3. a % 256 = a
  BY <1>1
<1>4. Bytes2(n) = << a % 256, n % 256 >>
  BY DEF Bytes2, a
<1>. QED  BY <1>1, <1>2, <1>3, <1>4

(* The value of four bytes, the first signed.                               *)
Value4(bytes) ==
  ((Signed(bytes[1]) * 256 + bytes[2]) * 256 + bytes[3]) * 256 + bytes[4]

(* emit_u4 then read as a signed number gives the number back.              *)
LEMMA Bytes4Read ==
  ASSUME NEW n \in Int, -2147483648 <= n, n < 2147483648
  PROVE  Value4(Bytes4(n)) = n
<1>. DEFINE a == n \div 256
            b == n \div 65536
            c == n \div 16777216
<1>1. n \in Int /\ a \in Int /\ b \in Int /\ c \in Int
  OBVIOUS
<1>2. /\ n = 256 * a + (n % 256)
      /\ a = 256 * b + (a % 256)
      /\ b = 256 * c + (b % 256)
  <2>1. \A m \in Int : m = 256 * (m \div 256) + (m % 256)
    OBVIOUS
  <2>2. b = a \div 256 /\ c = b \div 256
    BY <1>1
  <2>. HIDE DEF a, b, c
  <2>. QED  BY <1>1, <2>1, <2>2 DEF a
<1>3. -128 <= c /\ c < 128
  BY <1>1
<1>. HIDE DEF a, b, c
<1>4. Signed(c % 256) = c
  BY <1>1, <1>3 DEF Signed
<1>5. Bytes4(n) = << c % 256, b % 256, a % 256, n % 256 >>
  BY DEF Bytes4, a, b, c
<1>6. Value4(Bytes4(n)) =
        ((c * 256 + (b % 256)) * 256 + (a % 256)) * 256 + (n % 256)
  BY <1>4, <1>5 DEF Value4
<1>. QED  BY <1>1, <1>2, <1>6

-----------------------------------------------------------------------------
(* Bytes at a place.                                                        *)
BytesAt(s, place, bytes) ==
  /\ place + Len(bytes) <= Len(s)
  /\ \A n \in 1 .. Len(bytes) : s[place + n] = bytes[n]

(* Writing after them leaves them where they are, and puts what is written  *)
(* at the end.                                                              *)
LEMMA BytesAtConcat ==
  ASSUME NEW s \in Seq(Byte), NEW t \in Seq(Byte)
  PROVE  /\ BytesAt(s \o t, Len(s), t)
         /\ \A place \in Nat, bytes \in Seq(Byte) :
              BytesAt(s, place, bytes) => BytesAt(s \o t, place, bytes)
<1>. DEFINE u == s \o t
<1>1. /\ Len(u) = Len(s) + Len(t) /\ Len(s) \in Nat /\ Len(t) \in Nat
      /\ \A n \in 1 .. Len(s) : u[n] = s[n]
      /\ \A n \in 1 .. Len(t) : u[Len(s) + n] = t[n]
  BY ConcatBytes
<1>. HIDE DEF u
<1>2. BytesAt(u, Len(s), t)
  BY <1>1 DEF BytesAt
<1>3. ASSUME NEW place \in Nat, NEW bytes \in Seq(Byte), BytesAt(s, place, bytes)
      PROVE  BytesAt(u, place, bytes)
  <2>1. place + Len(bytes) <= Len(s) /\ Len(bytes) \in Nat
    BY <1>3 DEF BytesAt
  <2>2. ASSUME NEW n \in 1 .. Len(bytes) PROVE u[place + n] = bytes[n]
    <3>1. place + n \in 1 .. Len(s)
      BY <1>1, <2>1
    <3>. QED  BY <1>1, <1>3, <3>1 DEF BytesAt
  <2>. QED  BY <1>1, <2>1, <2>2 DEF BytesAt
<1>. QED  BY <1>2, <1>3 DEF u

(* A concatenation is at a place when its parts are one after the other.    *)
LEMMA BytesAtParts ==
  ASSUME NEW s \in Seq(Byte), NEW place \in Nat,
         NEW a \in Seq(Byte), NEW b \in Seq(Byte)
  PROVE  BytesAt(s, place, a \o b) <=>
           BytesAt(s, place, a) /\ BytesAt(s, place + Len(a), b)
<1>. DEFINE u == a \o b
<1>1. /\ Len(u) = Len(a) + Len(b) /\ Len(a) \in Nat /\ Len(b) \in Nat /\ Len(s) \in Nat
      /\ \A n \in 1 .. Len(a) : u[n] = a[n]
      /\ \A n \in 1 .. Len(b) : u[Len(a) + n] = b[n]
  BY ConcatBytes
<1>. HIDE DEF u
<1>2. ASSUME BytesAt(s, place, u)
      PROVE  BytesAt(s, place, a) /\ BytesAt(s, place + Len(a), b)
  <2>1. ASSUME NEW n \in 1 .. Len(a) PROVE s[place + n] = a[n]
    BY <1>1, <1>2 DEF BytesAt
  <2>2. ASSUME NEW n \in 1 .. Len(b) PROVE s[place + Len(a) + n] = b[n]
    <3>1. Len(a) + n \in 1 .. Len(u) /\ place + (Len(a) + n) = place + Len(a) + n
      BY <1>1
    <3>2. s[place + (Len(a) + n)] = u[Len(a) + n]
      BY <1>2, <3>1 DEF BytesAt
    <3>. QED  BY <1>1, <3>1, <3>2
  <2>. QED  BY <1>1, <1>2, <2>1, <2>2 DEF BytesAt
<1>3. ASSUME BytesAt(s, place, a), BytesAt(s, place + Len(a), b)
      PROVE  BytesAt(s, place, u)
  <2>1. ASSUME NEW n \in 1 .. Len(u) PROVE s[place + n] = u[n]
    <3>1. CASE n \in 1 .. Len(a)
      BY <1>1, <1>3, <3>1 DEF BytesAt
    <3>2. CASE n \notin 1 .. Len(a)
      <4>. DEFINE m == n - Len(a)
      <4>1. m \in 1 .. Len(b) /\ n = Len(a) + m /\ place + Len(a) + m = place + n
        BY <1>1, <3>2
      <4>. HIDE DEF m
      <4>2. s[place + Len(a) + m] = b[m] /\ u[Len(a) + m] = b[m]
        BY <1>1, <1>3, <4>1 DEF BytesAt
      <4>. QED  BY <4>1, <4>2
    <3>. QED  BY <3>1, <3>2
  <2>. QED  BY <1>1, <1>3, <2>1 DEF BytesAt
<1>. QED  BY <1>2, <1>3 DEF u

(* Overwriting four bytes puts them at their place, and leaves what is      *)
(* before or after it.                                                      *)
LEMMA BytesAtOverwrite ==
  ASSUME NEW s \in Seq(Byte), NEW value \in Int, NEW start \in Nat,
         start + 4 <= Len(s)
  PROVE  LET t == Overwrite(s, start, Bytes4(value))
         IN  /\ t \in Seq(Byte) /\ Len(t) = Len(s)
             /\ BytesAt(t, start, Bytes4(value))
             /\ \A place \in Nat, bytes \in Seq(Byte) :
                  /\ BytesAt(s, place, bytes)
                  /\ place + Len(bytes) <= start \/ start + 4 <= place
                  => BytesAt(t, place, bytes)
<1>. DEFINE t == Overwrite(s, start, Bytes4(value))
<1>1. t \in Seq(Byte) /\ Len(t) = Len(s) /\ Len(s) \in Nat /\ Len(Bytes4(value)) = 4
  <2>1. Len(Bytes4(value)) = 4
    BY DEF Bytes4
  <2>2. Bytes4(value) \in Seq(Byte)
    BY BytesAreBytes
  <2>3. t \in Seq(Byte) /\ Len(t) = Len(s)
    BY <2>2, OverwriteType
  <2>. QED  BY <2>1, <2>3
<1>2. /\ \A n \in 1 .. 4 : t[start + n] = Bytes4(value)[n]
      /\ \A n \in 1 .. Len(s) : n \notin start + 1 .. start + 4 => t[n] = s[n]
  BY OverwriteBytes
<1>. HIDE DEF t
<1>3. BytesAt(t, start, Bytes4(value))
  BY <1>1, <1>2 DEF BytesAt
<1>4. ASSUME NEW place \in Nat, NEW bytes \in Seq(Byte), BytesAt(s, place, bytes),
             place + Len(bytes) <= start \/ start + 4 <= place
      PROVE  BytesAt(t, place, bytes)
  <2>1. Len(bytes) \in Nat /\ place + Len(bytes) <= Len(s)
    BY <1>4 DEF BytesAt
  <2>2. ASSUME NEW n \in 1 .. Len(bytes) PROVE t[place + n] = bytes[n]
    <3>1. place + n \in 1 .. Len(s) /\ place + n \notin start + 1 .. start + 4
      BY <1>1, <1>4, <2>1
    <3>. QED  BY <1>2, <1>4, <3>1 DEF BytesAt
  <2>. QED  BY <1>1, <2>1, <2>2 DEF BytesAt
<1>. QED  BY <1>1, <1>3, <1>4 DEF t
===============================================================================
