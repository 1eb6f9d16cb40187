--------------------------- MODULE TcpLinkProofs ---------------------------
(* Machine-checked theorems about TcpLink. *)
EXTENDS TcpLink, SequenceLemmas, FiniteSetTheorems

\* There are two ends.
LEMMA OtherPeer ==
    \A p \in Peer : Other(p) \in Peer /\ Other(p) # p /\ Other(Other(p)) = p
  BY PeerAssumption DEF Peer, Other

-----------------------------------------------------------------------------
(* Sequences cut in two.                                                   *)

\* The two parts are the whole.
LEMMA TakeDrop ==
    ASSUME NEW S, NEW s \in Seq(S), NEW n \in Nat
    PROVE  /\ Take(s, n) \in Seq(S)
           /\ Drop(s, n) \in Seq(S)
           /\ Len(Take(s, n)) = IF n < Len(s) THEN n ELSE Len(s)
           /\ Len(Drop(s, n)) = IF n < Len(s) THEN Len(s) - n ELSE 0
           /\ \A i \in 1 .. Len(s) - n : Drop(s, n)[i] = s[n + i]
           /\ Take(s, n) \o Drop(s, n) = s
<1> DEFINE m == IF n < Len(s) THEN n ELSE Len(s)
           a == Take(s, n)
           b == Drop(s, n)
<1>1. m \in 0 .. Len(s) /\ Len(s) \in Nat /\ a = SubSeq(s, 1, m)
  BY DEF Take
<1>2. /\ a \in Seq(S) /\ Len(a) = m
      /\ \A i \in 1 .. m : a[i] = s[i]
  <2> HIDE DEF m, a
  <2> QED BY <1>1
<1>3. /\ b \in Seq(S) /\ Len(b) = IF n < Len(s) THEN Len(s) - n ELSE 0
      /\ \A i \in 1 .. Len(s) - n : b[i] = s[n + i]
  BY <1>1 DEF Drop
<1> HIDE DEF a, b
<1>4. a \o b \in Seq(S) /\ Len(a \o b) = Len(s)
  BY <1>1, <1>2, <1>3
<1>5. ASSUME NEW i \in 1 .. Len(s) PROVE (a \o b)[i] = s[i]
  <2>1. CASE i <= m
    BY <2>1, <1>1, <1>2, <1>3
  <2>2. CASE i > m
    <3>1. m = n /\ i - m \in 1 .. Len(s) - n /\ n + (i - m) = i
      BY <2>2
    <3>2. (a \o b)[i] = b[i - m]
      BY <2>2, <1>1, <1>2, <1>3, <3>1
    <3> QED BY <3>1, <3>2, <1>3
  <2>3. i <= m \/ i > m
    <3> HIDE DEF m
    <3> QED BY <1>1
  <2> QED BY <2>1, <2>2, <2>3
<1>6. a \o b = s
  BY <1>4, <1>5, SeqEqual
<1> QED BY <1>2, <1>3, <1>6 DEF a, b, m

\* Two ways to cut one sequence.
LEMMA SameCut ==
    ASSUME NEW S, NEW a \in Seq(S), NEW x \in Seq(S), NEW b \in Seq(S), NEW y \in Seq(S),
           a \o x = b \o y, Len(a) = Len(b)
    PROVE  a = b /\ x = y
<1>1. a = b
  <2>1. \A i \in 1 .. Len(a) : a[i] = (a \o x)[i] /\ b[i] = (b \o y)[i]
    OBVIOUS
  <2> QED BY <2>1, SeqEqual
<1>2. x = y
  <2>1. Len(a \o x) = Len(a) + Len(x) /\ Len(b \o y) = Len(b) + Len(y)
    OBVIOUS
  <2>2. Len(x) = Len(y)
    BY <2>1
  <2>3. ASSUME NEW i \in 1 .. Len(x) PROVE x[i] = y[i]
    <3>1. x[i] = (a \o x)[Len(a) + i] /\ y[i] = (b \o y)[Len(b) + i]
      BY <2>2
    <3> QED BY <3>1
  <2> QED BY <2>2, <2>3, SeqEqual
<1> QED BY <1>1, <1>2

\* A beginning and the next element are a longer beginning.
LEMMA SubSeqAppend ==
    ASSUME NEW S, NEW s \in Seq(S), NEW n \in Nat, n < Len(s)
    PROVE  Append(SubSeq(s, 1, n), s[n + 1]) = SubSeq(s, 1, n + 1)
<1> DEFINE a == SubSeq(s, 1, n)
           b == SubSeq(s, 1, n + 1)
           e == s[n + 1]
<1>1. /\ a \in Seq(S) /\ b \in Seq(S) /\ e \in S /\ Len(a) = n /\ Len(b) = n + 1
      /\ \A i \in 1 .. n : a[i] = s[i]
      /\ \A i \in 1 .. n + 1 : b[i] = s[i]
  OBVIOUS
<1> HIDE DEF a, b
<1>2. /\ Append(a, e) \in Seq(S) /\ Len(Append(a, e)) = n + 1
      /\ \A i \in 1 .. n : Append(a, e)[i] = s[i]
      /\ Append(a, e)[n + 1] = e
  BY <1>1
<1>3. \A i \in 1 .. n + 1 : Append(a, e)[i] = b[i]
  BY <1>1, <1>2
<1>4. Append(a, e) = b
  BY <1>1, <1>2, <1>3, SeqEqual
<1> QED BY <1>4 DEF a, b

\* What is appended comes after what is left.
LEMMA DropAppend ==
    ASSUME NEW S, NEW s \in Seq(S), NEW e \in S, NEW n \in Nat, n <= Len(s)
    PROVE  Drop(Append(s, e), n) = Append(Drop(s, n), e) /\ Drop(s, n) \in Seq(S)
<1> DEFINE t == Append(s, e)
           a == Drop(s, n)
           b == Drop(t, n)
           m == Len(s) - n
<1>1. /\ Len(s) \in Nat /\ m \in Nat /\ t \in Seq(S) /\ Len(t) = Len(s) + 1
      /\ \A i \in 1 .. Len(s) : t[i] = s[i]
      /\ t[Len(s) + 1] = e
  OBVIOUS
<1> HIDE DEF t
<1>2. a \in Seq(S) /\ Len(a) = m /\ \A i \in 1 .. m : a[i] = s[n + i]
  <2>1. Len(a) = IF n < Len(s) THEN Len(s) - n ELSE 0
    BY TakeDrop
  <2> QED BY <1>1, <2>1, TakeDrop
<1>3. b \in Seq(S) /\ Len(b) = m + 1 /\ \A i \in 1 .. m + 1 : b[i] = t[n + i]
  <2>1. Len(b) = IF n < Len(t) THEN Len(t) - n ELSE 0
    BY <1>1, TakeDrop
  <2>2. n < Len(t) /\ Len(t) - n = m + 1
    BY <1>1
  <2> QED BY <1>1, <2>1, <2>2, TakeDrop
<1> HIDE DEF a, b
<1>4. /\ Append(a, e) \in Seq(S) /\ Len(Append(a, e)) = m + 1
      /\ \A i \in 1 .. m : Append(a, e)[i] = a[i]
      /\ Append(a, e)[m + 1] = e
  BY <1>1, <1>2
<1>5. ASSUME NEW i \in 1 .. m + 1 PROVE b[i] = Append(a, e)[i]
  <2>1. CASE i \in 1 .. m
    <3>1. n + i \in 1 .. Len(s)
      BY <1>1, <2>1
    <3> QED BY <1>1, <1>2, <1>3, <1>4, <2>1, <3>1
  <2>2. CASE i = m + 1
    <3>1. n + i = Len(s) + 1
      BY <1>1, <2>2
    <3> QED BY <1>1, <1>3, <1>4, <2>2, <3>1
  <2>3. i \in 1 .. m \/ i = m + 1
    <3>1. m \in Nat
      BY <1>1
    <3> HIDE DEF m
    <3> QED BY <3>1
  <2> QED BY <2>1, <2>2, <2>3
<1>6. b = Append(a, e)
  BY <1>3, <1>4, <1>5, SeqEqual
<1> QED BY <1>2, <1>6 DEF a, b, t

\* What is dropped in two goes, and what was there before.
LEMMA DropDrop ==
    ASSUME NEW S, NEW s \in Seq(S), NEW n \in 0 .. Len(s), NEW m \in 0 .. Len(s) - n
    PROVE  /\ Drop(s, n) \in Seq(S) /\ Len(Drop(s, n)) = Len(s) - n
           /\ Drop(Drop(s, n), m) = Drop(s, n + m)
           /\ SubSeq(s, 1, n) \o SubSeq(Drop(s, n), 1, m) = SubSeq(s, 1, n + m)
<1> DEFINE a == Drop(s, n)
           k == Len(s)
<1>1. k \in Nat /\ n \in Nat /\ m \in Nat /\ n + m \in Nat /\ n + m <= k /\ n <= k
  OBVIOUS
<1> HIDE DEF k
<1>2. a \in Seq(S) /\ Len(a) = k - n /\ \A i \in 1 .. k - n : a[i] = s[n + i]
  <2>1. Len(a) = IF n < k THEN k - n ELSE 0
    BY <1>1, TakeDrop DEF k
  <2> QED BY <1>1, <2>1, TakeDrop DEF k
<1> HIDE DEF a
<1>3. Drop(a, m) = Drop(s, n + m)
  <2> DEFINE b == Drop(a, m)
             c == Drop(s, n + m)
             d == k - (n + m)
  <2>1. d \in Nat /\ (k - n) - m = d
    BY <1>1
  <2>2. b \in Seq(S) /\ Len(b) = d /\ \A i \in 1 .. d : b[i] = a[m + i]
    <3>1. /\ b \in Seq(S) /\ Len(b) = IF m < Len(a) THEN Len(a) - m ELSE 0
          /\ \A i \in 1 .. Len(a) - m : b[i] = a[m + i]
      BY <1>1, <1>2, TakeDrop
    <3> HIDE DEF b
    <3> QED BY <1>1, <1>2, <2>1, <3>1
  <2>3. c \in Seq(S) /\ Len(c) = d /\ \A i \in 1 .. d : c[i] = s[(n + m) + i]
    <3>1. /\ c \in Seq(S) /\ Len(c) = IF n + m < k THEN k - (n + m) ELSE 0
          /\ \A i \in 1 .. k - (n + m) : c[i] = s[(n + m) + i]
      BY <1>1, TakeDrop DEF k
    <3> HIDE DEF c
    <3> QED BY <1>1, <2>1, <3>1
  <2> HIDE DEF b, c, d
  <2>4. ASSUME NEW i \in 1 .. d PROVE b[i] = c[i]
    <3>1. m + i \in 1 .. k - n /\ n + (m + i) = (n + m) + i
      BY <1>1, <2>1 DEF d
    <3> QED BY <1>2, <2>2, <2>3, <3>1
  <2> QED BY <2>2, <2>3, <2>4, SeqEqual DEF b, c
<1>4. SubSeq(s, 1, n) \o SubSeq(a, 1, m) = SubSeq(s, 1, n + m)
  <2> DEFINE x == SubSeq(s, 1, n)
             y == SubSeq(a, 1, m)
             z == SubSeq(s, 1, n + m)
  <2>1. x \in Seq(S) /\ Len(x) = n /\ \A i \in 1 .. n : x[i] = s[i]
    BY <1>1 DEF k
  <2>2. y \in Seq(S) /\ Len(y) = m /\ \A i \in 1 .. m : y[i] = a[i]
    BY <1>1, <1>2
  <2>3. z \in Seq(S) /\ Len(z) = n + m /\ \A i \in 1 .. n + m : z[i] = s[i]
    BY <1>1 DEF k
  <2> HIDE DEF x, y, z
  <2>4. /\ x \o y \in Seq(S) /\ Len(x \o y) = n + m
        /\ \A i \in 1 .. n : (x \o y)[i] = x[i]
        /\ \A i \in n + 1 .. n + m : (x \o y)[i] = y[i - n]
    BY <1>1, <2>1, <2>2
  <2>5. ASSUME NEW i \in 1 .. n + m PROVE (x \o y)[i] = z[i]
    <3>1. CASE i \in 1 .. n
      BY <2>1, <2>3, <2>4, <3>1
    <3>2. CASE i \in n + 1 .. n + m
      <4>1. i - n \in 1 .. m /\ i - n \in 1 .. k - n /\ n + (i - n) = i
        BY <1>1, <3>2
      <4>2. (x \o y)[i] = y[i - n] /\ y[i - n] = a[i - n] /\ a[i - n] = s[n + (i - n)]
        BY <1>2, <2>2, <2>4, <3>2, <4>1
      <4> QED BY <2>3, <4>1, <4>2
    <3>3. i \in 1 .. n \/ i \in n + 1 .. n + m
      BY <1>1
    <3> QED BY <3>1, <3>2, <3>3
  <2>6. x \o y = z
    BY <2>3, <2>4, <2>5, SeqEqual
  <2> QED BY <2>6 DEF x, y, z
<1> QED BY <1>2, <1>3, <1>4 DEF a, k

-----------------------------------------------------------------------------
(* Sizes and packets.                                                      *)

\* Two bytes hold any size that is valid, and say which.
LEMMA SizeBytesType ==
    ASSUME NEW m \in 1 .. MaxSize
    PROVE  /\ SizeBytes(m) \in Seq(Byte) /\ Len(SizeBytes(m)) = 2
           /\ Size(SizeBytes(m)) = m
<1> DEFINE d == m \div Base
           r == m % Base
<1>1. Base \in Nat \ {0} /\ m \in Nat /\ m < Base * Base
  <2>1. Base * Base \in Nat
    BY SizeAssumption
  <2> QED BY <2>1, SizeAssumption
<1>2. d \in Nat /\ r \in 0 .. Base - 1 /\ m = d * Base + r
  BY <1>1
<1> HIDE DEF d, r
<1>3. d < Base
  BY <1>1, <1>2
<1>4. d \in Byte /\ r \in Byte
  BY <1>1, <1>2, <1>3 DEF Byte
<1>5. SizeBytes(m) = <<d, r>>
  BY DEF SizeBytes, d, r
<1>6. <<d, r>> \in Seq(Byte) /\ Len(<<d, r>>) = 2 /\ <<d, r>>[1] = d /\ <<d, r>>[2] = r
  BY <1>4
<1> QED BY <1>2, <1>5, <1>6 DEF Size

\* A packet and its framing are bytes.
LEMMA PacketType ==
    ASSUME NEW k \in Packet
    PROVE  /\ k \in Seq(Byte) /\ Len(k) \in 1 .. MaxSize
           /\ PrependSize(k) \in Seq(Byte) /\ Len(PrependSize(k)) = Len(k) + 2
<1>1. PICK n \in 1 .. MaxSize : k \in [1 .. n -> Byte]
  BY PacketAssumption
<1>2. MaxSize \in Nat /\ n \in Nat
  BY SizeAssumption
<1>3. k \in Seq(Byte) /\ Len(k) = n
  BY <1>1, <1>2, SeqDef
<1>4. SizeBytes(Len(k)) \in Seq(Byte) /\ Len(SizeBytes(Len(k))) = 2
  BY <1>3, SizeBytesType
<1> DEFINE h == SizeBytes(Len(k))
<1>5. PrependSize(k) = h \o k
  BY DEF PrependSize
<1> HIDE DEF h
<1>6. h \o k \in Seq(Byte) /\ Len(h \o k) = Len(k) + 2
  <2>1. h \in Seq(Byte) /\ k \in Seq(Byte)
    BY <1>3, <1>4 DEF h
  <2>2. h \o k \in Seq(Byte) /\ Len(h \o k) = Len(h) + Len(k)
    BY <2>1, ConcatProperties
  <2> QED BY <1>3, <1>4, <2>2 DEF h
<1> QED BY <1>3, <1>5, <1>6

\* So are packets framed one after the other.
LEMMA FramedType ==
    ASSUME NEW t \in Seq(Packet)
    PROVE  /\ [i \in DOMAIN t |-> PrependSize(t[i])] \in Lists(Byte)
           /\ Len([i \in DOMAIN t |-> PrependSize(t[i])]) = Len(t)
           /\ Framed(t) \in Seq(Byte)
<1> DEFINE f == [i \in 1 .. Len(t) |-> PrependSize(t[i])]
<1>1. \A i \in 1 .. Len(t) : PrependSize(t[i]) \in Seq(Byte)
  BY PacketType
<1>2. f \in [1 .. Len(t) -> Seq(Byte)] /\ Len(t) \in Nat
  BY <1>1
<1> HIDE DEF f
<1>3. f \in Lists(Byte) /\ Len(f) = Len(t)
  <2> DEFINE B == Seq(Byte)
             n == Len(t)
  <2>1. f \in [1 .. n -> B] /\ n \in Nat
    BY <1>2
  <2> HIDE DEF B, n
  <2>2. f \in Seq(B) /\ Len(f) = n
    BY <2>1, SeqDef
  <2> QED BY <2>2 DEF B, n, Lists
<1>4. DOMAIN t = 1 .. Len(t)
  OBVIOUS
<1>5. FlattenSeq(f) \in Seq(Byte)
  BY <1>3, FlattenType
<1> QED BY <1>3, <1>4, <1>5 DEF f, Framed

\* No packets, no bytes.
LEMMA FramedNone == Framed(<<>>) = <<>>
<1>1. [i \in DOMAIN <<>> |-> PrependSize(<<>>[i])] = <<>>
  OBVIOUS
<1> QED BY <1>1, FlattenEmpty DEF Framed

\* The bytes of one more packet come last.
LEMMA FramedAppend ==
    ASSUME NEW t \in Seq(Packet), NEW k \in Packet
    PROVE  Framed(Append(t, k)) = Framed(t) \o PrependSize(k)
<1> DEFINE f == [i \in DOMAIN t |-> PrependSize(t[i])]
           u == Append(t, k)
           g == [i \in DOMAIN u |-> PrependSize(u[i])]
           e == PrependSize(k)
<1>1. f \in Lists(Byte) /\ Len(f) = Len(t) /\ e \in Seq(Byte)
  BY FramedType, PacketType
<1>2. /\ Len(t) \in Nat /\ u \in Seq(Packet) /\ Len(u) = Len(t) + 1
      /\ \A i \in 1 .. Len(t) : u[i] = t[i]
      /\ u[Len(t) + 1] = k
      /\ DOMAIN t = 1 .. Len(t)
  OBVIOUS
<1>3. g \in Lists(Byte) /\ Len(g) = Len(u) /\ DOMAIN u = 1 .. Len(u)
  <2> HIDE DEF u
  <2> QED BY <1>2, FramedType
<1>4. \A i \in 1 .. Len(t) : g[i] = f[i]
  <2> HIDE DEF u
  <2> QED BY <1>2, <1>3
<1>5. g[Len(t) + 1] = e
  <2> HIDE DEF u
  <2> QED BY <1>2, <1>3
<1>6. g = Append(f, e)
  <2> HIDE DEF f, g, e, u
  <2> DEFINE B == Seq(Byte)
  <2>1. f \in Seq(B) /\ g \in Seq(B) /\ e \in B /\ Len(f) = Len(t) /\ Len(g) = Len(t) + 1
    BY <1>1, <1>2, <1>3 DEF Lists
  <2> HIDE DEF B
  <2>2. /\ Append(f, e) \in Seq(B) /\ Len(Append(f, e)) = Len(g)
        /\ \A i \in 1 .. Len(f) : Append(f, e)[i] = f[i]
        /\ Append(f, e)[Len(f) + 1] = e
    BY <2>1
  <2>3. \A i \in 1 .. Len(g) : g[i] = Append(f, e)[i]
    BY <1>2, <1>4, <1>5, <2>1, <2>2
  <2> QED BY <2>1, <2>2, <2>3, SeqEqual
<1>7. FlattenSeq(g) = FlattenSeq(f) \o e
  <2> HIDE DEF f, g, e
  <2> QED BY <1>1, <1>6, FlattenAppend
<1> QED BY <1>7 DEF Framed

\* The first of the packets that are left.
LEMMA NextFrame ==
    ASSUME NEW t \in Seq(Packet), NEW n \in Nat, n < Len(t)
    PROVE  /\ t[n + 1] \in Packet
           /\ Framed(Drop(t, n)) = PrependSize(t[n + 1]) \o Framed(Drop(t, n + 1))
<1> DEFINE u == Drop(t, n)
           v == Drop(t, n + 1)
           f == [i \in DOMAIN u |-> PrependSize(u[i])]
           g == [i \in DOMAIN v |-> PrependSize(v[i])]
<1>1. /\ u \in Seq(Packet) /\ v \in Seq(Packet) /\ Len(t) \in Nat
      /\ Len(u) = Len(t) - n /\ Len(v) = Len(t) - (n + 1)
      /\ \A i \in 1 .. Len(t) - n : u[i] = t[n + i]
      /\ \A i \in 1 .. Len(t) - (n + 1) : v[i] = t[n + 1 + i]
  <2>1. Len(t) \in Nat /\ n + 1 \in Nat
    OBVIOUS
  <2>2. /\ u \in Seq(Packet) /\ Len(u) = IF n < Len(t) THEN Len(t) - n ELSE 0
        /\ \A i \in 1 .. Len(t) - n : u[i] = t[n + i]
    BY TakeDrop
  <2>3. /\ v \in Seq(Packet)
        /\ Len(v) = IF n + 1 < Len(t) THEN Len(t) - (n + 1) ELSE 0
        /\ \A i \in 1 .. Len(t) - (n + 1) : v[i] = t[n + 1 + i]
    BY <2>1, TakeDrop
  <2> HIDE DEF u, v
  <2>4. Len(u) = Len(t) - n /\ Len(v) = Len(t) - (n + 1)
    BY <2>1, <2>2, <2>3
  <2> QED BY <2>1, <2>2, <2>3, <2>4
<1> HIDE DEF u, v
<1>2. /\ f \in Lists(Byte) /\ Len(f) = Len(t) - n
      /\ g \in Lists(Byte) /\ Len(g) = Len(f) - 1
      /\ DOMAIN u = 1 .. Len(t) - n /\ DOMAIN v = 1 .. Len(f) - 1
  <2>1. f \in Lists(Byte) /\ Len(f) = Len(u) /\ g \in Lists(Byte) /\ Len(g) = Len(v)
    BY <1>1, FramedType
  <2>2. DOMAIN u = 1 .. Len(u) /\ DOMAIN v = 1 .. Len(v)
    BY <1>1
  <2> HIDE DEF f, g
  <2> QED BY <1>1, <2>1, <2>2
<1>3. f[1] = PrependSize(t[n + 1])
  BY <1>1, <1>2
<1>4. \A i \in 1 .. Len(f) - 1 : g[i] = f[i + 1]
  <2> TAKE i \in 1 .. Len(f) - 1
  <2>1. i + 1 \in 1 .. Len(t) - n
    BY <1>1, <1>2
  <2>2. f[i + 1] = PrependSize(u[i + 1]) /\ g[i] = PrependSize(v[i])
    BY <2>1, <1>2
  <2>3. u[i + 1] = t[n + (i + 1)] /\ v[i] = t[n + 1 + i]
    BY <2>1, <1>1, <1>2
  <2> QED BY <2>2, <2>3
<1> HIDE DEF f, g
<1>5. Head(f) = f[1] /\ Tail(f) = g
  <2> DEFINE B == Seq(Byte)
  <2>1. f \in Seq(B) /\ g \in Seq(B) /\ Len(f) > 0 /\ Len(g) = Len(f) - 1 /\ Len(f) \in Nat
    BY <1>1, <1>2 DEF Lists
  <2> HIDE DEF B
  <2>2. /\ Tail(f) \in Seq(B) /\ Len(Tail(f)) = Len(g)
        /\ \A i \in 1 .. Len(f) - 1 : Tail(f)[i] = f[i + 1]
        /\ Head(f) = f[1]
    BY <2>1
  <2>3. \A i \in 1 .. Len(g) : Tail(f)[i] = g[i]
    BY <1>4, <2>1, <2>2
  <2> QED BY <2>1, <2>2, <2>3, SeqEqual
<1>6. FlattenSeq(f) = Head(f) \o FlattenSeq(Tail(f))
  <2>1. Len(f) > 0
    BY <1>1, <1>2
  <2> QED BY <1>2, <2>1, FlattenCons
<1>7. t[n + 1] \in Packet
  BY <1>1
<1>8. FlattenSeq(f) = Framed(u) /\ FlattenSeq(g) = Framed(v)
  BY DEF f, g, Framed
<1> QED BY <1>3, <1>5, <1>6, <1>7, <1>8 DEF u, v

\* After the last packet nothing is left.
LEMMA LastFrame ==
    ASSUME NEW t \in Seq(Packet)
    PROVE  Framed(Drop(t, Len(t))) = <<>>
<1>1. Drop(t, Len(t)) = <<>>
  BY DEF Drop
<1> QED BY <1>1, FramedNone

-----------------------------------------------------------------------------
(* The algebra of byte strings, with Cat and Str left unexpanded.          *)

Str == Seq(Byte)
Cat(a, b) == a \o b

\* Concatenation of byte strings.
LEMMA StrFacts ==
    /\ <<>> \in Str
    /\ \A a \in Str : Len(a) \in Nat
    /\ \A a, b \in Str : Cat(a, b) \in Str
    /\ \A a, b \in Str : Len(Cat(a, b)) = Len(a) + Len(b)
    /\ \A a, b, c \in Str : Cat(Cat(a, b), c) = Cat(a, Cat(b, c))
    /\ \A a \in Str : Cat(<<>>, a) = a /\ Cat(a, <<>>) = a
    /\ \A a \in Str : Len(a) = 0 => a = <<>>
<1>1. ASSUME NEW S
      PROVE  /\ <<>> \in Seq(S)
             /\ \A a \in Seq(S) : Len(a) \in Nat
             /\ \A a, b \in Seq(S) : a \o b \in Seq(S)
             /\ \A a, b \in Seq(S) : Len(a \o b) = Len(a) + Len(b)
             /\ \A a \in Seq(S) : <<>> \o a = a /\ a \o <<>> = a
             /\ \A a \in Seq(S) : Len(a) = 0 => a = <<>>
  OBVIOUS
<1>2. ASSUME NEW S, NEW a \in Seq(S), NEW b \in Seq(S), NEW c \in Seq(S)
      PROVE  (a \o b) \o c = a \o (b \o c)
  BY ConcatAssociative
<1> QED BY <1>1, <1>2 DEF Str, Cat

\* Cutting byte strings.
LEMMA StrCuts ==
    /\ \A a, x, b, y \in Str :
         Cat(a, x) = Cat(b, y) /\ Len(a) = Len(b) => a = b /\ x = y
    /\ \A s \in Str, n \in Nat :
         /\ Take(s, n) \in Str /\ Drop(s, n) \in Str
         /\ Cat(Take(s, n), Drop(s, n)) = s
         /\ Len(Take(s, n)) = IF n < Len(s) THEN n ELSE Len(s)
         /\ Len(Drop(s, n)) = IF n < Len(s) THEN Len(s) - n ELSE 0
<1>1. ASSUME NEW a \in Seq(Byte), NEW x \in Seq(Byte), NEW b \in Seq(Byte), NEW y \in Seq(Byte),
             a \o x = b \o y, Len(a) = Len(b)
      PROVE  a = b /\ x = y
  BY <1>1, SameCut
<1>2. ASSUME NEW t \in Seq(Byte), NEW n \in Nat
      PROVE  /\ Take(t, n) \in Seq(Byte) /\ Drop(t, n) \in Seq(Byte)
             /\ Take(t, n) \o Drop(t, n) = t
             /\ Len(Take(t, n)) = IF n < Len(t) THEN n ELSE Len(t)
             /\ Len(Drop(t, n)) = IF n < Len(t) THEN Len(t) - n ELSE 0
  BY TakeDrop
<1> QED BY <1>1, <1>2 DEF Str, Cat

\* Sizes and packets as byte strings.
LEMMA StrPackets ==
    /\ \A m \in 1 .. MaxSize :
         SizeBytes(m) \in Str /\ Len(SizeBytes(m)) = 2 /\ Size(SizeBytes(m)) = m
    /\ \A k \in Packet :
         /\ k \in Str /\ Len(k) \in 1 .. MaxSize
         /\ PrependSize(k) = Cat(SizeBytes(Len(k)), k) /\ PrependSize(k) \in Str
    /\ \A t \in Seq(Packet) :
         /\ Framed(t) \in Str
         /\ \A n \in Nat : Framed(Drop(t, n)) \in Str
         /\ \A n \in Nat : n < Len(t) =>
              /\ t[n + 1] \in Packet
              /\ Framed(Drop(t, n)) = Cat(PrependSize(t[n + 1]), Framed(Drop(t, n + 1)))
<1>1. \A m \in 1 .. MaxSize :
         SizeBytes(m) \in Str /\ Len(SizeBytes(m)) = 2 /\ Size(SizeBytes(m)) = m
  BY SizeBytesType DEF Str
<1>2. ASSUME NEW k \in Packet
      PROVE  /\ k \in Str /\ Len(k) \in 1 .. MaxSize /\ PrependSize(k) \in Str
             /\ PrependSize(k) = Cat(SizeBytes(Len(k)), k)
  BY PacketType DEF Str, Cat, PrependSize
<1>3. ASSUME NEW t \in Seq(Packet)
      PROVE  Framed(t) \in Str
  BY FramedType DEF Str
<1>4. ASSUME NEW t \in Seq(Packet), NEW n \in Nat
      PROVE  Framed(Drop(t, n)) \in Str
  <2>1. Drop(t, n) \in Seq(Packet)
    BY TakeDrop
  <2> QED BY <2>1, <1>3
<1>5. ASSUME NEW t \in Seq(Packet), NEW n \in Nat, n < Len(t)
      PROVE  /\ t[n + 1] \in Packet
             /\ Framed(Drop(t, n)) = Cat(PrependSize(t[n + 1]), Framed(Drop(t, n + 1)))
  BY <1>5, NextFrame DEF Cat
<1> QED BY <1>1, <1>2, <1>3, <1>4, <1>5

-----------------------------------------------------------------------------
(* The receiver's passes over what was read.                               *)

\* What st keeps and has not used, with the bytes still to come.
Left(st, rest) == Cat(SizeRead(st), Cat(st.buffer, Cat(st.read, rest)))

\* st has found the first of the packets pending, and what is left are the others.
Parses(st, rest, pending) ==
    /\ st \in Stream /\ ~st.error /\ Waiting(st)
    /\ Len(st.found) <= Len(pending)
    /\ st.found = SubSeq(pending, 1, Len(st.found))
    /\ Left(st, rest) = Framed(Drop(pending, Len(st.found)))

\* With a size declared, the packet it is of comes next.
LEMMA DeclaredIsNext ==
    ASSUME NEW pending \in Seq(Packet), NEW n \in 0 .. Len(pending),
           NEW h \in Str, Len(h) = 2, NEW t \in Str,
           Cat(h, t) = Framed(Drop(pending, n))
    PROVE  /\ n < Len(pending)
           /\ h = SizeBytes(Len(pending[n + 1]))
           /\ t = Cat(pending[n + 1], Framed(Drop(pending, n + 1)))
<1>1. n < Len(pending) /\ n \in Nat
  <2>0. Len(pending) \in Nat
    OBVIOUS
  <2>1. SUFFICES ASSUME n = Len(pending) PROVE FALSE
    BY <2>0
  <2>2. Cat(h, t) = <<>>
    BY <2>1, LastFrame
  <2>3. Len(Cat(h, t)) = Len(h) + Len(t) /\ Len(t) \in Nat /\ Len(<<>>) = 0
    BY StrFacts
  <2> QED BY <2>2, <2>3
<1> DEFINE k == pending[n + 1]
           e == SizeBytes(Len(k))
           later == Framed(Drop(pending, n + 1))
<1>2. k \in Packet /\ Framed(Drop(pending, n)) = Cat(PrependSize(k), later)
  BY <1>1, StrPackets
<1>3. k \in Str /\ PrependSize(k) = Cat(e, k) /\ e \in Str /\ Len(e) = 2
  BY <1>2, StrPackets
<1>4. later \in Str
  <2>1. n + 1 \in Nat
    BY <1>1
  <2> QED BY <2>1, StrPackets
<1> HIDE DEF k, e, later
<1>5. Cat(h, t) = Cat(e, Cat(k, later)) /\ Cat(k, later) \in Str
  BY <1>2, <1>3, <1>4, StrFacts
<1>6. h = e /\ t = Cat(k, later)
  BY <1>3, <1>5, StrCuts
<1> QED BY <1>1, <1>6 DEF k, e, later

\* Filling the buffer for a size declared, and taking the packet if it is whole.
LEMMA FillParses ==
    ASSUME NEW st, NEW rest \in Str, NEW pending \in Seq(Packet),
           Parses(st, rest, pending), st.declared > 0
    PROVE  /\ Parses(Get(Fill(st)), rest, pending)
           /\ Len(Get(Fill(st)).read) <= Len(st.read)
           /\ Len(st.read) > 0 => Len(Get(Fill(st)).read) < Len(st.read)
<1> DEFINE size == st.declared
           b == st.buffer
           r == st.read
           n == Len(st.found)
           needed == size - Len(b)
           a == Take(r, needed)
           b2 == Cat(b, a)
           r2 == Drop(r, needed)
           u == [st EXCEPT !.buffer = b2, !.read = r2]
           k == pending[n + 1]
           later == Framed(Drop(pending, n + 1))
<1>1. /\ st \in Stream /\ ~st.error /\ Waiting(st) /\ n <= Len(pending)
      /\ st.found = SubSeq(pending, 1, n)
      /\ Left(st, rest) = Framed(Drop(pending, n))
  BY DEF Parses
<1>2. /\ size \in 1 .. MaxSize /\ b \in Str /\ r \in Str
      /\ st.found \in Lists(Byte) /\ Len(b) < size /\ MaxSize \in Nat
  BY <1>1, SizeAssumption DEF Stream, Waiting, Str, Lists
<1>3. n \in 0 .. Len(pending) /\ n \in Nat /\ Len(pending) \in Nat
  <2>1. n \in Nat /\ Len(pending) \in Nat
    BY <1>2 DEF Lists
  <2> QED BY <1>1, <2>1
<1>4. Len(b) \in Nat /\ Len(r) \in Nat /\ needed \in Nat /\ needed > 0
  <2>1. Len(b) \in Nat /\ Len(r) \in Nat
    BY <1>2, StrFacts
  <2> QED BY <1>2, <2>1
<1> HIDE DEF needed
<1>5. /\ a \in Str /\ r2 \in Str /\ Cat(a, r2) = r
      /\ Len(a) = IF needed < Len(r) THEN needed ELSE Len(r)
      /\ Len(r2) = IF needed < Len(r) THEN Len(r) - needed ELSE 0
  BY <1>2, <1>4, StrCuts
<1> HIDE DEF a, r2
<1>6. b2 \in Str /\ Cat(b2, r2) = Cat(b, r) /\ Len(b2) = Len(b) + Len(a)
  <2>1. b \in Str /\ a \in Str /\ r2 \in Str /\ Cat(a, r2) = r
    BY <1>2, <1>5
  <2> HIDE DEF b, r
  <2> QED BY <2>1, StrFacts
<1>7. Fill(st) = u
  BY <1>1 DEF Fill, a, needed, r2, Cat
<1> HIDE DEF b2
<1>8. /\ u \in Stream /\ u.declared = size /\ u.buffer = b2 /\ u.read = r2
      /\ u.found = st.found /\ ~u.error
  BY <1>1, <1>5, <1>6 DEF Stream, Str
<1> HIDE DEF u
<1>9. SizeRead(st) = SizeBytes(size) /\ SizeBytes(size) \in Str /\ Len(SizeBytes(size)) = 2
  BY <1>2, StrPackets DEF SizeRead
<1>10. /\ n < Len(pending) /\ SizeBytes(size) = SizeBytes(Len(k))
       /\ Cat(b, Cat(r, rest)) = Cat(k, later)
  <2> DEFINE h == SizeBytes(size)
             t == Cat(b, Cat(r, rest))
  <2>1. Cat(h, t) = Framed(Drop(pending, n))
    BY <1>1, <1>9 DEF Left
  <2>2. t \in Str /\ h \in Str /\ Len(h) = 2
    BY <1>2, <1>9, StrFacts
  <2> HIDE DEF t, h, n
  <2>3. /\ n < Len(pending) /\ h = SizeBytes(Len(pending[n + 1]))
        /\ t = Cat(pending[n + 1], Framed(Drop(pending, n + 1)))
    BY <1>3, <2>1, <2>2, DeclaredIsNext
  <2> QED BY <2>3 DEF t, h
<1>11. /\ k \in Packet /\ k \in Str /\ Len(k) \in 1 .. MaxSize
       /\ later \in Str
  <2>1. n + 1 \in Nat
    BY <1>3
  <2>2. k \in Packet
    BY <1>3, <1>10, StrPackets
  <2> QED BY <2>1, <2>2, StrPackets
<1>12. size = Len(k)
  <2>1. Size(SizeBytes(size)) = size /\ Size(SizeBytes(Len(k))) = Len(k)
    BY <1>2, <1>11, StrPackets
  <2> QED BY <1>10, <2>1
<1>13. Cat(b2, Cat(r2, rest)) = Cat(k, later) /\ Cat(r2, rest) \in Str
  <2>1. Cat(r2, rest) \in Str /\ Cat(b2, Cat(r2, rest)) = Cat(Cat(b2, r2), rest)
    BY <1>5, <1>6, StrFacts
  <2>2. Cat(Cat(b, r), rest) = Cat(b, Cat(r, rest))
    BY <1>2, StrFacts
  <2> QED BY <1>6, <1>10, <2>1, <2>2
<1> HIDE DEF k, later
<1>14. CASE Len(b2) = size
  <2> DEFINE f == Append(st.found, k)
             v == [u EXCEPT !.found = f, !.buffer = <<>>, !.declared = 0]
  <2>1. b2 = k /\ Cat(r2, rest) = later
    BY <1>6, <1>11, <1>12, <1>13, <1>14, StrCuts
  <2>2. Get(Fill(st)) = v
    BY <1>2, <1>7, <1>8, <1>14, <2>1 DEF Get
  <2>3. f \in Lists(Byte) /\ Len(f) = n + 1 /\ f = SubSeq(pending, 1, n + 1)
    <3> DEFINE g == st.found
               B == Seq(Byte)
    <3>1. g \in Seq(B) /\ k \in B /\ n = Len(g)
      BY <1>2, <1>11 DEF Lists, Str
    <3>2. g = SubSeq(pending, 1, n) /\ k = pending[n + 1]
      BY <1>1 DEF k
    <3>3. Append(SubSeq(pending, 1, n), pending[n + 1]) = SubSeq(pending, 1, n + 1)
      <4> HIDE DEF n
      <4> QED BY <1>3, <1>10, SubSeqAppend
    <3> HIDE DEF g, B, n
    <3>4. Append(g, k) \in Seq(B) /\ Len(Append(g, k)) = n + 1
      BY <3>1
    <3> QED BY <3>2, <3>3, <3>4 DEF g, B, Lists
  <2> HIDE DEF f
  <2>4. v \in Stream
    <3>1. 0 \in 0 .. MaxSize /\ <<>> \in Seq(Byte) /\ f \in Seq(Seq(Byte))
      BY <1>2, <2>3 DEF Lists
    <3> HIDE DEF b, r, n, size
    <3> QED BY <1>8, <3>1 DEF Stream
  <2>5. ~v.error /\ v.declared = 0 /\ v.buffer = <<>> /\ v.read = r2 /\ v.found = f
    BY <1>8 DEF Stream
  <2> HIDE DEF v
  <2>6. Left(v, rest) = later
    <3>1. SizeRead(v) = <<>>
      BY <2>5 DEF SizeRead
    <3>2. Cat(<<>>, Cat(<<>>, Cat(r2, rest))) = Cat(r2, rest)
      BY <1>13, StrFacts
    <3> QED BY <2>1, <2>5, <3>1, <3>2 DEF Left
  <2>7. Waiting(v)
    <3>1. Len(<<>>) = 0
      OBVIOUS
    <3> QED BY <2>5, <3>1 DEF Waiting
  <2>8. Parses(v, rest, pending)
    <3>1. Len(v.found) = n + 1 /\ n + 1 <= Len(pending)
      BY <1>3, <1>10, <2>3, <2>5
    <3> QED BY <2>3, <2>4, <2>5, <2>6, <2>7, <3>1 DEF Parses, later
  <2>9. Len(v.read) <= Len(r) /\ (Len(r) > 0 => Len(v.read) < Len(r))
    BY <1>4, <1>5, <2>5
  <2> QED BY <2>2, <2>8, <2>9
<1>15. CASE Len(b2) # size
  <2>1. Get(Fill(st)) = u
    BY <1>7, <1>8, <1>15 DEF Get
  <2>2. needed = size - Len(b)
    BY DEF needed
  <2>3. ~(needed < Len(r)) /\ Len(a) = Len(r) /\ Len(r2) = 0
    BY <1>2, <1>4, <1>5, <1>6, <1>15, <2>2
  <2>4. Len(b2) < size
    <3> DEFINE x == Len(b)
               y == Len(r)
               z == Len(b2)
    <3>1. x \in Nat /\ y \in Nat /\ size \in Nat
      BY <1>2, <1>4
    <3>2. ~(size - x < y)
      BY <2>2, <2>3
    <3>3. z = x + y
      BY <1>6, <2>3
    <3>4. z # size
      BY <1>15
    <3> HIDE DEF x, y, z, size
    <3>5. z < size
      BY <3>1, <3>2, <3>3, <3>4
    <3> QED BY <3>5 DEF z
  <2>5. Waiting(u)
    BY <1>2, <1>8, <2>4 DEF Waiting
  <2>6. Left(u, rest) = Framed(Drop(pending, n))
    <3>1. SizeRead(u) = SizeRead(st)
      BY <1>8 DEF SizeRead
    <3>2. Cat(b2, Cat(r2, rest)) = Cat(b, Cat(r, rest))
      BY <1>10, <1>13
    <3> QED BY <1>1, <1>8, <3>1, <3>2 DEF Left
  <2>7. Parses(u, rest, pending)
    BY <1>1, <1>8, <2>5, <2>6 DEF Parses
  <2>8. Len(u.read) <= Len(r) /\ (Len(r) > 0 => Len(u.read) < Len(r))
    BY <1>4, <1>8, <2>3
  <2> QED BY <2>1, <2>7, <2>8
<1> QED BY <1>14, <1>15

\* One pass over what was read, which uses a byte or more.
LEMMA PassParses ==
    ASSUME NEW st, NEW rest \in Str, NEW pending \in Seq(Packet), Parses(st, rest, pending)
    PROVE  /\ Parses(Pass[st], rest, pending)
           /\ Len(Pass[st].read) <= Len(st.read)
           /\ Len(st.read) > 0 => Len(Pass[st].read) < Len(st.read)
<1> DEFINE b == st.buffer
           r == st.read
           n == Len(st.found)
           taken == 2 - Len(b)
           whole == Cat(b, r)
           h == Take(whole, 2)
           w == Drop(whole, 2)
           r2 == Drop(r, taken)
<1>1. /\ st \in Stream /\ ~st.error /\ Waiting(st) /\ n <= Len(pending)
      /\ st.found = SubSeq(pending, 1, n)
      /\ Left(st, rest) = Framed(Drop(pending, n))
  BY DEF Parses
<1>2. /\ st.declared \in 0 .. MaxSize /\ b \in Str /\ r \in Str
      /\ st.found \in Lists(Byte) /\ MaxSize \in Nat
  BY <1>1, SizeAssumption DEF Stream, Str, Lists
<1>3. n \in 0 .. Len(pending) /\ n \in Nat
  <2>1. n \in Nat /\ Len(pending) \in Nat
    BY <1>2 DEF Lists
  <2> QED BY <1>1, <2>1
<1>4. Len(b) \in Nat /\ Len(r) \in Nat
  BY <1>2, StrFacts
<1>5. Pass[st] = IF r = <<>> THEN st ELSE Get(Put(st))
  BY <1>1 DEF Pass
<1>6. CASE r = <<>>
  <2>1. Len(<<>>) = 0
    OBVIOUS
  <2>2. Pass[st] = st
    BY <1>5, <1>6
  <2> QED BY <1>4, <1>6, <2>1, <2>2
<1>7. CASE r # <<>> /\ st.declared > 0
  <2>1. Pass[st] = Get(Fill(st))
    BY <1>5, <1>7 DEF Put
  <2> QED BY <1>7, <2>1, FillParses
<1>8. CASE r # <<>> /\ ~(st.declared > 0)
  <2>1. st.declared = 0 /\ Len(b) < 2
    BY <1>1, <1>2, <1>8 DEF Waiting
  <2>2. SizeRead(st) = <<>>
    BY <2>1 DEF SizeRead
  <2>3. taken \in Nat /\ taken > 0 /\ taken <= 2 /\ Len(b) + taken = 2
    BY <1>4, <2>1
  <2> HIDE DEF taken
  <2>4. whole \in Str /\ Len(whole) = Len(b) + Len(r)
    BY <1>2, StrFacts
  <2>5. Cat(whole, rest) = Framed(Drop(pending, n))
    <3>1. Left(st, rest) = Cat(<<>>, Cat(b, Cat(r, rest)))
      BY <2>2 DEF Left
    <3>2. Cat(<<>>, Cat(b, Cat(r, rest))) = Cat(whole, rest)
      BY <1>2, StrFacts
    <3> QED BY <1>1, <3>1, <3>2
  <2> HIDE DEF whole
  <2>6. /\ h \in Str /\ w \in Str /\ Cat(h, w) = whole
        /\ Len(h) = IF 2 < Len(whole) THEN 2 ELSE Len(whole)
    BY <2>4, StrCuts
  <2> HIDE DEF h, w
  <2> DEFINE lb == Len(b)
             lr == Len(r)
             ln == Len(whole)
             lh == Len(h)
  <2>9. lb \in Nat /\ lr \in Nat
    BY <1>4
  <2>10. ln = lb + lr /\ lb + taken = 2
    BY <2>3, <2>4
  <2>11. lh = IF 2 < ln THEN 2 ELSE ln
    BY <2>6
  <2>12. /\ lh = 2 => ln >= 2 /\ taken <= lr
         /\ lh # 2 => ln < 2 /\ lh < 2 /\ ~(2 < ln)
    <3> HIDE DEF lb, lr, ln, lh
    <3> QED BY <2>3, <2>9, <2>10, <2>11
  <2>7. CASE Len(h) = 2
    <3> DEFINE size == Size(h)
               s1 == [st EXCEPT !.read = r2, !.buffer = <<>>]
               s2 == [s1 EXCEPT !.declared = size]
    <3>1. taken <= Len(r)
      BY <2>7, <2>12
    <3>2. r2 \in Str /\ w = r2 /\ Len(r2) = Len(r) - taken
      <4> DEFINE a == Take(r, taken)
      <4>1. /\ a \in Str /\ r2 \in Str /\ Cat(a, r2) = r
            /\ Len(a) = IF taken < Len(r) THEN taken ELSE Len(r)
            /\ Len(r2) = IF taken < Len(r) THEN Len(r) - taken ELSE 0
        BY <1>2, <2>3, StrCuts
      <4> HIDE DEF a, r2
      <4>2. Len(a) = taken /\ Len(r2) = Len(r) - taken
        BY <1>4, <2>3, <3>1, <4>1
      <4>3. Cat(b, a) \in Str /\ Cat(Cat(b, a), r2) = Cat(h, w)
        <5>1. b \in Str /\ a \in Str /\ r2 \in Str /\ r \in Str /\ Cat(a, r2) = r
          BY <1>2, <4>1
        <5>2. Cat(b, r) = Cat(h, w)
          BY <2>6 DEF whole
        <5> HIDE DEF b, r
        <5> QED BY <5>1, <5>2, StrFacts
      <4>4. Len(Cat(b, a)) = Len(b) + Len(a)
        <5>1. b \in Str /\ a \in Str
          BY <1>2, <4>1
        <5> HIDE DEF b
        <5> QED BY <5>1, StrFacts
      <4>5. Len(Cat(b, a)) = Len(h)
        BY <2>3, <2>7, <4>2, <4>4
      <4>6. r2 = w
        <5>1. h \in Str /\ w \in Str /\ r2 \in Str
          BY <2>6, <4>1
        <5> QED BY <5>1, <4>3, <4>5, StrCuts
      <4> QED BY <4>1, <4>2, <4>6
    <3> HIDE DEF r2
    <3>3. /\ n < Len(pending) /\ h = SizeBytes(Len(pending[n + 1]))
      <4>1. Cat(h, Cat(w, rest)) = Framed(Drop(pending, n)) /\ Cat(w, rest) \in Str
        BY <2>5, <2>6, StrFacts
      <4> HIDE DEF n
      <4> QED BY <1>3, <2>6, <2>7, <4>1, DeclaredIsNext
    <3>4. /\ pending[n + 1] \in Packet /\ Len(pending[n + 1]) \in 1 .. MaxSize
          /\ size = Len(pending[n + 1]) /\ h = SizeBytes(size)
      <4>1. pending[n + 1] \in Packet
        BY <1>3, <3>3, StrPackets
      <4>2. Len(pending[n + 1]) \in 1 .. MaxSize
        BY <4>1, StrPackets
      <4>3. Size(h) = Len(pending[n + 1])
        BY <3>3, <4>2, StrPackets
      <4> QED BY <3>3, <4>1, <4>2, <4>3
    <3> HIDE DEF size
    <3>5. s1 \in Stream /\ s2 \in Stream
      <4>1. size \in 0 .. MaxSize /\ <<>> \in Seq(Byte) /\ r2 \in Seq(Byte)
        BY <1>2, <3>2, <3>4 DEF Str
      <4> HIDE DEF b, r, n
      <4> QED BY <1>1, <4>1 DEF Stream
    <3>6. /\ s2.declared = size /\ s2.buffer = <<>> /\ s2.read = r2 /\ ~s2.error
          /\ s2.found = st.found
      BY <1>1 DEF Stream
    <3>7. Pass[st] = Get(Fill(s2))
      <4>1. Take(b \o r, 2) = h
        BY DEF h, whole, Cat
      <4>2. Put(st) = Fill(ExtractSize(s1, h))
        BY <2>1, <2>7, <4>1 DEF Put, taken, r2
      <4>3. ExtractSize(s1, h) = s2
        BY <3>4 DEF ExtractSize, Valid, size
      <4> HIDE DEF s1, s2
      <4> QED BY <1>5, <1>8, <4>2, <4>3
    <3> HIDE DEF s1, s2
    <3>8. Parses(s2, rest, pending)
      <4>1. Waiting(s2)
        <5>1. Len(<<>>) = 0 /\ size > 0
          BY <3>4
        <5> QED BY <3>6, <5>1 DEF Waiting
      <4>2. Left(s2, rest) = Framed(Drop(pending, n))
        <5>1. SizeRead(s2) = h
          BY <3>4, <3>6 DEF SizeRead
        <5>2. Cat(<<>>, Cat(r2, rest)) = Cat(r2, rest) /\ Cat(h, Cat(r2, rest)) = Cat(whole, rest)
          BY <2>6, <3>2, StrFacts
        <5> QED BY <2>5, <3>6, <5>1, <5>2 DEF Left
      <4> QED BY <1>1, <3>5, <3>6, <4>1, <4>2 DEF Parses
    <3>9. s2.declared > 0 /\ Len(s2.read) < Len(r)
      BY <1>4, <2>3, <3>2, <3>4, <3>6
    <3>10. Parses(Get(Fill(s2)), rest, pending) /\ Len(Get(Fill(s2)).read) <= Len(s2.read)
      BY <3>8, <3>9, FillParses
    <3>11. Len(Get(Fill(s2)).read) \in Nat /\ Len(s2.read) \in Nat
      BY <3>8, <3>10, StrFacts DEF Parses, Stream, Str
    <3> QED BY <1>4, <3>7, <3>9, <3>10, <3>11
  <2>8. CASE Len(h) # 2
    <3> DEFINE u == [st EXCEPT !.buffer = h, !.read = <<>>]
    <3>1. Len(whole) < 2 /\ Len(h) < 2 /\ ~(2 < Len(whole))
      BY <2>8, <2>12
    <3>2. h = whole
      <4>1. Len(w) = 0
        <5>1. Len(w) = IF 2 < Len(whole) THEN Len(whole) - 2 ELSE 0
          BY <2>4, StrCuts DEF w
        <5> QED BY <3>1, <5>1
      <4>2. w = <<>>
        BY <2>6, <4>1, StrFacts
      <4> QED BY <2>6, <4>2, StrFacts
    <3>3. Put(st) = u
      <4>1. Take(b \o r, 2) = h
        BY DEF h, whole, Cat
      <4>2. st.declared = 0 /\ ~(0 > 0)
        BY <2>1
      <4> HIDE DEF b, r
      <4> QED BY <2>8, <4>1, <4>2 DEF Put, b, r
    <3>4. u \in Stream
      <4>1. <<>> \in Seq(Byte) /\ h \in Seq(Byte)
        BY <2>6 DEF Str
      <4> HIDE DEF b, r, n
      <4> QED BY <1>1, <4>1 DEF Stream
    <3>5. /\ u.declared = 0 /\ u.buffer = h /\ u.read = <<>> /\ ~u.error /\ u.found = st.found
      BY <1>1, <2>1 DEF Stream
    <3> HIDE DEF u
    <3>6. Pass[st] = u
      BY <1>5, <1>8, <3>3, <3>5 DEF Get
    <3>7. Waiting(u)
      BY <3>1, <3>5 DEF Waiting
    <3>8. Left(u, rest) = Framed(Drop(pending, n))
      <4>1. SizeRead(u) = <<>>
        BY <3>5 DEF SizeRead
      <4>2. Cat(<<>>, Cat(h, Cat(<<>>, rest))) = Cat(h, rest)
        BY <2>6, StrFacts
      <4> QED BY <2>5, <3>2, <3>5, <4>1, <4>2 DEF Left
    <3>9. Parses(u, rest, pending)
      BY <1>1, <3>4, <3>5, <3>7, <3>8 DEF Parses
    <3>10. Len(u.read) = 0
      BY <3>5
    <3> QED BY <1>4, <3>6, <3>9, <3>10
  <2> QED BY <2>7, <2>8
<1> QED BY <1>6, <1>7, <1>8

\* All the passes, which use all that was read.
LEMMA PutParses ==
    ASSUME NEW st, NEW rest \in Str, NEW pending \in Seq(Packet), Parses(st, rest, pending)
    PROVE  Parses(PutPktstream(st), rest, pending) /\ PutPktstream(st).read = <<>>
<1> DEFINE n == Len(st.read)
           S == {u \in Stream : Parses(u, rest, pending)}
           Eq(g) == g = [i \in 0 .. n |-> IF i = 0 THEN st ELSE Pass[g[i - 1]]]
           after == CHOOSE g : Eq(g)
           step == [i \in 1 .. n |-> [u \in S |-> Pass[u]]]
<1>1. st \in S /\ \A u \in S : u.read \in Str /\ Len(u.read) \in Nat
  <2>1. \A u \in S : u.read \in Str
    BY DEF Stream, Str
  <2> QED BY <2>1, StrFacts DEF Parses
<1>2. \A u \in S : Pass[u] \in S
  <2> TAKE u \in S
  <2>1. Parses(Pass[u], rest, pending)
    BY PassParses
  <2> QED BY <2>1 DEF Parses
<1>2b. ASSUME NEW u \in S
       PROVE  /\ Len(Pass[u].read) <= Len(u.read)
              /\ Len(u.read) > 0 => Len(Pass[u].read) < Len(u.read)
  BY PassParses
<1>3. n \in Nat
  BY <1>1
<1>4. PutPktstream(st) = after[n]
  BY DEF PutPktstream
<1> HIDE DEF S, n
<1>5. \E g : Eq(g)
  <2>1. step \in [1 .. n -> [S -> S]]
    <3>1. [u \in S |-> Pass[u]] \in [S -> S]
      BY <1>2
    <3> QED BY <3>1
  <2>2. \A i \in 1 .. n, u \in S : step[i][u] = Pass[u]
    OBVIOUS
  <2> HIDE DEF step
  <2>3. PICK f \in [0 .. n -> S] : Steps(f, st, step, n)
    BY <1>1, <1>3, <2>1, Recursion
  <2>4. ASSUME NEW i \in 0 .. n PROVE f[i] = IF i = 0 THEN st ELSE Pass[f[i - 1]]
    <3>1. CASE i = 0
      BY <2>3, <3>1 DEF Steps
    <3>2. CASE i # 0
      <4>1. i \in 1 .. n /\ i - 1 \in 0 .. n
        BY <1>3, <3>2
      <4>2. f[i - 1] \in S
        BY <4>1
      <4>3. f[i] = step[i][f[i - 1]]
        BY <2>3, <4>1 DEF Steps
      <4> QED BY <2>2, <3>2, <4>1, <4>2, <4>3
    <3> QED BY <3>1, <3>2
  <2>5. f = [i \in 0 .. n |-> f[i]]
    OBVIOUS
  <2>6. Eq(f)
    BY <2>4, <2>5
  <2> QED BY <2>6
<1>6. Eq(after)
  BY <1>5
<1> HIDE DEF after
<1>7. \A i \in 0 .. n : after[i] = IF i = 0 THEN st ELSE Pass[after[i - 1]]
  BY <1>6
<1> HIDE DEF Eq
<1> DEFINE Good == {i \in 0 .. n : after[i] \in S /\ Len(after[i].read) <= n - i}
<1>8. 0 \in Good
  <2>0. 0 \in 0 .. n
    BY <1>3
  <2>1. after[0] = st /\ 0 \in 0 .. n
    BY <1>7, <2>0
  <2>2. Len(st.read) <= n - 0
    BY <1>3 DEF n
  <2> QED BY <1>1, <2>1, <2>2
<1>9. ASSUME NEW i \in 1 .. n, i - 1 \in Good PROVE i \in Good
  <2> DEFINE u == after[i - 1]
             x == Len(u.read)
             y == Len(Pass[u].read)
  <2>1. after[i] = Pass[u] /\ i \in 0 .. n
    BY <1>3, <1>7
  <2>2. u \in S /\ x <= n - (i - 1)
    BY <1>9
  <2>3. Pass[u] \in S /\ y <= x /\ (x > 0 => y < x) /\ x \in Nat /\ y \in Nat
    <3> HIDE DEF u
    <3>1. Pass[u] \in S
      BY <1>2, <2>2
    <3>2. y <= x /\ (x > 0 => y < x)
      BY <1>2b, <2>2
    <3> QED BY <1>1, <2>2, <3>1, <3>2
  <2> HIDE DEF u
  <2>4. y <= n - i
    <3> HIDE DEF x, y
    <3> QED BY <1>3, <2>2, <2>3
  <2> QED BY <2>1, <2>3, <2>4
<1>10. Good = 0 .. n
  <2>1. Good \subseteq 0 .. n
    OBVIOUS
  <2> HIDE DEF Good
  <2> QED BY <1>3, <1>8, <1>9, <2>1, UpTo
<1>11. after[n] \in S /\ Len(after[n].read) <= n - n
  BY <1>3, <1>10
<1>12. after[n].read = <<>>
  <2>1. after[n].read \in Str /\ Len(after[n].read) \in Nat
    BY <1>1, <1>11
  <2>2. Len(after[n].read) = 0
    BY <1>3, <1>11, <2>1
  <2> QED BY <2>1, <2>2, StrFacts
<1> QED BY <1>4, <1>11, <1>12 DEF S

-----------------------------------------------------------------------------
(* What waits in a queue.                                                  *)

Bytes(queue) == [i \in DOMAIN queue |-> queue[i].bytes]

\* A queue holds byte strings.
LEMMA BytesType ==
    ASSUME NEW queue \in Seq(Queued)
    PROVE  /\ Bytes(queue) \in Lists(Byte) /\ Len(Bytes(queue)) = Len(queue)
           /\ FlattenSeq(Bytes(queue)) \in Str
<1> DEFINE f == Bytes(queue)
           B == Seq(Byte)
           n == Len(queue)
<1>1. n \in Nat /\ DOMAIN queue = 1 .. n /\ \A i \in 1 .. n : queue[i] \in Queued
  OBVIOUS
<1>2. \A i \in 1 .. n : queue[i].bytes \in B
  BY <1>1 DEF Queued
<1>3. f = [i \in 1 .. n |-> queue[i].bytes]
  BY <1>1 DEF Bytes
<1> HIDE DEF f, B, n
<1>4. f \in [1 .. n -> B]
  BY <1>2, <1>3
<1>5. f \in Seq(B) /\ Len(f) = n
  BY <1>1, <1>4
<1>6. FlattenSeq(f) \in B
  BY <1>5, FlattenType DEF B, Lists
<1> QED BY <1>5, <1>6 DEF f, B, n, Lists, Str

\* What is queued comes after the bytes that wait.
LEMMA BytesAppend ==
    ASSUME NEW queue \in Seq(Queued), NEW e \in Queued
    PROVE  /\ FlattenSeq(Bytes(Append(queue, e))) = Cat(FlattenSeq(Bytes(queue)), e.bytes)
           /\ e.bytes \in Str
<1> DEFINE u == Append(queue, e)
           f == Bytes(queue)
           g == Bytes(u)
           n == Len(queue)
           b == e.bytes
<1>1. /\ n \in Nat /\ u \in Seq(Queued) /\ Len(u) = n + 1 /\ u[n + 1] = e
      /\ \A i \in 1 .. n : u[i] = queue[i]
      /\ DOMAIN u = 1 .. n + 1 /\ DOMAIN queue = 1 .. n
  OBVIOUS
<1>2. b \in Str
  BY DEF Queued, Str
<1> HIDE DEF u
<1>3. /\ f \in Lists(Byte) /\ Len(f) = n
      /\ g \in Lists(Byte) /\ Len(g) = n + 1
  BY <1>1, BytesType
<1>4. \A i \in 1 .. n : g[i] = f[i]
  BY <1>1 DEF Bytes
<1>5. g[n + 1] = b
  BY <1>1 DEF Bytes
<1> HIDE DEF f, g, n, b
<1>6. g = Append(f, b)
  <2> DEFINE B == Seq(Byte)
  <2>1. f \in Seq(B) /\ g \in Seq(B) /\ b \in B
    BY <1>2, <1>3 DEF Lists, Str
  <2> HIDE DEF B
  <2>2. /\ Append(f, b) \in Seq(B) /\ Len(Append(f, b)) = n + 1
        /\ \A i \in 1 .. n : Append(f, b)[i] = f[i]
        /\ Append(f, b)[n + 1] = b
    BY <2>1, <1>3
  <2>3. \A i \in 1 .. Len(g) : g[i] = Append(f, b)[i]
    BY <2>2, <1>1, <1>3, <1>4, <1>5
  <2>4. Len(g) = Len(Append(f, b))
    BY <1>3, <2>2
  <2> QED BY <2>1, <2>2, <2>3, <2>4, SeqEqual
<1>7. FlattenSeq(g) = FlattenSeq(f) \o b
  BY <1>2, <1>3, <1>6, FlattenAppend DEF Str
<1> QED BY <1>2, <1>7 DEF u, f, g, b, Cat

\* The front of the queue holds the first bytes.
LEMMA BytesHead ==
    ASSUME NEW queue \in Seq(Queued), Len(queue) > 0
    PROVE  /\ FlattenSeq(Bytes(queue))
                = Cat(Head(queue).bytes, FlattenSeq(Bytes(Tail(queue))))
           /\ Tail(queue) \in Seq(Queued) /\ Head(queue).bytes \in Str
<1> DEFINE u == Tail(queue)
           f == Bytes(queue)
           g == Bytes(u)
           n == Len(queue) - 1
           b == Head(queue).bytes
<1>1. /\ n \in Nat /\ u \in Seq(Queued) /\ Len(u) = n /\ Len(queue) = n + 1
      /\ \A i \in 1 .. n : u[i] = queue[i + 1]
      /\ DOMAIN u = 1 .. n /\ DOMAIN queue = 1 .. n + 1 /\ Head(queue) = queue[1]
      /\ queue[1] \in Queued
  OBVIOUS
<1>2. b \in Str
  BY <1>1 DEF Queued, Str
<1> HIDE DEF u
<1>3. /\ f \in Lists(Byte) /\ Len(f) = n + 1
      /\ g \in Lists(Byte) /\ Len(g) = n
  BY <1>1, BytesType
<1>4. \A i \in 1 .. n : g[i] = f[i + 1]
  <2> TAKE i \in 1 .. n
  <2> HIDE DEF n
  <2>1. i + 1 \in 1 .. n + 1
    BY <1>1
  <2>2. g[i] = u[i].bytes /\ f[i + 1] = queue[i + 1].bytes
    BY <1>1, <2>1 DEF Bytes
  <2> QED BY <1>1, <2>2
<1>5. f[1] = b
  BY <1>1 DEF Bytes
<1> HIDE DEF f, g, n, b
<1>6. Head(f) = b /\ Tail(f) = g
  <2> DEFINE B == Seq(Byte)
  <2>1. f \in Seq(B) /\ g \in Seq(B)
    BY <1>3 DEF Lists
  <2>0. Len(f) > 0
    BY <1>1, <1>3
  <2> HIDE DEF B
  <2>2. /\ Tail(f) \in Seq(B) /\ Len(Tail(f)) = n
        /\ \A i \in 1 .. n : Tail(f)[i] = f[i + 1]
        /\ Head(f) = f[1]
    BY <2>1, <2>0, <1>1, <1>3
  <2>3. \A i \in 1 .. Len(g) : g[i] = Tail(f)[i]
    BY <2>2, <1>3, <1>4
  <2>4. Len(g) = Len(Tail(f))
    BY <1>3, <2>2
  <2> QED BY <1>5, <2>1, <2>2, <2>3, <2>4, SeqEqual
<1>7. FlattenSeq(f) = b \o FlattenSeq(g)
  <2>1. Len(f) > 0
    BY <1>1, <1>3
  <2> QED BY <1>3, <1>6, <2>1, FlattenCons
<1> QED BY <1>1, <1>2, <1>7 DEF u, f, g, b, Cat

\* handle_send() may leave a part of the front.
LEMMA BytesShorter ==
    ASSUME NEW queue \in Seq(Queued), Len(queue) > 0, NEW rest \in Str
    PROVE  LET v == [queue EXCEPT ![1].bytes = rest]
           IN  /\ v \in Seq(Queued) /\ Len(v) = Len(queue)
               /\ \A i \in 1 .. Len(queue) : v[i].data = queue[i].data
               /\ FlattenSeq(Bytes(v)) = Cat(rest, FlattenSeq(Bytes(Tail(queue))))
<1> DEFINE e == [queue[1] EXCEPT !.bytes = rest]
           v == [queue EXCEPT ![1] = e]
           n == Len(queue)
<1>1. n \in Nat /\ n > 0 /\ 1 \in 1 .. n /\ DOMAIN queue = 1 .. n /\ queue[1] \in Queued
  OBVIOUS
<1>2. e \in Queued /\ e.bytes = rest /\ e.data = queue[1].data
  BY <1>1 DEF Queued, Str
<1> HIDE DEF e
<1>3. v \in Seq(Queued) /\ Len(v) = n /\ DOMAIN v = 1 .. n
  <2>1. queue \in [1 .. n -> Queued]
    BY <1>1
  <2> HIDE DEF n
  <2>2. v \in [1 .. n -> Queued]
    BY <1>2, <2>1
  <2> HIDE DEF v
  <2> QED BY <1>1, <2>2
<1>4. v[1] = e /\ \A i \in 1 .. n : i # 1 => v[i] = queue[i]
  BY <1>1
<1>5. v = [queue EXCEPT ![1].bytes = rest]
  BY DEF e
<1> HIDE DEF v
<1>6. \A i \in 1 .. n : v[i].data = queue[i].data
  BY <1>2, <1>4
<1>7. Head(v).bytes = rest /\ Tail(v) = Tail(queue)
  <2>1. Head(v) = v[1]
    BY <1>1, <1>3
  <2>2. /\ Tail(v) \in Seq(Queued) /\ Len(Tail(v)) = n - 1
        /\ \A i \in 1 .. n - 1 : Tail(v)[i] = v[i + 1]
    BY <1>1, <1>3
  <2>3. /\ Tail(queue) \in Seq(Queued) /\ Len(Tail(queue)) = n - 1
        /\ \A i \in 1 .. n - 1 : Tail(queue)[i] = queue[i + 1]
    BY <1>1
  <2>4. \A i \in 1 .. n - 1 : i + 1 \in 1 .. n /\ i + 1 # 1
    BY <1>1
  <2>5. \A i \in 1 .. Len(Tail(v)) : Tail(v)[i] = Tail(queue)[i]
    BY <1>4, <2>2, <2>3, <2>4
  <2>6. Tail(v) = Tail(queue)
    BY <2>2, <2>3, <2>5, SeqEqual
  <2> QED BY <1>2, <1>4, <2>1, <2>6
<1>8. FlattenSeq(Bytes(v)) = Cat(rest, FlattenSeq(Bytes(Tail(queue))))
  <2>1. Len(v) > 0
    BY <1>1, <1>3
  <2> QED BY <1>3, <1>7, <2>1, BytesHead
<1> QED BY <1>3, <1>5, <1>6, <1>8

-----------------------------------------------------------------------------
(* One direction: l sends what m receives.                                 *)

Way(l, m, w) == Cat(SizeRead(m), Cat(m.buffer, Cat(w, Unsent(l))))

Lane(l, m, w, acc, del) ==
    /\ Len(del) <= Len(acc)
    /\ del = SubSeq(acc, 1, Len(del))
    /\ Way(l, m, w) = Framed(Drop(acc, Len(del)))

\* What Framing says of one end.
End(l) ==
    /\ ~l.sizeError
    /\ l.sending <=> l.queue # <<>>
    /\ Waiting(l)
    /\ \A i \in DOMAIN l.queue : l.queue[i].data => i <= QueueLimit + 1

\* The byte strings that a link holds.
LEMMA LinkBytes ==
    ASSUME NEW l \in Link
    PROVE  /\ l.queue \in Seq(Queued) /\ Unsent(l) = FlattenSeq(Bytes(l.queue))
           /\ Unsent(l) \in Str /\ l.buffer \in Str /\ SizeRead(l) \in Str
           /\ l.declared \in 0 .. MaxSize
<1>1. l.queue \in Seq(Queued) /\ l.buffer \in Str /\ l.declared \in 0 .. MaxSize
  BY DEF Link, Str
<1>2. Unsent(l) = FlattenSeq(Bytes(l.queue))
  BY DEF Unsent, Bytes
<1>3. Unsent(l) \in Str
  BY <1>1, <1>2, BytesType
<1>4. SizeRead(l) \in Str
  <2>1. CASE l.declared = 0
    BY <2>1, StrFacts DEF SizeRead
  <2>2. CASE l.declared # 0
    <3>1. l.declared \in 1 .. MaxSize
      BY <1>1, <2>2, SizeAssumption
    <3> QED BY <2>2, <3>1, StrPackets DEF SizeRead
  <2> QED BY <2>1, <2>2
<1> QED BY <1>1, <1>2, <1>3, <1>4

\* Queueing a packet adds its frame at the end of the lane.
LEMMA SendLane ==
    ASSUME NEW l \in Link, NEW m \in Link, NEW w \in Str, NEW acc \in Seq(Packet),
           NEW del \in Seq(Packet), NEW packet \in Packet,
           End(l), Lane(l, m, w, acc, del), Room(l, packet),
           NEW next, next = QueueSendBuffer(l, [data |-> IsData(packet),
                                                bytes |-> PrependSize(packet)])
    PROVE  /\ next \in Link /\ End(next)
           /\ next.declared = l.declared /\ next.buffer = l.buffer /\ next.halt = l.halt
           /\ Lane(next, m, w, Append(acc, packet), del)
           /\ Append(acc, packet) \in Seq(Packet)
<1> DEFINE e == [data |-> IsData(packet), bytes |-> PrependSize(packet)]
           queue == Append(l.queue, e)
           acc2 == Append(acc, packet)
           n == Len(del)
<1>1. e \in Queued /\ e.data = IsData(packet) /\ e.bytes = PrependSize(packet)
  <2>1. PrependSize(packet) \in Seq(Byte)
    BY StrPackets DEF Str
  <2> QED BY <2>1 DEF Queued, IsData
<1>2. l.queue \in Seq(Queued) /\ Len(l.queue) \in Nat
  BY LinkBytes
<1>3. next = [l EXCEPT !.queue = queue, !.sending = @ \/ Len(queue) = 1]
  BY DEF QueueSendBuffer
<1> HIDE DEF e
<1>4. /\ queue \in Seq(Queued) /\ Len(queue) = Len(l.queue) + 1
      /\ \A i \in 1 .. Len(l.queue) : queue[i] = l.queue[i]
      /\ queue[Len(l.queue) + 1] = e
      /\ DOMAIN queue = 1 .. Len(l.queue) + 1 /\ DOMAIN l.queue = 1 .. Len(l.queue)
      /\ queue # <<>> /\ (l.queue = <<>> <=> Len(l.queue) = 0)
  BY <1>1, <1>2
<1>5. FlattenSeq(Bytes(queue)) = Cat(Unsent(l), PrependSize(packet))
  BY <1>1, <1>2, BytesAppend, LinkBytes
<1> HIDE DEF queue
<1>6. /\ next \in Link /\ next.queue = queue /\ next.sending = (l.sending \/ Len(queue) = 1)
      /\ next.declared = l.declared /\ next.buffer = l.buffer /\ next.halt = l.halt
      /\ next.sizeError = l.sizeError
  BY <1>3, <1>4 DEF Link
<1>7. End(next)
  <2>1. next.sending <=> next.queue # <<>>
    <3>1. l.sending \/ Len(l.queue) = 0
      BY <1>4 DEF End
    <3>2. Len(l.queue) = 0 => Len(queue) = 1
      BY <1>4
    <3>3. next.sending /\ next.queue # <<>>
      BY <1>4, <1>6, <3>1, <3>2, Zenon
    <3> QED BY <3>3
  <2>2. Waiting(next)
    BY <1>6 DEF Waiting, End
  <2>3. ASSUME NEW i \in DOMAIN next.queue, next.queue[i].data PROVE i <= QueueLimit + 1
    <3>1. CASE i \in 1 .. Len(l.queue)
      BY <1>4, <1>6, <2>3, <3>1 DEF End
    <3>2. CASE i = Len(l.queue) + 1
      <4>1. IsData(packet)
        BY <1>1, <1>4, <1>6, <2>3, <3>2
      <4>2. Len(l.queue) <= QueueLimit
        BY <4>1 DEF Room
      <4> QED BY <1>2, <3>2, <4>2, BoundAssumption
    <3> QED BY <1>2, <1>4, <1>6, <3>1, <3>2
  <2> QED BY <1>6, <2>1, <2>2, <2>3 DEF End
<1>8. /\ n \in Nat /\ n <= Len(acc) /\ Len(acc) \in Nat
      /\ acc2 \in Seq(Packet) /\ Len(acc2) = Len(acc) + 1
      /\ del = SubSeq(acc, 1, n)
  BY DEF Lane
<1>9. SubSeq(acc2, 1, n) = SubSeq(acc, 1, n)
  <2> HIDE DEF n, acc2
  <2>1. \A i \in 1 .. Len(acc) : acc2[i] = acc[i]
    BY DEF acc2
  <2>2. /\ SubSeq(acc2, 1, n) \in Seq(Packet) /\ Len(SubSeq(acc2, 1, n)) = n
        /\ \A i \in 1 .. n : SubSeq(acc2, 1, n)[i] = acc2[i]
    BY <1>8
  <2>3. /\ SubSeq(acc, 1, n) \in Seq(Packet) /\ Len(SubSeq(acc, 1, n)) = n
        /\ \A i \in 1 .. n : SubSeq(acc, 1, n)[i] = acc[i]
    BY <1>8
  <2>4. \A i \in 1 .. n : i \in 1 .. Len(acc)
    BY <1>8
  <2> QED BY <2>1, <2>2, <2>3, <2>4, SeqEqual
<1>10. Drop(acc2, n) = Append(Drop(acc, n), packet) /\ Drop(acc, n) \in Seq(Packet)
  BY <1>8, DropAppend
<1>11. Framed(Drop(acc2, n)) = Cat(Framed(Drop(acc, n)), PrependSize(packet))
  BY <1>10, FramedAppend DEF Cat
<1>12. Way(next, m, w) = Cat(Way(l, m, w), PrependSize(packet))
  <2> DEFINE s == SizeRead(m)
             b == m.buffer
             u == Unsent(l)
             k == PrependSize(packet)
  <2>1. s \in Str /\ b \in Str /\ u \in Str /\ k \in Str
    BY LinkBytes, StrPackets
  <2>2. Unsent(next) = Cat(u, k)
    BY <1>5, <1>6, LinkBytes
  <2> HIDE DEF s, b, u, k
  <2>3. Cat(s, Cat(b, Cat(w, Cat(u, k)))) = Cat(Cat(s, Cat(b, Cat(w, u))), k)
    <3>1. Cat(w, Cat(u, k)) = Cat(Cat(w, u), k) /\ Cat(w, u) \in Str
      BY <2>1, StrFacts
    <3>2. Cat(b, Cat(Cat(w, u), k)) = Cat(Cat(b, Cat(w, u)), k) /\ Cat(b, Cat(w, u)) \in Str
      BY <2>1, <3>1, StrFacts
    <3> QED BY <2>1, <3>1, <3>2, StrFacts
  <2> QED BY <2>2, <2>3 DEF Way, s, b, u, k
<1>13. Lane(next, m, w, acc2, del)
  <2>1. Way(l, m, w) = Framed(Drop(acc, n))
    BY DEF Lane
  <2>2. n <= Len(acc2)
    BY <1>8
  <2> QED BY <1>8, <1>9, <1>11, <1>12, <2>1, <2>2 DEF Lane
<1> QED BY <1>6, <1>7, <1>8, <1>13

\* A send moves bytes from the front of the queue to the wire.
LEMMA HandleSendLane ==
    ASSUME NEW l \in Link, NEW m \in Link, NEW w \in Str, NEW acc, NEW del, NEW n \in Nat,
           End(l), Lane(l, m, w, acc, del), l.sending,
           NEW next, next = AfterSend(l, n)
    PROVE  /\ next \in Link /\ End(next)
           /\ next.declared = l.declared /\ next.buffer = l.buffer /\ next.halt = l.halt
           /\ Take(Head(l.queue).bytes, n) \in Str
           /\ Lane(next, m, Cat(w, Take(Head(l.queue).bytes, n)), acc, del)
<1> DEFINE old == l.queue
           front == Take(Head(old).bytes, n)
           rest == Drop(Head(old).bytes, n)
           shorter == [old EXCEPT ![1].bytes = rest]
           queue == IF rest = <<>> THEN Tail(old) ELSE shorter
           later == FlattenSeq(Bytes(Tail(old)))
<1>1. old \in Seq(Queued) /\ Len(old) > 0
  <2>1. old \in Seq(Queued) /\ old # <<>>
    BY LinkBytes DEF End
  <2> HIDE DEF old
  <2> QED BY <2>1
<1>2. next = [l EXCEPT !.queue = queue, !.sending = queue # <<>>]
  BY DEF AfterSend
<1> HIDE DEF old
<1>3. /\ Head(old).bytes \in Str
      /\ FlattenSeq(Bytes(old)) = Cat(Head(old).bytes, later)
      /\ Tail(old) \in Seq(Queued) /\ later \in Str
  BY <1>1, BytesHead, BytesType
<1>4. front \in Str /\ rest \in Str /\ Cat(front, rest) = Head(old).bytes
  <2> DEFINE h == Head(old).bytes
  <2>1. h \in Str
    BY <1>3
  <2> HIDE DEF h
  <2>2. Take(h, n) \in Str /\ Drop(h, n) \in Str /\ Cat(Take(h, n), Drop(h, n)) = h
    BY <2>1, StrCuts
  <2> QED BY <2>2 DEF h
<1> HIDE DEF front, rest, later
<1>5. /\ shorter \in Seq(Queued) /\ Len(shorter) = Len(old)
      /\ \A i \in 1 .. Len(old) : shorter[i].data = old[i].data
      /\ FlattenSeq(Bytes(shorter)) = Cat(rest, later)
  BY <1>1, <1>4, BytesShorter DEF later
<1> HIDE DEF shorter
<1>6. \A i \in DOMAIN old : old[i].data => i <= QueueLimit + 1
  BY DEF End, old
<1>7. /\ queue \in Seq(Queued)
      /\ FlattenSeq(Bytes(queue)) = Cat(rest, later)
      /\ \A i \in DOMAIN queue : queue[i].data => i <= QueueLimit + 1
  <2>1. CASE rest = <<>>
    <3>1. /\ Len(old) \in Nat /\ DOMAIN old = 1 .. Len(old)
          /\ DOMAIN Tail(old) = 1 .. Len(old) - 1
          /\ \A i \in 1 .. Len(old) - 1 : Tail(old)[i] = old[i + 1]
      BY <1>1
    <3>2. \A i \in 1 .. Len(old) - 1 : i + 1 \in 1 .. Len(old)
      BY <3>1
    <3>3. ASSUME NEW i \in DOMAIN Tail(old), Tail(old)[i].data PROVE i <= QueueLimit + 1
      <4>1. i \in 1 .. Len(old) - 1 /\ i + 1 \in DOMAIN old /\ old[i + 1].data
        BY <3>1, <3>2, <3>3
      <4>2. i + 1 <= QueueLimit + 1 /\ i \in Nat
        BY <1>6, <3>1, <4>1
      <4> QED BY <4>2, BoundAssumption
    <3>4. Cat(rest, later) = later
      BY <2>1, <1>3, StrFacts
    <3> QED BY <1>3, <2>1, <3>3, <3>4 DEF later
  <2>2. CASE rest # <<>>
    <3>1. DOMAIN shorter = 1 .. Len(old) /\ DOMAIN old = 1 .. Len(old)
      BY <1>1, <1>5
    <3>2. \A i \in DOMAIN shorter : shorter[i].data => i <= QueueLimit + 1
      BY <1>5, <1>6, <3>1
    <3> QED BY <1>5, <2>2, <3>2
  <2> QED BY <2>1, <2>2
<1> HIDE DEF queue
<1>8. /\ next \in Link /\ next.queue = queue /\ next.sending = (queue # <<>>)
      /\ next.declared = l.declared /\ next.buffer = l.buffer /\ next.halt = l.halt
      /\ next.sizeError = l.sizeError
  BY <1>2, <1>7 DEF Link
<1>9. End(next)
  <2>1. Waiting(next)
    BY <1>8 DEF Waiting, End
  <2>2. ~next.sizeError /\ (next.sending <=> next.queue # <<>>)
    BY <1>8 DEF End
  <2>3. \A i \in DOMAIN next.queue : next.queue[i].data => i <= QueueLimit + 1
    BY <1>7, <1>8
  <2> QED BY <2>1, <2>2, <2>3 DEF End
<1>10. Way(next, m, Cat(w, front)) = Way(l, m, w)
  <2> DEFINE s == SizeRead(m)
             b == m.buffer
  <2>1. s \in Str /\ b \in Str
    BY LinkBytes
  <2>2. Unsent(next) = Cat(rest, later)
    BY <1>7, <1>8, LinkBytes
  <2>3. Unsent(l) = Cat(Cat(front, rest), later)
    BY <1>3, <1>4, LinkBytes DEF old
  <2> HIDE DEF s, b
  <2>4. Cat(Cat(w, front), Cat(rest, later)) = Cat(w, Cat(Cat(front, rest), later))
    <3>1. front \in Str /\ rest \in Str /\ later \in Str
      BY <1>3, <1>4
    <3>2. Cat(rest, later) \in Str /\ Cat(Cat(front, rest), later) = Cat(front, Cat(rest, later))
      BY <3>1, StrFacts
    <3>3. Cat(Cat(w, front), Cat(rest, later)) = Cat(w, Cat(front, Cat(rest, later)))
      BY <3>1, <3>2, StrFacts
    <3> QED BY <3>2, <3>3
  <2> QED BY <2>2, <2>3, <2>4 DEF Way, s, b
<1>11. Lane(next, m, Cat(w, front), acc, del)
  BY <1>10 DEF Lane
<1> QED BY <1>4, <1>8, <1>9, <1>11 DEF old, front

\* A read takes bytes off the wire, and the packets found leave the lane.
LEMMA HandleRecvLane ==
    ASSUME NEW l \in Link, NEW m \in Link, NEW w \in Str, NEW acc \in Seq(Packet),
           NEW del \in Seq(Packet), NEW n \in Nat, NEW stops \in BOOLEAN,
           End(m), Lane(l, m, w, acc, del),
           NEW st, st = PutPktstream([declared |-> m.declared, buffer |-> m.buffer,
                                      read |-> Take(w, n), found |-> <<>>, error |-> FALSE]),
           NEW next, next = AfterRecv(m, st, stops)
    PROVE  /\ next \in Link /\ End(next)
           /\ next.queue = m.queue
           /\ next.halt = (stops /\ st.found # <<>>)
           /\ Drop(w, n) \in Str /\ del \o st.found \in Seq(Packet)
           /\ Len(st.found) \in Nat
           /\ Len(del \o st.found) = Len(del) + Len(st.found)
           /\ Lane(l, next, Drop(w, n), acc, del \o st.found)
<1> DEFINE start == [declared |-> m.declared, buffer |-> m.buffer,
                     read |-> Take(w, n), found |-> <<>>, error |-> FALSE]
           rest == Cat(Drop(w, n), Unsent(l))
           d == Len(del)
           pending == Drop(acc, d)
           a == Take(w, n)
           b == Drop(w, n)
<1>1. a \in Str /\ b \in Str /\ Cat(a, b) = w
  BY StrCuts
<1>2. d \in Nat /\ d <= Len(acc) /\ Len(acc) \in Nat /\ d \in 0 .. Len(acc)
  BY DEF Lane
<1> HIDE DEF a, b, d
<1>3. /\ pending \in Seq(Packet) /\ Len(pending) = Len(acc) - d
      /\ Drop(pending, 0) = pending
      /\ \A k \in 0 .. Len(acc) - d :
           /\ Drop(pending, k) = Drop(acc, d + k)
           /\ SubSeq(acc, 1, d) \o SubSeq(pending, 1, k) = SubSeq(acc, 1, d + k)
  <2>1. \A k \in 0 .. Len(acc) - d :
           /\ pending \in Seq(Packet) /\ Len(pending) = Len(acc) - d
           /\ Drop(pending, k) = Drop(acc, d + k)
           /\ SubSeq(acc, 1, d) \o SubSeq(pending, 1, k) = SubSeq(acc, 1, d + k)
    <3> HIDE DEF pending
    <3> QED BY <1>2, DropDrop DEF pending
  <2>2. 0 \in 0 .. Len(acc) - d /\ d + 0 = d
    BY <1>2
  <2> QED BY <2>1, <2>2
<1>4. /\ m.declared \in 0 .. MaxSize /\ m.buffer \in Str /\ SizeRead(m) \in Str
      /\ Unsent(l) \in Str /\ m.queue \in Seq(Queued)
  BY LinkBytes
<1>5. rest \in Str
  BY <1>1, <1>4, StrFacts DEF b
<1>6. start \in Stream
  <2>1. <<>> \in Seq(Seq(Byte)) /\ a \in Seq(Byte) /\ m.buffer \in Seq(Byte)
    BY <1>1, <1>4 DEF Str
  <2> QED BY <1>4, <2>1 DEF Stream, a
<1>7. /\ start.declared = m.declared /\ start.buffer = m.buffer /\ start.read = a
      /\ start.found = <<>> /\ start.error = FALSE
  BY DEF a
<1>8. st = PutPktstream(start)
  OBVIOUS
<1> HIDE DEF start, pending
<1>9. Left(start, rest) = Way(l, m, w)
  <2>1. SizeRead(start) = SizeRead(m)
    BY <1>7 DEF SizeRead
  <2>2. Cat(a, Cat(b, Unsent(l))) = Cat(w, Unsent(l))
    BY <1>1, <1>4, StrFacts
  <2> QED BY <1>7, <2>1, <2>2 DEF Left, Way, b
<1>10. Parses(start, rest, pending)
  <2>1. Waiting(start)
    BY <1>7 DEF End, Waiting
  <2>2. Len(start.found) = 0 /\ Len(start.found) <= Len(pending)
    BY <1>3, <1>7
  <2>3. start.found = SubSeq(pending, 1, 0)
    BY <1>3, <1>7
  <2>4. Way(l, m, w) = Framed(pending)
    BY DEF Lane, pending, d
  <2> QED BY <1>3, <1>6, <1>7, <1>9, <2>1, <2>2, <2>3, <2>4 DEF Parses
<1>11. Parses(st, rest, pending) /\ st.read = <<>>
  BY <1>3, <1>5, <1>8, <1>10, PutParses
<1> HIDE DEF rest
<1> DEFINE found == st.found
           k == Len(found)
           halt == st.error \/ (stops /\ found # <<>>)
<1>12. /\ st \in Stream /\ ~st.error /\ Waiting(st)
       /\ k <= Len(pending)
       /\ found = SubSeq(pending, 1, k)
       /\ Left(st, rest) = Framed(Drop(pending, k))
  BY <1>11 DEF Parses
<1>13. /\ st.declared \in 0 .. MaxSize /\ st.buffer \in Str /\ k \in Nat
       /\ st.error = FALSE
  BY <1>12 DEF Stream, Str
<1>14. k \in 0 .. Len(acc) - d
  <2> HIDE DEF k
  <2> QED BY <1>2, <1>3, <1>12, <1>13
<1>15. next = [m EXCEPT !.declared = st.declared, !.buffer = st.buffer,
                        !.halt = halt, !.reading = ~halt, !.sizeError = st.error]
  BY DEF AfterRecv
<1>16. halt \in BOOLEAN /\ halt = (stops /\ found # <<>>)
  BY <1>13
<1> HIDE DEF found, k, halt
<1>17. /\ next \in Link /\ next.queue = m.queue /\ next.sending = m.sending
       /\ next.declared = st.declared /\ next.buffer = st.buffer /\ next.halt = halt
       /\ ~next.sizeError
  <2>1. st.buffer \in Seq(Byte)
    BY <1>13 DEF Str
  <2> QED BY <1>13, <1>15, <1>16, <2>1 DEF Link
<1>18. End(next)
  <2>1. Waiting(next)
    BY <1>12, <1>17 DEF Waiting
  <2> QED BY <1>17, <2>1 DEF End
<1> DEFINE del2 == del \o found
<1>19. del2 = SubSeq(acc, 1, d + k) /\ d + k <= Len(acc) /\ d + k \in Nat
  <2>1. del = SubSeq(acc, 1, d)
    BY DEF Lane, d
  <2>2. del2 = SubSeq(acc, 1, d) \o SubSeq(pending, 1, k)
    BY <1>12, <2>1 DEF found, k
  <2>3. d + k <= Len(acc) /\ d + k \in Nat
    BY <1>2, <1>14
  <2> HIDE DEF del2
  <2> QED BY <1>3, <1>14, <2>2, <2>3
<1>20. del2 \in Seq(Packet) /\ Len(del2) = d + k
  <2> HIDE DEF del2
  <2> QED BY <1>19
<1>21. Way(l, next, b) = Framed(Drop(acc, d + k))
  <2>1. SizeRead(next) = SizeRead(st)
    BY <1>17 DEF SizeRead
  <2>2. Cat(<<>>, rest) = rest
    BY <1>5, StrFacts
  <2>3. Left(st, rest) = Cat(SizeRead(st), Cat(st.buffer, rest))
    BY <1>11, <2>2 DEF Left
  <2>4. Way(l, next, b) = Cat(SizeRead(next), Cat(next.buffer, rest))
    BY DEF Way, rest, b
  <2>5. Drop(pending, k) = Drop(acc, d + k)
    BY <1>3, <1>14
  <2>6. Left(st, rest) = Framed(Drop(acc, d + k))
    BY <1>12, <2>5 DEF k, found
  <2> QED BY <1>17, <2>1, <2>3, <2>4, <2>6
<1>22. Lane(l, next, b, acc, del2)
  <2> HIDE DEF del2
  <2> QED BY <1>19, <1>20, <1>21 DEF Lane
<1> QED BY <1>1, <1>13, <1>16, <1>17, <1>18, <1>20, <1>22 DEF b, d, k, found

-----------------------------------------------------------------------------
(* The invariant.                                                          *)

LaneOf(p) == Lane(link[p], link[Other(p)], wire[p], accepted[p], delivered[Other(p)])

\* A lane depends on the sender's queue and the receiver's PacketStream only.
LEMMA LaneSame ==
    ASSUME NEW l, NEW m, NEW l2, NEW m2, NEW w, NEW acc, NEW del,
           l2.queue = l.queue, m2.declared = m.declared, m2.buffer = m.buffer,
           Lane(l, m, w, acc, del)
    PROVE  Lane(l2, m2, w, acc, del)
<1>1. Unsent(l2) = Unsent(l)
  BY DEF Unsent
<1>2. SizeRead(m2) = SizeRead(m)
  BY DEF SizeRead
<1> QED BY <1>1, <1>2 DEF Lane, Way

\* Framing, end by end and lane by lane.
LEMMA FramingParts ==
    Framing <=> TypeOK /\ \A p \in Peer : End(link[p]) /\ LaneOf(p)
<1> SUFFICES ASSUME TypeOK
             PROVE  Framing <=> \A p \in Peer : End(link[p]) /\ LaneOf(p)
  BY DEF Framing
<1>1. ASSUME NEW p \in Peer
      PROVE  SizeRead(link[Other(p)]) \o link[Other(p)].buffer \o wire[p] \o Unsent(link[p])
                = Way(link[p], link[Other(p)], wire[p])
  <2> DEFINE s == SizeRead(link[Other(p)])
             b == link[Other(p)].buffer
             w == wire[p]
             u == Unsent(link[p])
  <2>1. Other(p) \in Peer /\ link[p] \in Link /\ link[Other(p)] \in Link
    BY OtherPeer DEF TypeOK
  <2>2. s \in Str /\ b \in Str /\ u \in Str
    BY <2>1, LinkBytes
  <2>3. w \in Str
    BY DEF TypeOK, Str
  <2> HIDE DEF s, b, w, u
  <2>4. Cat(Cat(Cat(s, b), w), u) = Cat(s, Cat(b, Cat(w, u)))
    <3>1. Cat(Cat(s, b), w) = Cat(s, Cat(b, w)) /\ Cat(b, w) \in Str
      BY <2>2, <2>3, StrFacts
    <3>2. Cat(Cat(s, Cat(b, w)), u) = Cat(s, Cat(Cat(b, w), u))
      BY <2>2, <3>1, StrFacts
    <3>3. Cat(Cat(b, w), u) = Cat(b, Cat(w, u))
      BY <2>2, <2>3, StrFacts
    <3> QED BY <3>1, <3>2, <3>3
  <2>5. s \o b \o w \o u = Cat(Cat(Cat(s, b), w), u)
    BY DEF Cat
  <2> QED BY <2>4, <2>5 DEF Way, s, b, w, u
<1> DEFINE Sent(p) ==
             SizeRead(link[Other(p)]) \o link[Other(p)].buffer \o wire[p] \o Unsent(link[p])
<1>2. \A p \in Peer :
        LaneOf(p) <=> /\ Len(delivered[Other(p)]) <= Len(accepted[p])
                      /\ delivered[Other(p)]
                            = SubSeq(accepted[p], 1, Len(delivered[Other(p)]))
                      /\ Sent(p) = Framed(Drop(accepted[p], Len(delivered[Other(p)])))
  BY <1>1 DEF LaneOf, Lane
<1>3. Framing <=>
        \A p \in Peer :
          /\ End(link[p])
          /\ Len(delivered[Other(p)]) <= Len(accepted[p])
          /\ delivered[Other(p)] = SubSeq(accepted[p], 1, Len(delivered[Other(p)]))
          /\ Sent(p) = Framed(Drop(accepted[p], Len(delivered[Other(p)])))
  BY DEF Framing, End
<1> HIDE DEF Sent
<1> QED BY <1>2, <1>3

\* The same after a step.
LEMMA FramingPartsNext ==
    Framing' <=> (TypeOK /\ \A p \in Peer : End(link[p]) /\ LaneOf(p))'
  BY FramingParts, PTL

\* The invariant holds at first, and every step keeps it.
LEMMA FramingInit == Init => Framing
<1> SUFFICES ASSUME Init PROVE Framing
  OBVIOUS
<1> DEFINE l == [queue |-> <<>>, sending |-> FALSE, reading |-> TRUE, declared |-> 0,
                 buffer |-> <<>>, halt |-> FALSE, sizeError |-> FALSE]
<1>1. l \in Link
  BY SizeAssumption DEF Link
<1>2. l.queue = <<>> /\ l.sending = FALSE /\ l.declared = 0 /\ l.buffer = <<>>
      /\ l.sizeError = FALSE
  OBVIOUS
<1>3. /\ link = [p \in Peer |-> l]
      /\ \A p \in Peer : link[p] = l /\ wire[p] = <<>>
      /\ \A p \in Peer : accepted[p] = <<>> /\ delivered[p] = <<>>
  BY DEF Init
<1> HIDE DEF l
<1>4. TypeOK
  <2>1. link \in [Peer -> Link]
    BY <1>1, <1>3
  <2>2. wire \in [Peer -> Seq(Byte)]
    BY DEF Init
  <2>3. accepted \in [Peer -> Seq(Packet)] /\ delivered \in [Peer -> Seq(Packet)]
    BY DEF Init
  <2> QED BY <2>1, <2>2, <2>3 DEF TypeOK
<1>5. End(l)
  <2>1. Waiting(l)
    BY <1>2 DEF Waiting
  <2> QED BY <1>2, <2>1 DEF End
<1>6. Lane(l, l, <<>>, <<>>, <<>>)
  <2>1. Way(l, l, <<>>) = <<>>
    <3>1. Unsent(l) = <<>>
      <4>1. [i \in DOMAIN <<>> |-> <<>>[i].bytes] = <<>>
        OBVIOUS
      <4> QED BY <1>2, <4>1, FlattenEmpty DEF Unsent
    <3>2. SizeRead(l) = <<>>
      BY <1>2 DEF SizeRead
    <3> QED BY <1>2, <3>1, <3>2, StrFacts DEF Way
  <2>2. Len(<<>>) = 0 /\ <<>> \in Seq(Packet) /\ <<>> = SubSeq(<<>>, 1, 0)
    OBVIOUS
  <2>3. Framed(Drop(<<>>, 0)) = <<>>
    BY <2>2, LastFrame
  <2> QED BY <2>1, <2>2, <2>3 DEF Lane
<1>7. \A p \in Peer : End(link[p]) /\ LaneOf(p)
  BY <1>3, <1>5, <1>6, OtherPeer DEF LaneOf
<1> QED BY <1>4, <1>7, FramingParts

LEMMA FramingSend ==
    ASSUME Framing, NEW p \in Peer, NEW packet \in Packet, Send(p, packet)
    PROVE  Framing'
<1> DEFINE q == Other(p)
           l == link[p]
           next == QueueSendBuffer(l, [data |-> IsData(packet), bytes |-> PrependSize(packet)])
<1>1. q \in Peer /\ q # p /\ Other(q) = p /\ \A r \in Peer : r = p \/ r = q
  BY OtherPeer DEF Peer, Other
<1>2. TypeOK /\ End(l) /\ End(link[q]) /\ LaneOf(p) /\ LaneOf(q)
  BY <1>1, FramingParts
<1>3. /\ link' = [link EXCEPT ![p] = next]
      /\ accepted' = [accepted EXCEPT ![p] = Append(@, packet)]
      /\ wire' = wire /\ delivered' = delivered /\ Room(l, packet)
  BY DEF Send
<1>4. /\ l \in Link /\ link[q] \in Link /\ wire[p] \in Str
      /\ accepted[p] \in Seq(Packet) /\ delivered[q] \in Seq(Packet)
  BY <1>1, <1>2 DEF TypeOK, Str
<1> HIDE DEF q, l, next
<1>5. /\ next \in Link /\ End(next)
      /\ next.declared = l.declared /\ next.buffer = l.buffer
      /\ Lane(next, link[q], wire[p], Append(accepted[p], packet), delivered[q])
      /\ Append(accepted[p], packet) \in Seq(Packet)
  <2>1. Lane(l, link[q], wire[p], accepted[p], delivered[q])
    BY <1>2 DEF LaneOf, q, l
  <2>2. next = QueueSendBuffer(l, [data |-> IsData(packet), bytes |-> PrependSize(packet)])
    BY DEF next
  <2>3. Room(l, packet) /\ End(l)
    BY <1>2, <1>3
  <2> QED BY <1>4, <2>1, <2>2, <2>3, SendLane
<1>6. /\ link'[p] = next /\ link'[q] = link[q]
      /\ accepted'[p] = Append(accepted[p], packet) /\ accepted'[q] = accepted[q]
  BY <1>1, <1>2, <1>3 DEF TypeOK
<1>7. TypeOK'
  BY <1>2, <1>3, <1>5 DEF TypeOK
<1>8. LaneOf(p)'
  BY <1>3, <1>5, <1>6 DEF LaneOf, q
<1>9. LaneOf(q)'
  <2>1. Lane(link[q], l, wire[q], accepted[q], delivered[p])
    BY <1>1, <1>2 DEF LaneOf, l
  <2>2. Lane(link[q], next, wire[q], accepted[q], delivered[p])
    BY <1>5, <2>1, LaneSame
  <2> QED BY <1>1, <1>3, <1>6, <2>2 DEF LaneOf
<1>10. End(link'[p]) /\ End(link'[q])
  BY <1>2, <1>5, <1>6
<1>11. (\A r \in Peer : End(link[r]) /\ LaneOf(r))'
  BY <1>1, <1>8, <1>9, <1>10
<1>12. (TypeOK /\ \A r \in Peer : End(link[r]) /\ LaneOf(r))'
  BY <1>7, <1>11
<1> QED BY <1>12, FramingPartsNext

LEMMA FramingHandleSend ==
    ASSUME Framing, NEW p \in Peer, NEW n \in 1 .. MaxSize + 2, HandleSend(p, n)
    PROVE  Framing'
<1> DEFINE q == Other(p)
           l == link[p]
           next == AfterSend(l, n)
           front == Take(Head(l.queue).bytes, n)
<1>1. q \in Peer /\ q # p /\ Other(q) = p /\ \A r \in Peer : r = p \/ r = q
  BY OtherPeer DEF Peer, Other
<1>2. TypeOK /\ End(l) /\ End(link[q]) /\ LaneOf(p) /\ LaneOf(q)
  BY <1>1, FramingParts
<1>3. /\ link' = [link EXCEPT ![p] = next]
      /\ wire' = [wire EXCEPT ![p] = @ \o front]
      /\ accepted' = accepted /\ delivered' = delivered /\ l.sending
  BY DEF HandleSend
<1>4. l \in Link /\ link[q] \in Link /\ wire[p] \in Str /\ n \in Nat
  BY <1>1, <1>2, SizeAssumption DEF TypeOK, Str
<1> HIDE DEF q, l, next
<1>5. /\ next \in Link /\ End(next)
      /\ next.declared = l.declared /\ next.buffer = l.buffer
      /\ front \in Str
      /\ Lane(next, link[q], Cat(wire[p], front), accepted[p], delivered[q])
  <2>1. Lane(l, link[q], wire[p], accepted[p], delivered[q])
    BY <1>2 DEF LaneOf, q, l
  <2>2. next = AfterSend(l, n)
    BY DEF next
  <2> QED BY <1>2, <1>3, <1>4, <2>1, <2>2, HandleSendLane
<1> HIDE DEF front
<1>6. Cat(wire[p], front) \in Str
  BY <1>4, <1>5, StrFacts
<1>7. /\ link'[p] = next /\ link'[q] = link[q]
      /\ wire'[p] = Cat(wire[p], front) /\ wire'[q] = wire[q]
  BY <1>1, <1>2, <1>3 DEF TypeOK, Cat
<1>8. TypeOK'
  <2>1. wire' \in [Peer -> Seq(Byte)]
    BY <1>2, <1>3, <1>6 DEF TypeOK, Cat, Str
  <2> QED BY <1>2, <1>3, <1>5, <2>1 DEF TypeOK
<1>9. LaneOf(p)'
  BY <1>3, <1>5, <1>7 DEF LaneOf, q
<1>10. LaneOf(q)'
  <2>1. Lane(link[q], l, wire[q], accepted[q], delivered[p])
    BY <1>1, <1>2 DEF LaneOf, l
  <2>2. Lane(link[q], next, wire[q], accepted[q], delivered[p])
    BY <1>5, <2>1, LaneSame
  <2> QED BY <1>1, <1>3, <1>7, <2>2 DEF LaneOf
<1>11. (\A r \in Peer : End(link[r]) /\ LaneOf(r))'
  BY <1>1, <1>2, <1>5, <1>7, <1>9, <1>10
<1> QED BY <1>8, <1>11, FramingPartsNext

\* What a read does, as lanes tell it: the packets it finds are the next ones.
LEMMA HandleRecvFinds ==
    ASSUME Framing, NEW p \in Peer, NEW n \in 1 .. Len(wire[Other(p)]),
           NEW stops \in BOOLEAN, HandleRecv(p, n, stops)
    PROVE  \E next, found :
             /\ next \in Link
             /\ link' = [link EXCEPT ![p] = next]
             /\ End(next) /\ next.queue = link[p].queue
             /\ next.halt = (stops /\ found # <<>>)
             /\ delivered' = [delivered EXCEPT ![p] = @ \o found]
             /\ wire' = [wire EXCEPT ![Other(p)] = Drop(@, n)]
             /\ accepted' = accepted
             /\ Drop(wire[Other(p)], n) \in Str
             /\ delivered[p] \o found \in Seq(Packet)
             /\ Len(found) \in Nat
             /\ Len(delivered[p] \o found) = Len(delivered[p]) + Len(found)
             /\ Lane(link[Other(p)], next, Drop(wire[Other(p)], n),
                     accepted[Other(p)], delivered[p] \o found)
<1> DEFINE q == Other(p)
           m == link[p]
           w == wire[q]
           start == [declared |-> m.declared, buffer |-> m.buffer,
                     read |-> Take(w, n), found |-> <<>>, error |-> FALSE]
           st == PutPktstream(start)
           next == AfterRecv(m, st, stops)
<1>1. q \in Peer /\ q # p /\ Other(q) = p
  BY OtherPeer
<1>2. TypeOK /\ End(m) /\ LaneOf(q)
  BY <1>1, FramingParts
<1>3. /\ link' = [link EXCEPT ![p] = next]
      /\ delivered' = [delivered EXCEPT ![p] = @ \o st.found]
      /\ wire' = [wire EXCEPT ![q] = Drop(@, n)]
      /\ accepted' = accepted
  <2>1. \E u \in {st} : /\ link' = [link EXCEPT ![p] = AfterRecv(@, u, stops)]
                        /\ delivered' = [delivered EXCEPT ![p] = @ \o u.found]
    <3> HIDE DEF st
    <3> QED BY DEF HandleRecv, st
  <2> HIDE DEF st
  <2>2. /\ link' = [link EXCEPT ![p] = AfterRecv(link[p], st, stops)]
        /\ delivered' = [delivered EXCEPT ![p] = @ \o st.found]
    BY <2>1
  <2> QED BY <2>2 DEF HandleRecv, next
<1>4. /\ m \in Link /\ link[q] \in Link /\ w \in Str /\ n \in Nat
      /\ accepted[q] \in Seq(Packet) /\ delivered[p] \in Seq(Packet)
  BY <1>1, <1>2 DEF TypeOK, Str
<1>5. Lane(link[q], m, w, accepted[q], delivered[p])
  BY <1>1, <1>2 DEF LaneOf
<1>6. st = PutPktstream([declared |-> m.declared, buffer |-> m.buffer,
                         read |-> Take(w, n), found |-> <<>>, error |-> FALSE])
  OBVIOUS
<1>7. next = AfterRecv(m, st, stops)
  OBVIOUS
<1> HIDE DEF m, w, st, next
<1>8. /\ next \in Link /\ End(next)
      /\ next.queue = m.queue
      /\ next.halt = (stops /\ st.found # <<>>)
      /\ Drop(w, n) \in Str /\ delivered[p] \o st.found \in Seq(Packet)
      /\ Len(st.found) \in Nat
      /\ Len(delivered[p] \o st.found) = Len(delivered[p]) + Len(st.found)
      /\ Lane(link[q], next, Drop(w, n), accepted[q], delivered[p] \o st.found)
  BY <1>2, <1>4, <1>5, <1>6, <1>7, HandleRecvLane
<1> DEFINE found == st.found
<1> HIDE DEF found
<1>9. /\ link' = [link EXCEPT ![p] = next]
      /\ delivered' = [delivered EXCEPT ![p] = @ \o found]
      /\ wire' = [wire EXCEPT ![q] = Drop(@, n)]
      /\ accepted' = accepted
  BY <1>3 DEF found
<1>10. /\ End(next) /\ next.queue = m.queue
       /\ next.halt = (stops /\ found # <<>>)
       /\ Drop(w, n) \in Str /\ delivered[p] \o found \in Seq(Packet)
       /\ Len(found) \in Nat
       /\ Len(delivered[p] \o found) = Len(delivered[p]) + Len(found)
       /\ Lane(link[q], next, Drop(w, n), accepted[q], delivered[p] \o found)
  BY <1>8 DEF found
<1> QED BY <1>8, <1>9, <1>10 DEF m, w

LEMMA FramingHandleRecv ==
    ASSUME Framing, NEW p \in Peer, NEW n \in 1 .. Len(wire[Other(p)]),
           NEW stops \in BOOLEAN, HandleRecv(p, n, stops)
    PROVE  Framing'
<1> DEFINE q == Other(p)
           l == link[p]
<1>1. q \in Peer /\ q # p /\ Other(q) = p /\ \A r \in Peer : r = p \/ r = q
  BY OtherPeer DEF Peer, Other
<1>2. TypeOK /\ End(l) /\ End(link[q]) /\ LaneOf(p) /\ LaneOf(q)
  BY <1>1, FramingParts
<1>3. PICK next, found :
             /\ next \in Link
             /\ link' = [link EXCEPT ![p] = next]
             /\ End(next) /\ next.queue = l.queue
             /\ next.halt = (stops /\ found # <<>>)
             /\ delivered' = [delivered EXCEPT ![p] = @ \o found]
             /\ wire' = [wire EXCEPT ![q] = Drop(@, n)]
             /\ accepted' = accepted
             /\ Drop(wire[q], n) \in Str
             /\ delivered[p] \o found \in Seq(Packet)
             /\ Len(found) \in Nat
             /\ Len(delivered[p] \o found) = Len(delivered[p]) + Len(found)
             /\ Lane(link[q], next, Drop(wire[q], n), accepted[q], delivered[p] \o found)
  BY HandleRecvFinds
<1> HIDE DEF q, l
<1> DEFINE del == delivered[p] \o found
           left == Drop(wire[q], n)
<1>4. /\ link' = [link EXCEPT ![p] = next]
      /\ delivered' = [delivered EXCEPT ![p] = del]
      /\ wire' = [wire EXCEPT ![q] = left]
      /\ accepted' = accepted
      /\ left \in Seq(Byte) /\ del \in Seq(Packet)
      /\ Lane(link[q], next, left, accepted[q], del)
  BY <1>3 DEF Str
<1> HIDE DEF del, left
<1>5. /\ link'[p] = next /\ link'[q] = link[q]
      /\ wire'[q] = left /\ wire'[p] = wire[p]
      /\ delivered'[p] = del /\ delivered'[q] = delivered[q]
  BY <1>1, <1>2, <1>4 DEF TypeOK
<1>6. TypeOK'
  BY <1>1, <1>2, <1>3, <1>4 DEF TypeOK
<1>7. LaneOf(q)'
  BY <1>1, <1>4, <1>5 DEF LaneOf
<1>8. LaneOf(p)'
  <2>1. Lane(l, link[q], wire[p], accepted[p], delivered[q])
    BY <1>2 DEF LaneOf, q, l
  <2>2. Lane(next, link[q], wire[p], accepted[p], delivered[q])
    BY <1>3, <2>1, LaneSame
  <2> QED BY <1>4, <1>5, <2>2 DEF LaneOf, q
<1>9. (\A r \in Peer : End(link[r]) /\ LaneOf(r))'
  BY <1>1, <1>2, <1>3, <1>5, <1>7, <1>8
<1> QED BY <1>6, <1>9, FramingPartsNext

LEMMA FramingStop ==
    ASSUME Framing, NEW p \in Peer, Stop(p)
    PROVE  Framing'
<1> DEFINE q == Other(p)
           l == link[p]
           next == [l EXCEPT !.halt = TRUE, !.reading = FALSE]
<1>1. q \in Peer /\ q # p /\ Other(q) = p /\ \A r \in Peer : r = p \/ r = q
  BY OtherPeer DEF Peer, Other
<1>2. TypeOK /\ End(l) /\ End(link[q]) /\ LaneOf(p) /\ LaneOf(q)
  BY <1>1, FramingParts
<1>3. l \in Link
  BY <1>2 DEF TypeOK
<1>4. /\ next \in Link /\ End(next)
      /\ next.queue = l.queue /\ next.declared = l.declared /\ next.buffer = l.buffer
  <2>1. /\ next \in Link /\ next.queue = l.queue /\ next.sending = l.sending
        /\ next.sizeError = l.sizeError
        /\ next.declared = l.declared /\ next.buffer = l.buffer
    <3> HIDE DEF l
    <3> QED BY <1>3 DEF Link
  <2> QED BY <1>2, <2>1 DEF End, Waiting
<1>5. /\ link' = [link EXCEPT ![p] = next]
      /\ wire' = wire /\ accepted' = accepted /\ delivered' = delivered
  BY <1>2 DEF Stop, TypeOK
<1> HIDE DEF q, l, next
<1>6. link'[p] = next /\ link'[q] = link[q]
  BY <1>1, <1>2, <1>5 DEF TypeOK
<1>7. TypeOK'
  BY <1>2, <1>4, <1>5 DEF TypeOK
<1>8. LaneOf(p)'
  <2>1. Lane(l, link[q], wire[p], accepted[p], delivered[q])
    BY <1>2 DEF LaneOf, q, l
  <2>2. Lane(next, link[q], wire[p], accepted[p], delivered[q])
    BY <1>4, <2>1, LaneSame
  <2> QED BY <1>5, <1>6, <2>2 DEF LaneOf, q
<1>9. LaneOf(q)'
  <2>1. Lane(link[q], l, wire[q], accepted[q], delivered[p])
    BY <1>1, <1>2 DEF LaneOf, l
  <2>2. Lane(link[q], next, wire[q], accepted[q], delivered[p])
    BY <1>4, <2>1, LaneSame
  <2> QED BY <1>1, <1>5, <1>6, <2>2 DEF LaneOf
<1>10. (\A r \in Peer : End(link[r]) /\ LaneOf(r))'
  BY <1>1, <1>2, <1>4, <1>6, <1>8, <1>9
<1> QED BY <1>7, <1>10, FramingPartsNext

LEMMA FramingNext == Framing /\ [Next]_vars => Framing'
<1> SUFFICES ASSUME Framing, [Next]_vars PROVE Framing'
  OBVIOUS
<1>1. CASE \E p \in Peer, packet \in Packet : Send(p, packet)
  BY <1>1, FramingSend
<1>2. CASE \E p \in Peer : \E n \in 1 .. MaxSize + 2 : HandleSend(p, n)
  BY <1>2, FramingHandleSend
<1>3. CASE \E p \in Peer : \E n \in 1 .. Len(wire[Other(p)]), stops \in BOOLEAN :
             HandleRecv(p, n, stops)
  BY <1>3, FramingHandleRecv
<1>4. CASE \E p \in Peer : Stop(p)
  BY <1>4, FramingStop
<1>5. CASE UNCHANGED vars
  BY <1>5 DEF vars, Framing, TypeOK
<1> QED BY <1>1, <1>2, <1>3, <1>4, <1>5 DEF Next

\* The invariant under all that follows.
THEOREM FramingInvariant == Spec => []Framing
  BY FramingInit, FramingNext, PTL DEF Spec

\* Every variable of the two links keeps its type.
THEOREM TypeCorrect == Spec => []TypeOK
<1>1. Framing => TypeOK
  BY DEF Framing
<1> QED BY <1>1, FramingInvariant, PTL

\* Between two ends that are up no byte is lost, added or moved, a queue that is
\* not empty is being sent, and no size is misread.
THEOREM NothingLost == Spec => []Conserved
<1>1. Framing => Conserved
  BY DEF Framing, Conserved
<1> QED BY <1>1, FramingInvariant, PTL

\* At most QueueLimit + 1 packets of data wait in a queue.
THEOREM DataIsBounded == Spec => []DataBounded
<1>1. Framing => DataBounded
  <2> SUFFICES ASSUME Framing, NEW p \in Peer
               PROVE  Cardinality({i \in DOMAIN link[p].queue : link[p].queue[i].data})
                        <= QueueLimit + 1
    BY DEF DataBounded
  <2> DEFINE S == {i \in DOMAIN link[p].queue : link[p].queue[i].data}
             T == 1 .. QueueLimit + 1
  <2>1. QueueLimit + 1 \in Nat
    BY BoundAssumption
  <2>2. S \subseteq T
    <3>1. DOMAIN link[p].queue \subseteq Nat \ {0}
      <4>1. link[p].queue \in Seq(Queued)
        BY DEF Framing, TypeOK, Link
      <4> QED BY <4>1
    <3>2. \A i \in S : i <= QueueLimit + 1
      BY DEF Framing
    <3> QED BY <2>1, <3>1, <3>2
  <2> HIDE DEF S
  <2>3. IsFiniteSet(T) /\ Cardinality(T) = QueueLimit + 1
    <3>1. /\ IsFiniteSet(T)
          /\ Cardinality(T) = IF 1 > QueueLimit + 1 THEN 0 ELSE (QueueLimit + 1) - 1 + 1
      BY <2>1, FS_Interval
    <3> QED BY <2>1, <3>1, BoundAssumption
  <2>4. Cardinality(S) <= Cardinality(T)
    <3> HIDE DEF T
    <3> QED BY <2>2, <2>3, FS_Subset
  <2> QED BY <2>3, <2>4 DEF S
<1> QED BY <1>1, FramingInvariant, PTL

-----------------------------------------------------------------------------
(* The links implement PacketPipe.                                         *)

Halted == [p \in Peer |-> link[p].halt]

\* At first nothing has passed, and then each step is one of PacketPipe's or none.
LEMMA PipeInit == Init => Pipe!Init
<1> SUFFICES ASSUME Init PROVE Pipe!Init
  OBVIOUS
<1>1. \A p \in Peer : link[p].halt = FALSE
  BY DEF Init
<1> QED BY <1>1 DEF Init, Pipe!Init

LEMMA PipeSend ==
    ASSUME Framing, NEW p \in Peer, NEW packet \in Packet, Send(p, packet)
    PROVE  Pipe!Send(p)
<1>1. /\ accepted' = [accepted EXCEPT ![p] = Append(@, packet)]
      /\ delivered' = delivered /\ ~link[p].halt
  BY DEF Send
<1>2. Halted' = Halted
  <2> DEFINE next == QueueSendBuffer(link[p], [data |-> IsData(packet),
                                               bytes |-> PrependSize(packet)])
  <2>1. link' = [link EXCEPT ![p] = next] /\ link \in [Peer -> Link]
    BY DEF Send, Framing, TypeOK
  <2>2. next.halt = link[p].halt
    <3>1. link[p] \in Link
      BY <2>1
    <3> QED BY <3>1 DEF QueueSendBuffer, Link
  <2> HIDE DEF next
  <2>3. \A r \in Peer : link'[r].halt = link[r].halt
    BY <2>1, <2>2
  <2> QED BY <2>3 DEF Halted
<1>3. Halted[p] = link[p].halt
  BY DEF Halted
<1> QED BY <1>1, <1>2, <1>3 DEF Pipe!Send, Halted

LEMMA PipeHandleSend ==
    ASSUME Framing, NEW p \in Peer, NEW n \in 1 .. MaxSize + 2, HandleSend(p, n)
    PROVE  UNCHANGED Pipe!vars
<1>1. accepted' = accepted /\ delivered' = delivered
  BY DEF HandleSend
<1>2. Halted' = Halted
  <2> DEFINE next == AfterSend(link[p], n)
  <2>1. link' = [link EXCEPT ![p] = next] /\ link \in [Peer -> Link]
    BY DEF HandleSend, Framing, TypeOK
  <2>2. next.halt = link[p].halt
    <3>1. link[p] \in Link
      BY <2>1
    <3> QED BY <3>1 DEF AfterSend, Link
  <2> HIDE DEF next
  <2>3. \A r \in Peer : link'[r].halt = link[r].halt
    BY <2>1, <2>2
  <2> QED BY <2>3 DEF Halted
<1> QED BY <1>1, <1>2 DEF Pipe!vars, Halted

LEMMA PipeStop ==
    ASSUME Framing, NEW p \in Peer, Stop(p)
    PROVE  Pipe!Stop(p)
<1>1. accepted' = accepted /\ delivered' = delivered
  BY DEF Stop
<1>2. Halted' = [Halted EXCEPT ![p] = TRUE]
  <2>1. /\ link' = [link EXCEPT ![p] = [link[p] EXCEPT !.halt = TRUE, !.reading = FALSE]]
        /\ link \in [Peer -> Link]
    BY DEF Stop, Framing, TypeOK
  <2>2. \A r \in Peer : link'[r].halt = IF r = p THEN TRUE ELSE link[r].halt
    BY <2>1 DEF Link
  <2> QED BY <2>2 DEF Halted
<1> QED BY <1>1, <1>2 DEF Pipe!Stop, Halted

LEMMA PipeHandleRecv ==
    ASSUME Framing, NEW p \in Peer, NEW n \in 1 .. Len(wire[Other(p)]),
           NEW stops \in BOOLEAN, HandleRecv(p, n, stops)
    PROVE  Pipe!Deliver(p, Other(p)) \/ UNCHANGED Pipe!vars
<1> DEFINE q == Other(p)
<1>1. PICK next, found :
             /\ next \in Link
             /\ link' = [link EXCEPT ![p] = next]
             /\ next.halt = (stops /\ found # <<>>)
             /\ delivered' = [delivered EXCEPT ![p] = @ \o found]
             /\ accepted' = accepted
             /\ delivered[p] \o found \in Seq(Packet)
             /\ Len(found) \in Nat
             /\ Len(delivered[p] \o found) = Len(delivered[p]) + Len(found)
             /\ Lane(link[q], next, Drop(wire[q], n), accepted[q], delivered[p] \o found)
  BY HandleRecvFinds
<1>2. /\ link \in [Peer -> Link] /\ ~link[p].halt
      /\ delivered \in [Peer -> Seq(Packet)] /\ accepted \in [Peer -> Seq(Packet)]
  BY DEF HandleRecv, Framing, TypeOK
<1> HIDE DEF q
<1> DEFINE del == delivered[p] \o found
           k == Len(del)
<1>3. delivered' = [delivered EXCEPT ![p] = del]
  BY <1>1
<1>4. Halted' = [Halted EXCEPT ![p] = stops /\ found # <<>>]
  <2>1. \A r \in Peer : link'[r].halt = IF r = p THEN next.halt ELSE link[r].halt
    BY <1>1, <1>2
  <2> QED BY <1>1, <2>1 DEF Halted
<1>5. Halted[p] = link[p].halt /\ Halted \in [Peer -> BOOLEAN] /\ Halted[p] = FALSE
  BY <1>2 DEF Halted, Link
<1>6. CASE Len(found) = 0
  <2>1. del = delivered[p] /\ found = <<>>
    <3>1. found = <<>>
      BY <1>1, <1>6
    <3> QED BY <1>2, <3>1
  <2> HIDE DEF del
  <2>2. delivered' = delivered
    BY <1>2, <1>3, <2>1
  <2>3. Halted' = Halted
    BY <1>4, <1>5, <2>1
  <2> QED BY <1>1, <2>2, <2>3 DEF Pipe!vars, Halted
<1>7. CASE Len(found) # 0
  <2>1. del = SubSeq(accepted[q], 1, k) /\ k <= Len(accepted[q])
    BY <1>1 DEF Lane
  <2>2. k = Len(delivered[p]) + Len(found) /\ Len(accepted[q]) \in Nat /\ Len(delivered[p]) \in Nat
    BY <1>1, <1>2, OtherPeer DEF q
  <2> HIDE DEF k, del
  <2>3. k \in Len(delivered[p]) + 1 .. Len(accepted[q])
    BY <1>1, <1>7, <2>1, <2>2
  <2>4. delivered' = [delivered EXCEPT ![p] = SubSeq(accepted[q], 1, k)]
    BY <1>3, <2>1
  <2>5. Halted' \in {Halted, [Halted EXCEPT ![p] = TRUE]}
    <3>1. CASE stops /\ found # <<>>
      BY <1>4, <3>1
    <3>2. CASE ~(stops /\ found # <<>>)
      BY <1>4, <1>5, <3>2
    <3> QED BY <3>1, <3>2
  <2>6. Pipe!Deliver(p, q)
    BY <1>1, <1>5, <2>3, <2>4, <2>5 DEF Pipe!Deliver, Halted
  <2> QED BY <2>6 DEF q
<1> QED BY <1>6, <1>7

LEMMA PipeNext == Framing /\ [Next]_vars => [Pipe!Next]_(Pipe!vars)
<1> SUFFICES ASSUME Framing, [Next]_vars PROVE [Pipe!Next]_(Pipe!vars)
  OBVIOUS
<1>1. CASE \E p \in Peer, packet \in Packet : Send(p, packet)
  BY <1>1, PipeSend DEF Pipe!Next
<1>2. CASE \E p \in Peer : \E n \in 1 .. MaxSize + 2 : HandleSend(p, n)
  BY <1>2, PipeHandleSend
<1>3. CASE \E p \in Peer : \E n \in 1 .. Len(wire[Other(p)]), stops \in BOOLEAN :
             HandleRecv(p, n, stops)
  <2>1. PICK p \in Peer : Pipe!Deliver(p, Other(p)) \/ UNCHANGED Pipe!vars
    BY <1>3, PipeHandleRecv
  <2>2. Other(p) \in Peer \ {p}
    BY OtherPeer
  <2> QED BY <2>1, <2>2 DEF Pipe!Next
<1>4. CASE \E p \in Peer : Stop(p)
  BY <1>4, PipeStop DEF Pipe!Next
<1>5. CASE UNCHANGED vars
  BY <1>5 DEF vars, Pipe!vars
<1> QED BY <1>1, <1>2, <1>3, <1>4, <1>5 DEF Next

\* However sends and reads cut the bytes, packets pass in order, whole and once.
THEOREM ImplementsPipe == Spec => PipeSpec
  BY FramingInvariant, PipeInit, PipeNext, PTL DEF Spec, PipeSpec, Pipe!Spec

=============================================================================
