---- MODULE ClaimResolution_proofs ----
(***************************************************************************)
(* For addresses of every length and lists of every length, a peer is let  *)
(* through exactly when the list names it, and nothing is written or shown *)
(* for another.  The account page and Auth speak of the same person, for   *)
(* every request.                                                          *)
(***************************************************************************)
EXTENDS ClaimResolution, SequenceTheorems, TLAPS

(***************************************************************************)
(* Addresses and entries.  What package net compares is turned, step by    *)
(* step, into a comparison of single bits of addresses written in the long *)
(* form, which is what the reference Lists compares.                       *)
(***************************************************************************)

\* Bits are sequences, and two of them are equal if they agree everywhere.
LEMMA BitsAreSequences ==
    ASSUME NEW n \in Nat, NEW a \in Bits(n)
    PROVE  /\ a \in Seq({0, 1}) /\ Len(a) = n
           /\ \A i \in 1..n : a[i] \in {0, 1}
BY DEF Bits

LEMMA SameBits ==
    ASSUME NEW n, NEW a \in Bits(n), NEW b \in Bits(n), \A i \in 1..n : a[i] = b[i]
    PROVE  a = b
<1>1. a \in [1..n -> {0, 1}] /\ b \in [1..n -> {0, 1}]
  BY DEF Bits
<1>2. a = [i \in 1..n |-> a[i]] /\ b = [i \in 1..n |-> b[i]]
  BY <1>1
<1> QED
  BY <1>2

LEMMA AddressIsSequence ==
    ASSUME NEW a \in Address
    PROVE  /\ a \in Seq({0, 1})
           /\ Len(a) \in {V4Bits, V6Bits} /\ a \in Bits(Len(a))
           /\ Len(a) \in Nat
BY BitsAreSequences, LengthsAssumption DEF Address

\* A mapped address is the prefix and an IPv4 address.
LEMMA MapLengthType == MapLength \in Nat \ {0} /\ V4Bits + MapLength = V6Bits
BY LengthsAssumption DEF MapLength

\* The first bits of two addresses are equal if they agree one by one.
Agree(n, s, t) == \A i \in 1..n : s[i] = t[i]

LEMMA SameHead ==
    ASSUME NEW s \in Seq({0, 1}), NEW t \in Seq({0, 1}), NEW n \in Nat,
           n <= Len(s), n <= Len(t)
    PROVE  SubSeq(s, 1, n) = SubSeq(t, 1, n) <=> Agree(n, s, t)
<1>1. /\ SubSeq(s, 1, n) \in Seq({0, 1}) /\ Len(SubSeq(s, 1, n)) = n
      /\ SubSeq(t, 1, n) \in Seq({0, 1}) /\ Len(SubSeq(t, 1, n)) = n
  OBVIOUS
<1>2. \A i \in 1..n : SubSeq(s, 1, n)[i] = s[i] /\ SubSeq(t, 1, n)[i] = t[i]
  OBVIOUS
<1>3. SubSeq(s, 1, n) = SubSeq(t, 1, n) => Agree(n, s, t)
  BY <1>2 DEF Agree
<1>4. Agree(n, s, t) => SubSeq(s, 1, n) = SubSeq(t, 1, n)
  BY <1>1, <1>2, SeqEqual DEF Agree
<1> QED
  BY <1>3, <1>4

\* To4 takes the prefix away from the addresses that begin with it.
LEMMA MapsBits ==
    ASSUME NEW a \in Address
    PROVE  Maps(a) <=> Len(a) = V6Bits /\ Agree(MapLength, a, MapPrefix)
<1>1. MapPrefix \in Seq({0, 1}) /\ Len(MapPrefix) = MapLength
  BY MapPrefixAssumption, MapLengthType, BitsAreSequences
<1>2. SubSeq(MapPrefix, 1, MapLength) = MapPrefix
  BY <1>1, MapLengthType
<1>3. Len(a) = V6Bits =>
        (SubSeq(a, 1, MapLength) = MapPrefix <=> Agree(MapLength, a, MapPrefix))
  BY <1>1, <1>2, AddressIsSequence, SameHead, MapLengthType, LengthsAssumption
<1> QED
  BY <1>3 DEF Maps

LEMMA To4Bits ==
    ASSUME NEW a \in Address
    PROVE  /\ To4(a) \in Address
           /\ Maps(a) => /\ Len(a) = V6Bits /\ Len(To4(a)) = V4Bits
                         /\ \A i \in 1..V4Bits : To4(a)[i] = a[MapLength + i]
           /\ ~Maps(a) => To4(a) = a
           /\ ~Maps(To4(a))
<1>1. CASE Maps(a)
  <2>1. a \in Seq({0, 1}) /\ Len(a) = V6Bits
    BY <1>1, AddressIsSequence DEF Maps
  <2>2. To4(a) = SubSeq(a, MapLength + 1, V6Bits)
    BY <1>1 DEF To4
  <2>3. /\ To4(a) \in Seq({0, 1}) /\ Len(To4(a)) = V4Bits
        /\ \A i \in 1..V4Bits : To4(a)[i] = a[MapLength + i]
    BY <2>1, <2>2, MapLengthType, LengthsAssumption
  <2>4. To4(a) \in Bits(V4Bits)
    BY <2>3, LengthsAssumption DEF Bits
  <2> QED
    BY <1>1, <2>1, <2>3, <2>4, LengthsAssumption DEF Address, Maps
<1>2. CASE ~Maps(a)
  BY <1>2 DEF To4
<1> QED
  BY <1>1, <1>2

LEMMA AsV6Bits ==
    ASSUME NEW a \in Address
    PROVE  /\ AsV6(a) \in Bits(V6Bits)
           /\ Len(a) = V6Bits => AsV6(a) = a
           /\ Len(a) = V4Bits =>
                /\ \A i \in 1..MapLength : AsV6(a)[i] = MapPrefix[i]
                /\ \A i \in 1..V4Bits : AsV6(a)[MapLength + i] = a[i]
<1>1. CASE Len(a) = V4Bits
  <2>1. MapPrefix \in Seq({0, 1}) /\ Len(MapPrefix) = MapLength
    BY MapPrefixAssumption, MapLengthType, BitsAreSequences
  <2>2. a \in Seq({0, 1})
    BY AddressIsSequence
  <2>3. AsV6(a) = MapPrefix \o a
    BY <1>1 DEF AsV6
  <2>4. AsV6(a) \in Seq({0, 1}) /\ Len(AsV6(a)) = V6Bits
    <3>1. /\ MapPrefix \o a \in Seq({0, 1})
          /\ Len(MapPrefix \o a) = Len(MapPrefix) + Len(a)
      BY <2>1, <2>2, ConcatProperties
    <3> QED
      BY <1>1, <2>1, <2>3, <3>1, MapLengthType, LengthsAssumption
  <2>5. /\ \A i \in 1..MapLength : AsV6(a)[i] = MapPrefix[i]
        /\ \A i \in 1..V4Bits : AsV6(a)[MapLength + i] = a[i]
    BY <1>1, <2>1, <2>2, <2>3, MapLengthType, LengthsAssumption
  <2>6. AsV6(a) \in Bits(V6Bits)
    BY <2>4 DEF Bits
  <2> QED
    BY <1>1, <2>5, <2>6, LengthsAssumption
<1>2. CASE Len(a) # V4Bits
  BY <1>2, AddressIsSequence DEF AsV6
<1> QED
  BY <1>1, <1>2

\* Whether an address has an IPv4 form does not depend on how it is written.
LEMMA OneFormOfEach ==
    ASSUME NEW a \in Address
    PROVE  /\ AsV6(a) \in Address /\ Len(AsV6(a)) = V6Bits
           /\ AsV6(To4(a)) = AsV6(a)
           /\ Maps(AsV6(a)) <=> Len(To4(a)) = V4Bits
           /\ ~Maps(AsV6(a)) => Len(To4(a)) = V6Bits /\ To4(a) = AsV6(a)
<1>1. AsV6(a) \in Address /\ Len(AsV6(a)) = V6Bits
  BY AsV6Bits, BitsAreSequences, LengthsAssumption DEF Address
<1>2. Maps(AsV6(a)) <=> Agree(MapLength, AsV6(a), MapPrefix)
  BY <1>1, MapsBits
<1>3. CASE Len(a) = V4Bits
  <2>1. To4(a) = a
    BY <1>3, LengthsAssumption DEF To4, Maps
  <2>2. Maps(AsV6(a))
    BY <1>2, <1>3, AsV6Bits DEF Agree
  <2> QED
    BY <1>1, <1>3, <2>1, <2>2
<1>4. CASE Len(a) = V6Bits /\ Maps(a)
  <2>1. AsV6(a) = a
    BY <1>4, AsV6Bits
  <2>2. /\ To4(a) \in Address /\ Len(To4(a)) = V4Bits
        /\ \A i \in 1..V4Bits : To4(a)[i] = a[MapLength + i]
    BY <1>4, To4Bits
  <2>3. /\ AsV6(To4(a)) \in Bits(V6Bits)
        /\ \A i \in 1..MapLength : AsV6(To4(a))[i] = MapPrefix[i]
        /\ \A i \in 1..V4Bits : AsV6(To4(a))[MapLength + i] = a[MapLength + i]
    BY <2>2, AsV6Bits
  <2>4. a \in Bits(V6Bits) /\ Agree(MapLength, a, MapPrefix)
    BY <1>4, AddressIsSequence, MapsBits
  <2>5. ASSUME NEW i \in 1..V6Bits
        PROVE  AsV6(To4(a))[i] = a[i]
    <3>1. CASE i <= MapLength
      BY <3>1, <2>3, <2>4, MapLengthType DEF Agree
    <3>2. CASE i > MapLength
      <4>1. i - MapLength \in 1..V4Bits /\ MapLength + (i - MapLength) = i
        BY <3>2, MapLengthType, LengthsAssumption
      <4> QED
        BY <4>1, <2>3
    <3> QED
      BY <3>1, <3>2, MapLengthType, LengthsAssumption
  <2>6. AsV6(To4(a)) = a
    BY <2>3, <2>4, <2>5, SameBits
  <2> QED
    BY <1>1, <1>4, <2>1, <2>2, <2>6
<1>5. CASE Len(a) = V6Bits /\ ~Maps(a)
  BY <1>1, <1>5, To4Bits, AsV6Bits, LengthsAssumption
<1> QED
  BY <1>3, <1>4, <1>5, AddressIsSequence

----------------------------------------------------------------------------

\* A plain address lists the one address, however the two are written.
LEMMA PlainListsItself ==
    ASSUME NEW e \in Entry, NEW a \in Address, e.kind = "address"
    PROVE  Contains(ParseEntry(e), a) <=> Lists(e, a)
<1> DEFINE ip == To4(e.ip)
           x == To4(a)
<1>1. e.ip \in Address
  BY DEF Entry, NoEntry, BadEntry
<1>2. /\ ip \in Address /\ To4(ip) = ip /\ x \in Address
      /\ ip \in Bits(Len(ip)) /\ x \in Bits(Len(x)) /\ Len(ip) \in Nat
  BY <1>1, To4Bits, AddressIsSequence
<1>3. ParseEntry(e) = [ip |-> ip, ones |-> Len(ip)]
  BY DEF ParseEntry
<1>4. Contains(ParseEntry(e), a) <=> Len(ip) = Len(x) /\ Mask(ip, Len(ip)) = Mask(x, Len(ip))
  <2> HIDE DEF ip, x
  <2>1. Contains([ip |-> ip, ones |-> Len(ip)], a)
          <=> Len(ip) = Len(x) /\ Mask(ip, Len(ip)) = Mask(x, Len(ip))
    BY <1>2 DEF Contains, x
  <2> QED
    BY <1>3, <2>1
<1>5. Contains(ParseEntry(e), a) <=> ip = x
  <2> HIDE DEF ip, x
  <2>1. ASSUME Len(ip) = Len(x), Mask(ip, Len(ip)) = Mask(x, Len(ip))
        PROVE  ip = x
    <3>1. \A i \in 1..Len(ip) : Mask(ip, Len(ip))[i] = ip[i] /\ Mask(x, Len(ip))[i] = x[i]
      BY <1>2, <2>1 DEF Mask
    <3> QED
      BY <1>2, <2>1, <3>1, SameBits
  <2> QED
    BY <1>4, <2>1
<1>6. AsV6(ip) = AsV6(e.ip) /\ AsV6(x) = AsV6(a)
  BY <1>1, OneFormOfEach
<1>7. ip = x <=> AsV6(e.ip) = AsV6(a)
  <2>1. AsV6(e.ip) = AsV6(a) => ip = x
    <3>1. ASSUME AsV6(e.ip) = AsV6(a), ~Maps(AsV6(a))
          PROVE  ip = x
      BY <1>1, <3>1, OneFormOfEach
    <3>2. ASSUME AsV6(e.ip) = AsV6(a), Maps(AsV6(a))
          PROVE  ip = x
      <4>1. Len(ip) = V4Bits /\ Len(x) = V4Bits
        BY <1>1, <3>2, OneFormOfEach
      <4>2. ASSUME NEW i \in 1..V4Bits
            PROVE  ip[i] = x[i]
        <5>1. AsV6(ip)[MapLength + i] = ip[i] /\ AsV6(x)[MapLength + i] = x[i]
          BY <1>2, <4>1, AsV6Bits
        <5> QED
          BY <1>6, <3>2, <5>1
      <4> QED
        BY <1>2, <4>1, <4>2, SameBits
    <3> QED
      BY <3>1, <3>2
  <2> QED
    BY <1>6, <2>1
<1>8. Lists(e, a) <=> AsV6(e.ip) = AsV6(a)
  <2>1. /\ SubSeq(AsV6(e.ip), 1, V6Bits) = AsV6(e.ip)
        /\ SubSeq(AsV6(a), 1, V6Bits) = AsV6(a)
    BY <1>1, OneFormOfEach, AddressIsSequence, LengthsAssumption
  <2> QED
    BY <2>1, MapLengthType, LengthsAssumption DEF Lists
<1> QED
  BY <1>5, <1>7, <1>8

\* The mask of a network, and the network without its last bits.
LEMMA MaskBits ==
    ASSUME NEW a \in Address, NEW n \in 0..Len(a)
    PROVE  /\ Mask(a, n) \in Address /\ Len(Mask(a, n)) = Len(a)
           /\ \A i \in 1..Len(a) : Mask(a, n)[i] = IF i <= n THEN a[i] ELSE 0
<1>1. a \in Bits(Len(a)) /\ Len(a) \in {V4Bits, V6Bits} /\ Len(a) \in Nat
  BY AddressIsSequence
<1>2. Mask(a, n) \in Bits(Len(a))
  BY <1>1 DEF Mask, Bits
<1>3. Len(Mask(a, n)) = Len(a)
  BY <1>1, <1>2, BitsAreSequences
<1> QED
  BY <1>1, <1>2, <1>3 DEF Mask, Address

LEMMA SameMasked ==
    ASSUME NEW a \in Address, NEW b \in Address, Len(a) = Len(b), NEW n \in 0..Len(a)
    PROVE  Mask(a, n) = Mask(b, n) <=> Agree(n, a, b)
<1>1. /\ Mask(a, n) \in Bits(Len(a)) /\ Mask(b, n) \in Bits(Len(a))
      /\ Len(a) \in Nat
  BY MaskBits, AddressIsSequence
<1>2. /\ \A i \in 1..n : Mask(a, n)[i] = a[i] /\ Mask(b, n)[i] = b[i]
      /\ \A i \in 1..Len(a) : i \notin 1..n => Mask(a, n)[i] = 0 /\ Mask(b, n)[i] = 0
  BY <1>1, MaskBits
<1>3. ASSUME Agree(n, a, b)
      PROVE  Mask(a, n) = Mask(b, n)
  <2>1. \A i \in 1..Len(a) : Mask(a, n)[i] = Mask(b, n)[i]
    BY <1>2, <1>3 DEF Agree
  <2> QED
    BY <1>1, <2>1, SameBits
<1>4. ASSUME Mask(a, n) = Mask(b, n)
      PROVE  Agree(n, a, b)
  BY <1>2, <1>4 DEF Agree
<1> QED
  BY <1>3, <1>4

\* Of the wider masks on an address that maps an IPv4 one none leaves it so.
LEMMA MaskedMaps ==
    ASSUME NEW a \in Address, Len(a) = V6Bits, NEW n \in 0..Len(a)
    PROVE  Maps(Mask(a, n)) <=> Maps(a) /\ n >= MapLength
<1>1. /\ Mask(a, n) \in Address /\ Len(Mask(a, n)) = V6Bits
      /\ \A i \in 1..V6Bits : Mask(a, n)[i] = IF i <= n THEN a[i] ELSE 0
  BY MaskBits
<1>2. MapLength \in 1..V6Bits
  BY MapLengthType, LengthsAssumption
<1>3. Maps(Mask(a, n)) <=> Agree(MapLength, Mask(a, n), MapPrefix)
  BY <1>1, MapsBits
<1>4. Maps(a) <=> Agree(MapLength, a, MapPrefix)
  BY MapsBits
<1>5. CASE n >= MapLength
  <2>1. \A i \in 1..MapLength : Mask(a, n)[i] = a[i]
    BY <1>1, <1>2, <1>5
  <2> QED
    BY <1>3, <1>4, <1>5, <2>1 DEF Agree
<1>6. CASE ~(n >= MapLength)
  <2>1. Mask(a, n)[MapLength] = 0
    BY <1>1, <1>2, <1>6
  <2>2. MapPrefix[MapLength] = 1
    BY MapPrefixAssumption
  <2>3. ~Agree(MapLength, Mask(a, n), MapPrefix)
    BY <1>2, <2>1, <2>2 DEF Agree
  <2> QED
    BY <1>3, <1>6, <2>3
<1> QED
  BY <1>5, <1>6

\* An IPv6 address begins with n + MapLength bits of a mapped one's if it maps
\* one that begins with n bits of that.
LEMMA MappedHead ==
    ASSUME NEW a \in Address, Len(a) = V4Bits, NEW b \in Address, NEW n \in 0..V4Bits
    PROVE  Agree(n + MapLength, AsV6(a), AsV6(b))
             <=> Len(To4(b)) = V4Bits /\ Agree(n, a, To4(b))
<1> DEFINE x == To4(b)
           wide == AsV6(a)
           y == AsV6(b)
<1>1. /\ \A i \in 1..MapLength : wide[i] = MapPrefix[i]
      /\ \A i \in 1..V4Bits : wide[MapLength + i] = a[i]
  BY AsV6Bits
<1>2. /\ y \in Address /\ Len(y) = V6Bits
      /\ AsV6(x) = y /\ (Maps(y) <=> Len(x) = V4Bits) /\ x \in Address
      /\ Maps(y) <=> Agree(MapLength, y, MapPrefix)
  BY OneFormOfEach, MapsBits, To4Bits
<1>3. Len(x) = V4Bits => \A i \in 1..V4Bits : y[MapLength + i] = x[i]
  BY <1>2, AsV6Bits
<1> HIDE DEF x, wide, y
<1>4. ASSUME Agree(n + MapLength, wide, y)
      PROVE  Len(x) = V4Bits /\ Agree(n, a, x)
  <2>1. \A i \in 1..n + MapLength : wide[i] = y[i]
    BY <1>4 DEF Agree
  <2>2. Agree(MapLength, y, MapPrefix)
    <3>1. \A i \in 1..MapLength : i \in 1..n + MapLength
      BY MapLengthType
    <3> QED
      BY <1>1, <2>1, <3>1 DEF Agree
  <2>3. Len(x) = V4Bits
    BY <1>2, <2>2
  <2>4. \A i \in 1..n : MapLength + i \in 1..n + MapLength /\ i \in 1..V4Bits
    BY MapLengthType, LengthsAssumption
  <2>5. Agree(n, a, x)
    BY <1>1, <1>3, <2>1, <2>3, <2>4 DEF Agree
  <2> QED
    BY <2>3, <2>5
<1>5. ASSUME Len(x) = V4Bits, Agree(n, a, x)
      PROVE  Agree(n + MapLength, wide, y)
  <2>1. Agree(MapLength, y, MapPrefix)
    BY <1>2, <1>5
  <2>2. ASSUME NEW i \in 1..n + MapLength
        PROVE  wide[i] = y[i]
    <3>1. CASE i <= MapLength
      <4>1. i \in 1..MapLength
        BY <3>1, MapLengthType
      <4> QED
        BY <1>1, <2>1, <4>1 DEF Agree
    <3>2. CASE i > MapLength
      <4>1. i - MapLength \in 1..n /\ i - MapLength \in 1..V4Bits
            /\ MapLength + (i - MapLength) = i
        BY <3>2, MapLengthType, LengthsAssumption
      <4>2. /\ wide[MapLength + (i - MapLength)] = a[i - MapLength]
            /\ y[MapLength + (i - MapLength)] = x[i - MapLength]
            /\ a[i - MapLength] = x[i - MapLength]
        BY <1>1, <1>3, <1>5, <4>1 DEF Agree
      <4> QED
        BY <4>1, <4>2
    <3> QED
      BY <3>1, <3>2, MapLengthType
  <2> QED
    BY <2>2 DEF Agree
<1> QED
  BY <1>4, <1>5 DEF x, wide, y

\* What Contains compares, once the forms of network and address are known.
LEMMA ContainsMasked ==
    ASSUME NEW net, NEW a, NEW n, NEW ip,
           To4(net.ip) = ip,
           n = LET cut == net.ones - (Len(net.ip) - Len(ip)) IN IF cut < 0 THEN 0 ELSE cut
    PROVE  Contains(net, a) <=> Len(ip) = Len(To4(a)) /\ Mask(ip, n) = Mask(To4(a), n)
BY DEF Contains

\* Lists, by the bits one by one.
LEMMA ListsBits ==
    ASSUME NEW e \in Entry, NEW a \in Address, e.kind = "cidr"
    PROVE  LET ones == e.ones + V6Bits - Len(e.ip)
           IN  /\ e.ip \in Address /\ e.ones \in 0..Len(e.ip) /\ ones \in 0..V6Bits
               /\ Lists(e, a) <=> /\ Agree(ones, AsV6(e.ip), AsV6(a))
                                  /\ Maps(AsV6(a)) => ones >= MapLength
<1> DEFINE ones == e.ones + V6Bits - Len(e.ip)
<1>1. e.ip \in Address /\ e.ones \in 0..Len(e.ip)
  BY DEF Entry, NoEntry, BadEntry
<1>2. ones \in 0..V6Bits
  BY <1>1, AddressIsSequence, LengthsAssumption
<1>3. /\ AsV6(e.ip) \in Seq({0, 1}) /\ Len(AsV6(e.ip)) = V6Bits
      /\ AsV6(a) \in Seq({0, 1}) /\ Len(AsV6(a)) = V6Bits
  BY <1>1, OneFormOfEach, AddressIsSequence
<1>4. Lists(e, a) <=> /\ SubSeq(AsV6(e.ip), 1, ones) = SubSeq(AsV6(a), 1, ones)
                      /\ Maps(AsV6(a)) => ones >= MapLength
  BY <1>3 DEF Lists
<1>5. SubSeq(AsV6(e.ip), 1, ones) = SubSeq(AsV6(a), 1, ones)
        <=> Agree(ones, AsV6(e.ip), AsV6(a))
  <2>1. ones \in Nat /\ ones <= V6Bits
    BY <1>2, LengthsAssumption
  <2> HIDE DEF ones
  <2> QED
    BY <1>3, <2>1, SameHead
<1> QED
  BY <1>1, <1>2, <1>4, <1>5

\* A network of IPv4 addresses, in either form.
LEMMA V4NetworkListsBits ==
    ASSUME NEW e \in Entry, NEW a \in Address, e.kind = "cidr", Len(e.ip) = V4Bits
    PROVE  Contains(ParseEntry(e), a) <=> Lists(e, a)
<1> DEFINE M == Mask(e.ip, e.ones)
<1>1. /\ e.ip \in Address /\ e.ones \in 0..V4Bits
      /\ Lists(e, a) <=> /\ Agree(e.ones + MapLength, AsV6(e.ip), AsV6(a))
                         /\ Maps(AsV6(a)) => e.ones + MapLength >= MapLength
  <2>1. e.ones \in 0..V4Bits => e.ones + V6Bits - Len(e.ip) = e.ones + MapLength
    BY MapLengthType, LengthsAssumption
  <2> QED
    BY <2>1, ListsBits
<1>2. Lists(e, a) <=> Len(To4(a)) = V4Bits /\ Agree(e.ones, e.ip, To4(a))
  BY <1>1, MappedHead, MapLengthType, LengthsAssumption
<1>3. /\ M \in Address /\ Len(M) = V4Bits /\ To4(M) = M
      /\ \A i \in 1..V4Bits : M[i] = IF i <= e.ones THEN e.ip[i] ELSE 0
  <2>1. /\ M \in Address /\ Len(M) = V4Bits
        /\ \A i \in 1..V4Bits : M[i] = IF i <= e.ones THEN e.ip[i] ELSE 0
    BY <1>1, MaskBits
  <2>2. ~Maps(M)
    BY <2>1, LengthsAssumption DEF Maps
  <2> QED
    BY <2>1, <2>2, To4Bits
<1>4. Contains(ParseEntry(e), a)
        <=> Len(M) = Len(To4(a)) /\ Mask(M, e.ones) = Mask(To4(a), e.ones)
  <2> DEFINE net == [ip |-> M, ones |-> e.ones]
  <2>1. ParseEntry(e) = net
    BY DEF ParseEntry
  <2>2. To4(net.ip) = M /\ net.ones - (Len(net.ip) - Len(M)) = e.ones /\ ~(e.ones < 0)
    BY <1>1, <1>3, LengthsAssumption
  <2> HIDE DEF net, M
  <2> QED
    BY <2>1, <2>2, ContainsMasked
<1>5. To4(a) \in Address
  BY To4Bits
<1>6. Len(To4(a)) = V4Bits =>
        (Mask(M, e.ones) = Mask(To4(a), e.ones) <=> Agree(e.ones, M, To4(a)))
  BY <1>1, <1>3, <1>5, SameMasked
<1>7. Agree(e.ones, M, To4(a)) <=> Agree(e.ones, e.ip, To4(a))
  BY <1>1, <1>3, LengthsAssumption DEF Agree
<1> QED
  BY <1>2, <1>3, <1>4, <1>6, <1>7

\* A network of IPv6 addresses, which may be one of mapped ones.
LEMMA V6NetworkListsBits ==
    ASSUME NEW e \in Entry, NEW a \in Address, e.kind = "cidr", Len(e.ip) = V6Bits
    PROVE  Contains(ParseEntry(e), a) <=> Lists(e, a)
<1> DEFINE k == e.ones
           M == Mask(e.ip, k)
           x == To4(a)
           y == AsV6(a)
           net == [ip |-> M, ones |-> k]
<1>1. /\ e.ip \in Address /\ k \in 0..V6Bits
      /\ Lists(e, a) <=> Agree(k, e.ip, y) /\ (Maps(y) => k >= MapLength)
  <2>1. /\ e.ip \in Address /\ e.ones \in 0..V6Bits
        /\ Lists(e, a) <=> /\ Agree(e.ones + V6Bits - V6Bits, AsV6(e.ip), AsV6(a))
                           /\ Maps(AsV6(a)) => e.ones + V6Bits - V6Bits >= MapLength
    BY ListsBits
  <2>2. e.ones \in 0..V6Bits => e.ones + V6Bits - V6Bits = e.ones
    BY LengthsAssumption
  <2>3. AsV6(e.ip) = e.ip
    BY <2>1, AsV6Bits
  <2> QED
    BY <2>1, <2>2, <2>3
<1>2. /\ M \in Address /\ Len(M) = V6Bits
      /\ \A i \in 1..V6Bits : M[i] = IF i <= k THEN e.ip[i] ELSE 0
      /\ Maps(M) <=> Maps(e.ip) /\ k >= MapLength
  BY <1>1, MaskBits, MaskedMaps
<1>3. Agree(k, M, y) <=> Agree(k, e.ip, y)
  <2>1. \A i \in 1..k : M[i] = e.ip[i]
    BY <1>1, <1>2, LengthsAssumption
  <2> QED
    BY <2>1 DEF Agree
<1>4. /\ x \in Address /\ y \in Address /\ Len(y) = V6Bits
      /\ Maps(y) <=> Len(x) = V4Bits
      /\ ~Maps(y) => Len(x) = V6Bits /\ x = y
  BY To4Bits, OneFormOfEach
<1>5. ParseEntry(e) = net
  BY DEF ParseEntry
<1>6. CASE Maps(M)
  <2> DEFINE ip == To4(M)
             n == k - MapLength
  <2>1. /\ ip \in Address /\ Len(ip) = V4Bits /\ n \in 0..V4Bits /\ n + MapLength = k
        /\ k >= MapLength
    BY <1>1, <1>2, <1>6, To4Bits, MapLengthType, LengthsAssumption
  <2>2. AsV6(ip) = M
    BY <1>2, OneFormOfEach, AsV6Bits
  <2>3. Lists(e, a) <=> Len(x) = V4Bits /\ Agree(n, ip, x)
    <3>1. Agree(n + MapLength, AsV6(ip), y) <=> Len(x) = V4Bits /\ Agree(n, ip, x)
      BY <2>1, MappedHead
    <3> HIDE DEF n, ip, M, k, x, y
    <3> QED
      BY <1>1, <1>3, <2>1, <2>2, <3>1
  <2>4. Contains(net, a) <=> Len(ip) = Len(x) /\ Mask(ip, n) = Mask(x, n)
    <3>1. net.ones - (Len(net.ip) - Len(ip)) = n /\ ~(n < 0)
      BY <1>1, <1>2, <2>1, MapLengthType, LengthsAssumption
    <3>2. To4(net.ip) = ip
      OBVIOUS
    <3> HIDE DEF net, ip, n
    <3> QED
      BY <3>1, <3>2, ContainsMasked
  <2>5. Len(x) = V4Bits => (Mask(ip, n) = Mask(x, n) <=> Agree(n, ip, x))
    <3> HIDE DEF ip, n, x
    <3> QED
      BY <1>4, <2>1, SameMasked
  <2> HIDE DEF ip, n, x, net
  <2> QED
    BY <1>5, <2>1, <2>3, <2>4, <2>5
<1>7. CASE ~Maps(M)
  <2>1. To4(net.ip) = M /\ net.ones - (Len(net.ip) - Len(M)) = k /\ ~(k < 0)
    BY <1>1, <1>2, <1>7, To4Bits, LengthsAssumption
  <2>2. Contains(net, a) <=> Len(M) = Len(x) /\ Mask(M, k) = Mask(x, k)
    <3> HIDE DEF net, M, k
    <3> QED
      BY <2>1, ContainsMasked
  <2>3. CASE ~Maps(y)
    <3>1. Mask(M, k) = Mask(x, k) <=> Agree(k, M, x)
      <4>1. Len(M) = Len(x) /\ k \in 0..Len(M)
        BY <1>1, <1>2, <1>4, <2>3
      <4> HIDE DEF M, k, x
      <4> QED
        BY <1>2, <1>4, <4>1, SameMasked
    <3> HIDE DEF net, M, k, x, y
    <3> QED
      BY <1>1, <1>2, <1>3, <1>4, <1>5, <2>2, <2>3, <3>1
  <2>4. CASE Maps(y)
    <3>1. ~Contains(net, a)
      BY <1>2, <1>4, <2>2, <2>4, LengthsAssumption
    <3>2. ~Lists(e, a)
      <4>1. SUFFICES ASSUME Agree(k, e.ip, y), k >= MapLength
                     PROVE  FALSE
        BY <1>1, <2>4
      <4>2. Agree(MapLength, y, MapPrefix)
        BY <1>4, <2>4, MapsBits
      <4>3. \A i \in 1..MapLength : i \in 1..k
        BY <1>1, <4>1, MapLengthType, LengthsAssumption
      <4>4. Agree(MapLength, e.ip, MapPrefix)
        BY <4>1, <4>2, <4>3 DEF Agree
      <4> QED
        BY <1>1, <1>2, <1>7, <4>1, <4>4, MapsBits
    <3> QED
      BY <1>5, <3>1, <3>2
  <2> QED
    BY <2>3, <2>4
<1> QED
  BY <1>6, <1>7

\* What ParseEntry makes of an entry contains the addresses that it lists.
LEMMA ParsedListsSame ==
    ASSUME NEW e \in Entry \ {NoEntry, BadEntry}, NEW a \in Address
    PROVE  Contains(ParseEntry(e), a) <=> Lists(e, a)
<1>1. /\ e \in Entry /\ e.kind \in {"address", "cidr"}
      /\ e.ip \in Address
  BY DEF Entry
<1> QED
  BY <1>1, PlainListsItself, V4NetworkListsBits, V6NetworkListsBits, AddressIsSequence

LEMMA ParsedIsNetwork ==
    ASSUME NEW e \in Entry \ {NoEntry, BadEntry}
    PROVE  ParseEntry(e) \in Network
<1>1. CASE e.kind = "address"
  <2>1. e.ip \in Address
    BY <1>1 DEF Entry, NoEntry, BadEntry
  <2>2. /\ To4(e.ip) \in Address /\ Len(To4(e.ip)) \in 0..V6Bits
        /\ \A i \in Len(To4(e.ip)) + 1..Len(To4(e.ip)) : To4(e.ip)[i] = 0
    BY <2>1, To4Bits, AddressIsSequence, LengthsAssumption
  <2>3. ParseEntry(e) = [ip |-> To4(e.ip), ones |-> Len(To4(e.ip))]
    BY <1>1 DEF ParseEntry
  <2>4. [ip |-> To4(e.ip), ones |-> Len(To4(e.ip))] \in [ip : Address, ones : 0..V6Bits]
    BY <2>2
  <2> QED
    BY <2>2, <2>3, <2>4, LengthsAssumption DEF Network
<1>2. CASE e.kind = "cidr"
  <2>1. e.ip \in Address /\ e.ones \in 0..Len(e.ip) /\ Len(e.ip) \in {V4Bits, V6Bits}
    BY <1>2, AddressIsSequence DEF Entry, NoEntry, BadEntry
  <2> DEFINE M == Mask(e.ip, e.ones)
  <2>2. /\ M \in Address /\ Len(M) = Len(e.ip)
        /\ \A i \in 1..Len(e.ip) : M[i] = IF i <= e.ones THEN e.ip[i] ELSE 0
    BY <2>1, MaskBits
  <2>3. ParseEntry(e) = [ip |-> M, ones |-> e.ones]
    BY <1>2 DEF ParseEntry
  <2>4. \A i \in (e.ones + 1)..Len(M) : M[i] = 0
    BY <2>1, <2>2, LengthsAssumption
  <2>5. e.ones <= Len(M) /\ e.ones \in 0..V6Bits
    BY <2>1, <2>2, LengthsAssumption
  <2> HIDE DEF M
  <2>6. [ip |-> M, ones |-> e.ones] \in [ip : Address, ones : 0..V6Bits]
    BY <2>2, <2>5
  <2> QED
    BY <2>3, <2>4, <2>5, <2>6 DEF Network
<1>3. e.kind \in {"address", "cidr"}
  BY DEF Entry
<1> QED
  BY <1>1, <1>2, <1>3

----------------------------------------------------------------------------
(***************************************************************************)
(* Auth and the account page.                                              *)
(***************************************************************************)

\* A claim that decoding all of them yields, decoding it alone yields too.
LEMMA DecodeAlone ==
    ASSUME NEW token, NEW c \in Claims, extractClaimsFromJWT(token)[c] # None
    PROVE  Decode(token, {c})[c] = extractClaimsFromJWT(token)[c]
BY DEF extractClaimsFromJWT, Decode

\* Where Auth finds a subject and a name, the account page finds the same.
LEMMA SamePerson ==
    ASSUME NEW q, None \notin {AuthSub(q), AuthName(q)}
    PROVE  /\ ExtractSubFromRequest(q) = AuthSub(q)
           /\ ExtractPreferredUsernameFromRequest(q) = AuthName(q)
<1> DEFINE full == extractClaimsFromJWT(TokenOf(q))
<1>1. full["sub"] # None => Decode(TokenOf(q), {"sub"})["sub"] = full["sub"]
  BY DecodeAlone DEF Claims
<1>2. full["preferred_username"] # None =>
        Decode(TokenOf(q), {"preferred_username"})["preferred_username"]
          = full["preferred_username"]
  BY DecodeAlone DEF Claims
<1>3. ExtractSubFromRequest(q) = AuthSub(q)
  BY <1>1 DEF AuthSub, ExtractSubFromRequest, Else
<1>4. ExtractPreferredUsernameFromRequest(q) = AuthName(q)
  BY <1>2 DEF AuthName, ExtractPreferredUsernameFromRequest, Else
<1> QED
  BY <1>3, <1>4

\* If Auth last signed the request in, it did so for the subject and name it
\* reads in it, which has a row; and the account page has been asked since, or
\* not.
IInv ==
    /\ SignedIn =>
         /\ None \notin {AuthSub(req), AuthName(req)}
         /\ auth = Signed(AuthSub(req), AuthName(req))
         /\ AuthSub(req) \in rows
    /\ AccountOfSignedIn

LEMMA InitInv == Init => IInv
BY DEF Init, IInv, AccountOfSignedIn, SignedIn

LEMMA AuthKeepsInv ==
    ASSUME IInv, Auth, UNCHANGED req
    PROVE  IInv'
<1>1. page' = None /\ req' = req
  BY DEF Auth
<1>2. CASE auth' \in {Refused("401"), Refused("500")}
  <2>1. ~SignedIn'
    BY <1>2 DEF SignedIn, Refused
  <2> QED
    BY <2>1 DEF IInv, AccountOfSignedIn
<1>3. CASE None \notin {AuthSub(req), AuthName(req)} /\ SignIn(AuthSub(req), AuthName(req))
  <2>1. auth' = Signed(AuthSub(req), AuthName(req)) /\ AuthSub(req) \in rows'
    BY <1>3 DEF SignIn
  <2>2. AuthSub(req)' = AuthSub(req) /\ AuthName(req)' = AuthName(req)
    BY <1>1 DEF AuthSub, AuthName
  <2> QED
    BY <1>1, <1>3, <2>1, <2>2 DEF IInv, AccountOfSignedIn
<1> QED
  BY <1>2, <1>3 DEF Auth, SignInFails

LEMMA AccountKeepsInv ==
    ASSUME IInv, Account, UNCHANGED req
    PROVE  IInv'
<1>1. auth' = auth /\ rows' = rows /\ req' = req
  BY DEF Account
<1>2. CASE ~SignedIn
  BY <1>1, <1>2 DEF IInv, AccountOfSignedIn, SignedIn
<1>3. CASE SignedIn
  <2>1. /\ None \notin {AuthSub(req), AuthName(req)}
        /\ auth = Signed(AuthSub(req), AuthName(req))
        /\ AuthSub(req) \in rows
    BY <1>3 DEF IInv
  <2>2. /\ ExtractSubFromRequest(req) = AuthSub(req)
        /\ ExtractPreferredUsernameFromRequest(req) = AuthName(req)
    BY <2>1, SamePerson
  <2>3. page' \in {auth, Refused("500")}
    BY <2>1, <2>2 DEF Account
  <2>4. AuthSub(req)' = AuthSub(req) /\ AuthName(req)' = AuthName(req)
    BY <1>1 DEF AuthSub, AuthName
  <2> QED
    BY <1>1, <2>1, <2>3, <2>4 DEF IInv, AccountOfSignedIn
<1> QED
  BY <1>2, <1>3

LEMMA NextKeepsInv == IInv /\ [Next]_vars => IInv'
<1> SUFFICES ASSUME IInv, [Next]_vars PROVE IInv'
  OBVIOUS
<1>1. ASSUME NEW p \in Peer, Guarded(p, Auth)
      PROVE  IInv'
  <2>1. CASE Auth
    BY <1>1, <2>1, AuthKeepsInv DEF Guarded
  <2>2. CASE UNCHANGED <<rows, auth, page, req>>
    BY <2>2 DEF IInv, AccountOfSignedIn, SignedIn, AuthSub, AuthName
  <2> QED
    BY <1>1, <2>1, <2>2 DEF Guarded
<1>2. ASSUME NEW p \in Peer, Guarded(p, Account)
      PROVE  IInv'
  <2>1. CASE Account
    BY <1>2, <2>1, AccountKeepsInv DEF Guarded
  <2>2. CASE UNCHANGED <<rows, auth, page, req>>
    BY <2>2 DEF IInv, AccountOfSignedIn, SignedIn, AuthSub, AuthName
  <2> QED
    BY <1>2, <2>1, <2>2 DEF Guarded
<1>3. CASE UNCHANGED <<req, rows, auth, page>>
  BY <1>3 DEF IInv, AccountOfSignedIn, SignedIn, AuthSub, AuthName
<1> QED
  BY <1>1, <1>2, <1>3 DEF Next, Start, Failed, vars

\* Whatever headers a request has and wherever the claims come from, the
\* account page shows the row of the subject Auth signed in, under the preferred
\* name Auth read.
THEOREM SamePersonShown == Spec => []AccountOfSignedIn
<1>1. IInv => AccountOfSignedIn
  BY DEF IInv
<1> QED
  BY <1>1, InitInv, NextKeepsInv, PTL DEF Spec

----------------------------------------------------------------------------
(***************************************************************************)
(* The check in front of both.                                             *)
(***************************************************************************)

NamedEntries == {env[i] : i \in 1..Len(env)} \ {NoEntry}

\* While the bridge serves, what it has parsed are the entries of the list; and
\* every answer it gave was the list's.
AdmissionInv ==
    /\ IsEntryList(env)
    /\ pc = "serve" => BadEntry \notin NamedEntries
                       /\ trusted = {ParseEntry(e) : e \in NamedEntries}
    /\ pc # "serve" => answer = "none"
    /\ AcceptedIffListed

\* The answer to a peer, in terms of the list.
LEMMA TrustedIsListed ==
    ASSUME AdmissionInv, pc = "serve", NEW p \in Peer, p.ip # <<>>
    PROVE  IsIPTrusted(p.ip, trusted) <=> \E i \in 1..Len(env) : Lists(env[i], p.ip)
<1>1. p.ip \in Address
  BY DEF Peer
<1>2. \A i \in 1..Len(env) : env[i] \in Entry
  BY DEF AdmissionInv, IsEntryList
<1>3. IsIPTrusted(p.ip, trusted) <=> \E e \in NamedEntries : Contains(ParseEntry(e), p.ip)
  BY DEF AdmissionInv, IsIPTrusted
<1>4. ASSUME NEW e \in NamedEntries
      PROVE  Contains(ParseEntry(e), p.ip) <=> Lists(e, p.ip)
  <2>1. e \in Entry \ {NoEntry, BadEntry}
    BY <1>2 DEF AdmissionInv, NamedEntries
  <2> QED
    BY <1>1, <2>1, ParsedListsSame
<1>5. ~Lists(NoEntry, p.ip)
  BY DEF Lists, NoEntry
<1>6. (\E e \in NamedEntries : Lists(e, p.ip)) <=> \E i \in 1..Len(env) : Lists(env[i], p.ip)
  BY <1>5 DEF NamedEntries
<1> QED
  BY <1>3, <1>4, <1>6

LEMMA InitAdmission == Init => AdmissionInv
<1> SUFFICES ASSUME Init PROVE AdmissionInv
  OBVIOUS
<1>1. PICK c \in Cases : ProxiesInit(c.list)
  BY DEF Init
<1>2. IsEntryList(c.list)
  BY CasesAssumption
<1>3. env = c.list /\ pc = "load" /\ answer = "none"
  BY <1>1 DEF ProxiesInit
<1> QED
  BY <1>2, <1>3 DEF AdmissionInv, AcceptedIffListed

LEMMA LoadKeepsAdmission ==
    ASSUME AdmissionInv, Load
    PROVE  AdmissionInv'
<1>1. pc = "load" /\ env' = env /\ peer' = peer /\ answer' = answer
  BY DEF Load
<1>2. answer' = "none" /\ ~AcceptedIffListed' => FALSE
  BY DEF AcceptedIffListed
<1>3. answer' = "none"
  BY <1>1 DEF AdmissionInv
<1>4. NamedEntries' = NamedEntries
  BY <1>1 DEF NamedEntries
<1>5. \/ pc' = "failed"
      \/ pc' = "serve" /\ BadEntry \notin NamedEntries
         /\ trusted' = {ParseEntry(e) : e \in NamedEntries}
  BY DEF Load, NamedEntries
<1>6. IsEntryList(env)'
  BY <1>1 DEF AdmissionInv, IsEntryList
<1> QED
  BY <1>2, <1>3, <1>4, <1>5, <1>6 DEF AdmissionInv

LEMMA CheckKeepsAdmission ==
    ASSUME AdmissionInv, NEW p \in Peer, TrustedProxy(p)
    PROVE  AdmissionInv' /\ (answer' = "next" => ListedPeer')
<1>1. pc = "serve" /\ pc' = pc /\ env' = env /\ trusted' = trusted /\ peer' = p
  BY DEF TrustedProxy
<1>2. answer' = IF (p.ip # <<>> /\ ~p.zone) /\ IsIPTrusted(p.ip, trusted) THEN "next" ELSE "403"
  BY DEF TrustedProxy
<1>3. ListedPeer' <=> \E i \in 1..Len(env) : p.ip # <<>> /\ Lists(env[i], p.ip)
  BY <1>1 DEF ListedPeer
<1>4. p.ip # <<>> => (IsIPTrusted(p.ip, trusted) <=> ListedPeer')
  BY <1>1, <1>3, TrustedIsListed
<1>5. answer' = "next" => ListedPeer'
  BY <1>2, <1>4
<1>6. ~p.zone => (answer' = "next" <=> ListedPeer')
  BY <1>2, <1>3, <1>4
<1>7. AcceptedIffListed'
  BY <1>1, <1>6 DEF AcceptedIffListed, Accepted
<1>8. NamedEntries' = NamedEntries /\ (IsEntryList(env)' <=> IsEntryList(env))
  BY <1>1 DEF NamedEntries, IsEntryList
<1> QED
  BY <1>1, <1>5, <1>7, <1>8 DEF AdmissionInv

LEMMA NextKeepsAdmission == AdmissionInv /\ [Next]_vars => AdmissionInv'
<1> SUFFICES ASSUME AdmissionInv, [Next]_vars PROVE AdmissionInv'
  OBVIOUS
<1>1. CASE Start
  BY <1>1, LoadKeepsAdmission DEF Start
<1>2. ASSUME NEW p \in Peer, Guarded(p, Auth) \/ Guarded(p, Account)
      PROVE  AdmissionInv'
  BY <1>2, CheckKeepsAdmission DEF Guarded
<1>3. CASE UNCHANGED vars
  BY <1>3 DEF vars, AdmissionInv, AcceptedIffListed, Accepted, ListedPeer, NamedEntries, IsEntryList
<1> QED
  BY <1>1, <1>2, <1>3 DEF Next, Failed

LEMMA AdmissionHolds == Spec => []AdmissionInv
BY InitAdmission, NextKeepsAdmission, PTL DEF Spec

\* A peer without a zone is let through exactly when some entry of the list
\* names its address, whatever the lengths of addresses and list, and whichever
\* of its forms an address is written in.
THEOREM AcceptsWhomListed == Spec => []AcceptedIffListed
<1>1. AdmissionInv => AcceptedIffListed
  BY DEF AdmissionInv
<1> QED
  BY <1>1, AdmissionHolds, PTL

\* Rows are written and answers given only to listed peers.
THEOREM OnlyListedServed == Spec => OnlyListedReachHandlers
<1>1. ASSUME AdmissionInv, [Next]_vars
      PROVE  <<rows, auth, page>>' # <<rows, auth, page>> => ListedPeer'
  <2>1. ASSUME NEW p \in Peer, Guarded(p, Auth) \/ Guarded(p, Account)
        PROVE  <<rows, auth, page>>' # <<rows, auth, page>> => ListedPeer'
    <3>1. TrustedProxy(p) /\ (answer' = "next" \/ UNCHANGED <<rows, auth, page>>)
      BY <2>1 DEF Guarded
    <3> QED
      BY <1>1, <3>1, CheckKeepsAdmission
  <2>2. CASE UNCHANGED <<rows, auth, page>>
    BY <2>2
  <2> QED
    BY <1>1, <2>1, <2>2 DEF Next, Start, Failed, vars
<1>2. AdmissionInv /\ [Next]_vars
        => [<<rows, auth, page>>' # <<rows, auth, page>> => ListedPeer']_vars
  BY <1>1
<1> QED
  BY <1>2, AdmissionHolds, PTL DEF Spec, OnlyListedReachHandlers

----------------------------------------------------------------------------
(***************************************************************************)
(* Types.                                                                  *)
(***************************************************************************)

\* A claim of a token is a value or missing, decoded alone or with others.
LEMMA DecodeType ==
    ASSUME NEW token \in Tokens \cup {None}, NEW fields \in SUBSET Claims, NEW c \in fields
    PROVE  Decode(token, fields)[c] \in Values \cup {None}
<1>1. token \notin {None, Garbled} => token \in [Claims -> Values \cup {None, NotAString}]
  BY TokensAssumption
<1>2. token \notin {None, Garbled} => token[c] \in Values \cup {None, NotAString}
  BY <1>1
<1> QED
  BY <1>2 DEF Decode

LEMMA ClaimsType ==
    ASSUME NEW q \in Requests
    PROVE  /\ AuthSub(q) \in Values \cup {None}
           /\ AuthName(q) \in Values \cup {None}
           /\ ExtractSubFromRequest(q) \in Values \cup {None}
           /\ ExtractPreferredUsernameFromRequest(q) \in Values \cup {None}
<1>1. TokenOf(q) \in Tokens \cup {None}
  BY DEF Requests, TokenOf, Else
<1>2. /\ q.fwdSub \in Values \cup {None} /\ q.reqSub \in Values \cup {None}
      /\ q.fwdName \in Values \cup {None} /\ q.reqName \in Values \cup {None}
  BY DEF Requests
<1>3. /\ extractClaimsFromJWT(TokenOf(q))["sub"] \in Values \cup {None}
      /\ extractClaimsFromJWT(TokenOf(q))["preferred_username"] \in Values \cup {None}
      /\ Decode(TokenOf(q), {"sub"})["sub"] \in Values \cup {None}
      /\ Decode(TokenOf(q), {"preferred_username"})["preferred_username"] \in Values \cup {None}
  BY <1>1, DecodeType DEF extractClaimsFromJWT, Claims
<1> QED
  BY <1>2, <1>3
  DEF AuthSub, AuthName, ExtractSubFromRequest, ExtractPreferredUsernameFromRequest, Else

LEMMA InitType == Init => TypeOK
<1> SUFFICES ASSUME Init PROVE TypeOK
  OBVIOUS
<1>1. PICK c \in Cases : ProxiesInit(c.list) /\ req = c.req /\ rows = c.rows
  BY DEF Init
<1>2. IsEntryList(c.list) /\ c.req \in Requests /\ c.rows \subseteq Values
  BY CasesAssumption
<1>3. [ip |-> <<>>, zone |-> FALSE] \in Peer
  BY DEF Peer
<1>4. ProxiesTypeOK
  BY <1>1, <1>2, <1>3 DEF ProxiesInit, ProxiesTypeOK
<1> QED
  BY <1>1, <1>2, <1>4 DEF Init, TypeOK

LEMMA NextKeepsType == TypeOK /\ AdmissionInv' /\ [Next]_vars => TypeOK'
<1> SUFFICES ASSUME TypeOK, AdmissionInv', [Next]_vars PROVE TypeOK'
  OBVIOUS
<1>1. CASE Start
  <2>1. /\ UNCHANGED <<env, peer, answer, req, rows, auth, embyName, page>>
        /\ pc' \in {"failed", "serve"}
        /\ \/ trusted' = trusted
           \/ trusted' = {ParseEntry(e) : e \in NamedEntries} /\ BadEntry \notin NamedEntries
    BY <1>1 DEF Start, Load, NamedEntries
  <2>2. NamedEntries \subseteq Entry \ {NoEntry}
    BY DEF TypeOK, ProxiesTypeOK, IsEntryList, NamedEntries
  <2>3. trusted' \subseteq Network
    BY <2>1, <2>2, ParsedIsNetwork DEF TypeOK, ProxiesTypeOK
  <2>4. IsEntryList(env)'
    BY DEF AdmissionInv
  <2> QED
    BY <2>1, <2>3, <2>4 DEF TypeOK, ProxiesTypeOK
<1>2. ASSUME NEW p \in Peer, Guarded(p, Auth) \/ Guarded(p, Account)
      PROVE  TypeOK'
  <2>1. TrustedProxy(p) /\ req' = req
    BY <1>2 DEF Guarded
  <2>2. ProxiesTypeOK'
    BY <2>1 DEF TrustedProxy, TypeOK, ProxiesTypeOK, AdmissionInv
  <2>3. /\ rows' \subseteq Values /\ embyName' \in Values \cup {None}
        /\ auth' \in Answer \cup {None} /\ page' \in Answer \cup {None}
    <3>1. CASE Auth
      BY <3>1, ClaimsType DEF Auth, SignIn, SignInFails, TypeOK, Answer
    <3>2. CASE Account
      BY <3>2, ClaimsType DEF Account, TypeOK, Answer
    <3>3. CASE UNCHANGED <<rows, auth, embyName, page>>
      BY <3>3 DEF TypeOK
    <3> QED
      BY <1>2, <3>1, <3>2, <3>3 DEF Guarded
  <2> QED
    BY <2>1, <2>2, <2>3 DEF TypeOK
<1>3. CASE UNCHANGED vars
  BY <1>3 DEF vars, TypeOK, ProxiesTypeOK, IsEntryList
<1> QED
  BY <1>1, <1>2, <1>3 DEF Next, Failed

\* Every list parsed is one of networks, and every answer one of a known form:
\* nobody is signed in without a subject and a name.
THEOREM TypeCorrect == Spec => []TypeOK
BY InitType, NextKeepsType, AdmissionHolds, PTL DEF Spec
====
