--------------------------- MODULE CertStoreProofs --------------------------
(***************************************************************************)
(* Proofs about CertStore for every set of names, of certificates made     *)
(* elsewhere and of servers, and for any number of rows and of handlers in *)
(* flight.                                                                 *)
(***************************************************************************)
EXTENDS CertStore, WellFoundedInduction, TLAPS

-----------------------------------------------------------------------------
(* Induction over the numbers, for sets: the installed provers cannot      *)
(* instantiate theorems about predicates.                                  *)

LEMMA LeastNumber ==
  ASSUME NEW T, T \subseteq Nat, T # {}
  PROVE  \E n \in T : \A m \in T : n <= m
<1>1. IsWellFoundedOn(OpToRel(<, Nat), Nat)
  BY NatLessThanWellFounded
<1>2. PICK n \in T : \A m \in T : ~(<<m, n>> \in OpToRel(<, Nat))
  BY <1>1, WFMin
<1>3. \A m \in T : ~(m < n)
  BY <1>2 DEF OpToRel
<1> QED
  BY <1>3

LEMMA Induction ==
  ASSUME NEW S, \A n \in Nat : (\A m \in 0 .. n - 1 : m \in S) => n \in S
  PROVE  \A n \in Nat : n \in S
<1> DEFINE T == Nat \ S
<1>1. SUFFICES ASSUME T # {} PROVE FALSE
  OBVIOUS
<1>2. PICK n \in T : \A m \in T : n <= m
  BY <1>1, LeastNumber
<1>3. \A m \in 0 .. n - 1 : m \in S
  BY <1>2
<1> QED
  BY <1>2, <1>3

-----------------------------------------------------------------------------
(* Types.                                                                  *)

Inserting == [op : {"insert"}, isCA : BOOLEAN, usage : SUBSET {"server", "client"}, subject : STRING,
              parent : Ids, signer : Int, issuer : STRING]
Importing == [op : {"import"}, cert : Certificate(ForeignKeys), parent : Ids]
Saving == [op : {"save"}, server : Servers, ca : Ids \cup {0}, cert : Ids \cup {0}]
Checking == [op : {"check"}, ids : Seq(Ids) \ {<<>>}, id : Ids]
Deleting == [op : {"delete"}, ids : Seq(Ids) \ {<<>>}]

\* Rows, references and what handlers hold; an id in use has been given.
Typed ==
  /\ certs \in [Ids -> Row \cup {NoCert}]
  /\ servers \in [Servers -> [ca : Ids \cup {0}, cert : Ids \cup {0}]]
  /\ request \in [Requests -> {NoRequest} \cup Inserting \cup Importing \cup Saving \cup Checking \cup Deleting]
  /\ \A r \in Writers : request[r] \in {NoRequest} \cup Inserting \cup Importing \cup Saving
  /\ \A r \in Deleters : request[r] \in {NoRequest} \cup Checking \cup Deleting
  /\ \A r \in Writers :
        /\ request[r].op \in {"insert", "import"} => request[r].parent < next
        /\ request[r].op = "save" => request[r].ca < next /\ request[r].cert < next
  /\ TypeOK

\* A row is not the value that stands for no row.
LEMMA RowIsCert == \A row \in Row : row # NoCert
  BY DEF Row, NoCert

LEMMA InitTyped == Init => Typed
<1> SUFFICES ASSUME Init PROVE Typed
  OBVIOUS
<1> USE CertStoreAssumption
<1>1. next = 1 /\ next \in 1 .. MaxId + 1
  BY DEF Init
<1>2. servers \in [Servers -> [ca : 0 .. next - 1, cert : 0 .. next - 1]]
  BY <1>1 DEF Init
<1>3. TypeOK
  BY <1>1, <1>2 DEF Init, TypeOK
<1> QED
  BY <1>3 DEF Init, Typed, Requests, NoRequest

-----------------------------------------------------------------------------
(* The rows a deletion collects.  The recursion ends because the rows below*)
(* a row were inserted after it; and every row comes after its children.   *)

Pairs == Ids \X (0 .. MaxId)

\* One step of the recursion of Subtree, and the function it defines.
Collect(f, x) ==
  LET before == f[<<x[1], x[2] - 1>>]
  IN  IF x[2] = 0 THEN <<>>
      ELSE IF x[2] \notin ListChildCertificate(x[1]) THEN before
      ELSE before \o f[<<x[2], MaxId>>] \o <<x[2]>>

Collects(f) == f = [x \in Pairs |-> Collect(f, x)]

\* How deep the recursion is at most.
Depth(x) == (MaxId - x[1]) * (MaxId + 1) + x[2]

LEMMA DepthShrinks ==
  ASSUME TypeOK, NEW x \in Pairs
  PROVE  /\ Depth(x) \in Nat
         /\ x[2] # 0 => <<x[1], x[2] - 1>> \in Pairs /\ Depth(<<x[1], x[2] - 1>>) < Depth(x)
         /\ x[2] \in ListChildCertificate(x[1]) =>
               <<x[2], MaxId>> \in Pairs /\ Depth(<<x[2], MaxId>>) < Depth(x)
<1>1. PICK i \in Ids, n \in 0 .. MaxId : x = <<i, n>>
  BY DEF Pairs
<1>2. MaxId \in Nat /\ i \in 1 .. MaxId
  BY CertStoreAssumption DEF Ids
<1>3. \A a, b \in Nat : a * b \in Nat
  OBVIOUS
<1>4. MaxId - i \in Nat /\ (MaxId - i) * (MaxId + 1) \in Nat
  BY <1>2, <1>3
<1>5. Depth(x) = (MaxId - i) * (MaxId + 1) + n
  BY <1>1 DEF Depth
<1>6. ASSUME n # 0
      PROVE  <<i, n - 1>> \in Pairs /\ Depth(<<i, n - 1>>) < Depth(x)
  <2>1. Depth(<<i, n - 1>>) = (MaxId - i) * (MaxId + 1) + (n - 1)
    BY DEF Depth
  <2> QED
    BY <1>2, <1>4, <1>5, <1>6, <2>1 DEF Pairs
<1>7. ASSUME n \in ListChildCertificate(i)
      PROVE  <<n, MaxId>> \in Pairs /\ Depth(<<n, MaxId>>) < Depth(x)
  <2>1. n \in Ids /\ i < n
    BY <1>7 DEF ListChildCertificate, Present, TypeOK
  <2>2. Depth(<<n, MaxId>>) = (MaxId - n) * (MaxId + 1) + MaxId
    BY DEF Depth
  <2> DEFINE a == MaxId - n
             d == MaxId - i
  <2>3. a \in Nat /\ d \in Nat /\ a + 1 <= d
    BY <1>2, <2>1 DEF Ids
  <2>4. (a + 1) * (MaxId + 1) <= d * (MaxId + 1)
    <3> HIDE DEF a, d
    <3> QED
      BY <1>2, <2>3
  <2>5. (a + 1) * (MaxId + 1) = a * (MaxId + 1) + MaxId + 1
    <3> HIDE DEF a, d
    <3> QED
      BY <1>2, <2>3
  <2>6. a * (MaxId + 1) \in Nat /\ d * (MaxId + 1) \in Nat
    BY <1>2, <1>3, <2>3
  <2>7. Depth(<<n, MaxId>>) = a * (MaxId + 1) + MaxId /\ Depth(x) = d * (MaxId + 1) + n
    BY <1>5, <2>2
  <2> HIDE DEF a, d
  <2> QED
    BY <1>2, <2>1, <2>4, <2>5, <2>6, <2>7 DEF Pairs
<1> QED
  BY <1>1, <1>4, <1>5, <1>6, <1>7

LEMMA DepthNat == ASSUME TypeOK PROVE \A x \in Pairs : Depth(x) \in Nat
<1> SUFFICES ASSUME NEW x \in Pairs PROVE Depth(x) \in Nat
  OBVIOUS
<1> QED
  BY DepthShrinks

\* A function that follows the recursion as far as a depth.
CollectsTo(f, k) == \A x \in Pairs : Depth(x) < k => f[x] = Collect(f, x)

LEMMA CollectsDeeper ==
  ASSUME TypeOK, NEW k \in Nat, NEW f, CollectsTo(f, k)
  PROVE  \E g : CollectsTo(g, k + 1) /\ g = [x \in Pairs |-> Collect(f, x)]
<1> DEFINE g == [x \in Pairs |-> Collect(f, x)]
<1>1. ASSUME NEW x \in Pairs, Depth(x) < k + 1 PROVE g[x] = Collect(g, x)
  <2>1. \A y \in Pairs : Depth(y) < Depth(x) => g[y] = f[y]
    <3> SUFFICES ASSUME NEW y \in Pairs, Depth(y) < Depth(x) PROVE f[y] = Collect(f, y)
      OBVIOUS
    <3>1. Depth(y) \in Nat /\ Depth(x) \in Nat
      BY DepthNat
    <3>2. Depth(y) < k
      BY <1>1, <3>1
    <3> QED
      BY <3>2 DEF CollectsTo
  <2>2. g[x] = Collect(f, x)
    OBVIOUS
  <2>3. x[2] # 0 => g[<<x[1], x[2] - 1>>] = f[<<x[1], x[2] - 1>>]
    BY <2>1, DepthShrinks
  <2>4. x[2] \in ListChildCertificate(x[1]) => g[<<x[2], MaxId>>] = f[<<x[2], MaxId>>]
    BY <2>1, DepthShrinks
  <2> HIDE DEF g
  <2> QED
    BY <2>2, <2>3, <2>4 DEF Collect
<1> QED
  BY <1>1 DEF CollectsTo

LEMMA CollectsExists == ASSUME TypeOK PROVE \E f : Collects(f)
<1> DEFINE S == {k \in Nat : \E f : CollectsTo(f, k)}
<1>1. \A k \in Nat : k \in S
  <2>1. ASSUME NEW k \in Nat, \A m \in 0 .. k - 1 : m \in S PROVE k \in S
    <3>1. CASE k = 0
      <4>1. CollectsTo(<<>>, 0)
        BY DepthNat DEF CollectsTo
      <4> QED
        BY <3>1, <4>1
    <3>2. CASE k # 0
      <4>1. k - 1 \in S /\ k - 1 \in Nat
        BY <2>1, <3>2
      <4>2. PICK f : CollectsTo(f, k - 1)
        BY <4>1
      <4>3. \E g : CollectsTo(g, (k - 1) + 1)
        BY <4>1, <4>2, CollectsDeeper
      <4> QED
        BY <4>3
    <3> QED
      BY <3>1, <3>2
  <2> HIDE DEF S
  <2> QED
    BY <2>1, Induction
<1> DEFINE K == MaxId * (MaxId + 1) + MaxId + 1
<1>2. K \in Nat /\ \A x \in Pairs : Depth(x) < K
  <2>1. MaxId \in Nat /\ \A a, b \in Nat : a * b \in Nat
    BY CertStoreAssumption
  <2>2. ASSUME NEW i \in Ids, NEW n \in 0 .. MaxId PROVE Depth(<<i, n>>) < K
    <3> DEFINE a == MaxId - i
    <3>1. a \in Nat /\ i \in Nat
      BY <2>1 DEF Ids
    <3>2. (a + i) * (MaxId + 1) = a * (MaxId + 1) + i * (MaxId + 1)
      <4> HIDE DEF a
      <4> QED
        BY <2>1, <3>1
    <3>3. a * (MaxId + 1) \in Nat /\ i * (MaxId + 1) \in Nat /\ a + i = MaxId
      BY <2>1, <3>1
    <3>4. Depth(<<i, n>>) = a * (MaxId + 1) + n
      BY DEF Depth
    <3> HIDE DEF a
    <3> QED
      BY <2>1, <3>2, <3>3, <3>4
  <2> QED
    BY <2>1, <2>2 DEF Pairs
<1>3. PICK f : CollectsTo(f, K)
  BY <1>1, <1>2
<1>4. PICK g : CollectsTo(g, K + 1) /\ g = [x \in Pairs |-> Collect(f, x)]
  BY <1>2, <1>3, CollectsDeeper
<1>5. g = [x \in Pairs |-> g[x]]
  BY <1>4
<1>6. \A x \in Pairs : g[x] = Collect(g, x)
  <2>1. \A x \in Pairs : Depth(x) < K + 1
    <3> HIDE DEF K
    <3> QED
      BY <1>2, DepthNat
  <2> QED
    BY <1>4, <2>1 DEF CollectsTo
<1>7. Collects(g)
  BY <1>5, <1>6 DEF Collects
<1> QED
  BY <1>7

LEMMA SubtreeCollects ==
  ASSUME TypeOK, NEW id
  PROVE  \E f : Collects(f) /\ Subtree(id) = f[<<id, MaxId>>] \o <<id>>
<1> DEFINE f == CHOOSE g : Collects(g)
<1>1. Collects(f)
  BY CollectsExists
<1>2. Subtree(id) = f[<<id, MaxId>>] \o <<id>>
  BY DEF Subtree, Collects, Collect, Pairs
<1> QED
  BY <1>1, <1>2

\* Every row of a list comes after its children.
ChildrenFirst(list) ==
  \A k \in 1 .. Len(list) : \A c \in ListChildCertificate(list[k]) : \E j \in 1 .. k - 1 : list[j] = c

Listed(list) == {list[k] : k \in 1 .. Len(list)}

LEMMA ChildrenListed ==
  ASSUME NEW list \in Seq(Ids), ChildrenFirst(list), NEW i \in Listed(list)
  PROVE  ListChildCertificate(i) \subseteq Listed(list)
<1>1. PICK k \in 1 .. Len(list) : list[k] = i
  BY DEF Listed
<1>2. ASSUME NEW c \in ListChildCertificate(i) PROVE c \in Listed(list)
  <2>1. PICK j \in 1 .. k - 1 : list[j] = c
    BY <1>1, <1>2 DEF ChildrenFirst
  <2>2. j \in 1 .. Len(list)
    BY <1>1, <2>1
  <2> QED
    BY <2>1, <2>2 DEF Listed
<1> QED
  BY <1>2

LEMMA JoinedFirst ==
  ASSUME NEW a \in Seq(Ids), NEW b \in Seq(Ids), ChildrenFirst(a), ChildrenFirst(b)
  PROVE  /\ a \o b \in Seq(Ids) /\ ChildrenFirst(a \o b)
         /\ Listed(a \o b) = Listed(a) \cup Listed(b)
<1> DEFINE ab == a \o b
<1>1. /\ ab \in Seq(Ids) /\ Len(ab) = Len(a) + Len(b) /\ Len(a) \in Nat /\ Len(b) \in Nat
      /\ \A k \in 1 .. Len(a) : ab[k] = a[k]
      /\ \A k \in 1 .. Len(b) : ab[Len(a) + k] = b[k]
  <2>1. ab \in Seq(Ids) /\ Len(ab) = Len(a) + Len(b) /\ Len(a) \in Nat /\ Len(b) \in Nat
    OBVIOUS
  <2>2. \A k \in 1 .. Len(a) : ab[k] = a[k]
    OBVIOUS
  <2>3. \A k \in 1 .. Len(b) : ab[Len(a) + k] = b[k]
    OBVIOUS
  <2> QED
    BY <2>1, <2>2, <2>3
<1> HIDE DEF ab
<1>2. ASSUME NEW k \in 1 .. Len(ab), NEW c \in ListChildCertificate(ab[k])
      PROVE  \E j \in 1 .. k - 1 : ab[j] = c
  <2>1. CASE k \in 1 .. Len(a)
    <3>1. PICK j \in 1 .. k - 1 : a[j] = c
      BY <1>1, <1>2, <2>1 DEF ChildrenFirst
    <3>2. j \in 1 .. Len(a)
      BY <1>1, <2>1, <3>1
    <3> QED
      BY <1>1, <3>1, <3>2
  <2>2. CASE k \notin 1 .. Len(a)
    <3> DEFINE m == k - Len(a)
    <3>1. m \in 1 .. Len(b) /\ k = Len(a) + m
      BY <1>1, <2>2
    <3>2. ab[k] = b[m]
      BY <1>1, <3>1
    <3>3. PICK j \in 1 .. m - 1 : b[j] = c
      BY <1>2, <3>1, <3>2 DEF ChildrenFirst
    <3>4. ab[Len(a) + j] = c /\ Len(a) + j \in 1 .. k - 1
      BY <1>1, <3>1, <3>3
    <3> QED
      BY <3>4
  <2> QED
    BY <2>1, <2>2
<1>3. \A k \in 1 .. Len(ab) : ab[k] \in Listed(a) \cup Listed(b)
  <2> SUFFICES ASSUME NEW k \in 1 .. Len(ab), k \notin 1 .. Len(a) PROVE ab[k] \in Listed(b)
    BY <1>1 DEF Listed
  <2>1. k - Len(a) \in 1 .. Len(b) /\ k = Len(a) + (k - Len(a))
    BY <1>1
  <2> QED
    BY <1>1, <2>1 DEF Listed
<1>4. Listed(a) \cup Listed(b) \subseteq Listed(ab)
  <2>1. \A k \in 1 .. Len(a) : a[k] \in Listed(ab)
    BY <1>1 DEF Listed
  <2>2. \A k \in 1 .. Len(b) : b[k] \in Listed(ab)
    <3> SUFFICES ASSUME NEW k \in 1 .. Len(b) PROVE ab[Len(a) + k] \in Listed(ab)
      BY <1>1
    <3>1. Len(a) + k \in 1 .. Len(ab)
      BY <1>1
    <3> QED
      BY <3>1 DEF Listed
  <2> QED
    BY <2>1, <2>2 DEF Listed
<1>5. Listed(ab) \subseteq Listed(a) \cup Listed(b)
  BY <1>3 DEF Listed
<1> QED
  BY <1>1, <1>2, <1>4, <1>5 DEF ChildrenFirst, ab

\* A row may follow a list that has its children.
LEMMA RowFollows ==
  ASSUME NEW list \in Seq(Ids), ChildrenFirst(list), NEW i \in Ids, ListChildCertificate(i) \subseteq Listed(list)
  PROVE  /\ list \o <<i>> \in Seq(Ids) /\ ChildrenFirst(list \o <<i>>)
         /\ Listed(list \o <<i>>) = Listed(list) \cup {i}
<1> DEFINE longer == list \o <<i>>
           n == Len(list)
<1>1. /\ longer \in Seq(Ids) /\ Len(longer) = n + 1 /\ n \in Nat /\ longer[n + 1] = i
      /\ \A k \in 1 .. n : longer[k] = list[k]
  OBVIOUS
<1> HIDE DEF longer, n
<1>2. ASSUME NEW k \in 1 .. n + 1, NEW c \in ListChildCertificate(longer[k])
      PROVE  \E j \in 1 .. k - 1 : longer[j] = c
  <2>1. CASE k \in 1 .. n
    <3>1. PICK j \in 1 .. k - 1 : list[j] = c
      BY <1>1, <1>2, <2>1 DEF ChildrenFirst, n
    <3> QED
      BY <1>1, <2>1, <3>1
  <2>2. CASE k = n + 1
    <3>1. PICK j \in 1 .. n : list[j] = c
      BY <1>1, <1>2, <2>2 DEF Listed, n
    <3> QED
      BY <1>1, <2>2, <3>1
  <2> QED
    BY <1>1, <2>1, <2>2
<1>3. Listed(longer) = Listed(list) \cup {i}
  <2>1. \A k \in 1 .. n + 1 : longer[k] \in Listed(list) \cup {i}
    BY <1>1 DEF Listed, n
  <2>2. \A k \in 1 .. n : list[k] \in Listed(longer)
    <3> SUFFICES ASSUME NEW k \in 1 .. n PROVE longer[k] \in Listed(longer)
      BY <1>1
    <3> QED
      BY <1>1 DEF Listed
  <2>3. i \in Listed(longer)
    BY <1>1 DEF Listed
  <2> QED
    BY <1>1, <2>1, <2>2, <2>3 DEF Listed, n
<1> QED
  BY <1>1, <1>2, <1>3 DEF ChildrenFirst, longer

\* What the recursion gives for a row up to one of its children.
Collected(f, x) ==
  /\ f[x] \in Seq(Ids)
  /\ ChildrenFirst(f[x])
  /\ \A c \in ListChildCertificate(x[1]) : c <= x[2] => c \in Listed(f[x])

LEMMA StepCollected ==
  ASSUME TypeOK, NEW f, Collects(f), NEW x \in Pairs,
         \A y \in Pairs : Depth(y) < Depth(x) => Collected(f, y)
  PROVE  Collected(f, x)
<1>1. PICK i \in Ids, n \in 0 .. MaxId : x = <<i, n>> /\ x[1] = i /\ x[2] = n
  BY DEF Pairs
<1>2. f[x] = Collect(f, x)
  BY DEF Collects
<1>3. \A c \in ListChildCertificate(i) : c \in Ids /\ c \in Nat /\ c > 0
  BY DEF ListChildCertificate, Present, Ids
<1>4. n \in Nat
  BY CertStoreAssumption
<1>5. CASE n = 0
  <2>1. f[x] = <<>>
    BY <1>1, <1>2, <1>5 DEF Collect
  <2>2. f[x] \in Seq(Ids) /\ Len(f[x]) = 0
    BY <2>1
  <2> QED
    BY <1>1, <1>3, <1>5, <2>2 DEF Collected, ChildrenFirst
<1>6. CASE n # 0
  <2> DEFINE a == f[<<i, n - 1>>]
  <2>1. Collected(f, <<i, n - 1>>)
    BY <1>1, <1>6, DepthShrinks
  <2>2. /\ a \in Seq(Ids) /\ ChildrenFirst(a)
        /\ \A c \in ListChildCertificate(i) : c <= n - 1 => c \in Listed(a)
    BY <2>1 DEF Collected
  <2>3. CASE n \notin ListChildCertificate(i)
    <3>1. f[x] = a
      BY <1>1, <1>2, <1>6, <2>3 DEF Collect
    <3>2. \A c \in ListChildCertificate(i) : c <= n => c <= n - 1
      BY <1>3, <1>4, <2>3
    <3> QED
      BY <1>1, <2>2, <3>1, <3>2 DEF Collected
  <2>4. CASE n \in ListChildCertificate(i)
    <3> DEFINE b == f[<<n, MaxId>>]
    <3>1. Collected(f, <<n, MaxId>>) /\ n \in Ids
      BY <1>1, <1>3, <2>4, DepthShrinks
    <3>2. /\ b \in Seq(Ids) /\ ChildrenFirst(b)
          /\ \A c \in ListChildCertificate(n) : c <= MaxId => c \in Listed(b)
      BY <3>1 DEF Collected
    <3>3. ListChildCertificate(n) \subseteq Listed(b)
      <4>1. \A c \in ListChildCertificate(n) : c <= MaxId
        BY CertStoreAssumption DEF ListChildCertificate, Present, Ids
      <4> QED
        BY <3>2, <4>1
    <3>4. f[x] = a \o b \o <<n>>
      BY <1>1, <1>2, <1>6, <2>4 DEF Collect
    <3> HIDE DEF a, b
    <3>5. /\ a \o b \in Seq(Ids) /\ ChildrenFirst(a \o b)
          /\ Listed(a \o b) = Listed(a) \cup Listed(b)
      BY <2>2, <3>2, JoinedFirst
    <3>6. /\ f[x] \in Seq(Ids) /\ ChildrenFirst(f[x])
          /\ Listed(f[x]) = Listed(a) \cup Listed(b) \cup {n}
      <4> DEFINE ab == a \o b
      <4>1. ab \in Seq(Ids) /\ ChildrenFirst(ab) /\ ListChildCertificate(n) \subseteq Listed(ab)
        BY <3>3, <3>5
      <4>2. f[x] = ab \o <<n>>
        BY <3>4
      <4> HIDE DEF ab
      <4>3. /\ f[x] \in Seq(Ids) /\ ChildrenFirst(f[x])
            /\ Listed(f[x]) = Listed(ab) \cup {n}
        BY <3>1, <4>1, <4>2, RowFollows
      <4> QED
        BY <3>5, <4>3 DEF ab
    <3>7. \A c \in ListChildCertificate(i) : c <= n => c \in Listed(f[x])
      <4>1. \A c \in ListChildCertificate(i) : c <= n => c <= n - 1 \/ c = n
        BY <1>3, <1>4
      <4> QED
        BY <2>2, <3>6, <4>1
    <3> QED
      BY <1>1, <3>6, <3>7 DEF Collected
  <2> QED
    BY <2>3, <2>4
<1> QED
  BY <1>5, <1>6

\* A deletion takes every child of a row it takes, and before that row.
LEMMA SubtreeOrder ==
  ASSUME TypeOK, NEW id \in Ids
  PROVE  Subtree(id) \in Seq(Ids) \ {<<>>} /\ ChildrenFirst(Subtree(id)) /\ id \in Listed(Subtree(id))
<1>1. PICK f : Collects(f) /\ Subtree(id) = f[<<id, MaxId>>] \o <<id>>
  BY SubtreeCollects
<1> DEFINE S == {d \in Nat : \A x \in Pairs : Depth(x) = d => Collected(f, x)}
<1>2. \A d \in Nat : d \in S
  <2>1. ASSUME NEW d \in Nat, \A m \in 0 .. d - 1 : m \in S PROVE d \in S
    <3> SUFFICES ASSUME NEW x \in Pairs, Depth(x) = d PROVE Collected(f, x)
      OBVIOUS
    <3>1. ASSUME NEW y \in Pairs, Depth(y) < d PROVE Collected(f, y)
      <4>1. Depth(y) \in 0 .. d - 1
        BY <3>1, DepthNat
      <4> QED
        BY <2>1, <4>1
    <3> QED
      BY <1>1, <3>1, StepCollected
  <2> HIDE DEF S
  <2> QED
    BY <2>1, Induction
<1>3. <<id, MaxId>> \in Pairs
  BY CertStoreAssumption DEF Pairs
<1>4. Collected(f, <<id, MaxId>>)
  BY <1>2, <1>3, DepthNat
<1> DEFINE below == f[<<id, MaxId>>]
<1>5. below \in Seq(Ids) /\ ChildrenFirst(below)
  BY <1>4 DEF Collected
<1>6. ListChildCertificate(id) \subseteq Listed(below)
  <2>1. \A c \in ListChildCertificate(id) : c <= MaxId
    BY CertStoreAssumption DEF ListChildCertificate, Present, Ids
  <2>2. \A c \in ListChildCertificate(id) : c <= MaxId => c \in Listed(below)
    BY <1>4 DEF Collected
  <2> QED
    BY <2>1, <2>2
<1> HIDE DEF below
<1>7. /\ below \o <<id>> \in Seq(Ids) /\ ChildrenFirst(below \o <<id>>)
      /\ Listed(below \o <<id>>) = Listed(below) \cup {id}
  BY <1>5, <1>6, RowFollows
<1>8. Subtree(id) = below \o <<id>> /\ Subtree(id) # <<>>
  <2>1. Subtree(id) = below \o <<id>>
    BY <1>1 DEF below
  <2>2. Len(below \o <<id>>) = Len(below) + 1 /\ Len(below) \in Nat
    BY <1>5
  <2> QED
    BY <2>1, <2>2
<1> QED
  BY <1>7, <1>8

-----------------------------------------------------------------------------
(* Steps keep the types.                                                   *)

Held == {NoRequest} \cup Inserting \cup Importing \cup Saving \cup Checking \cup Deleting

\* A handler of a writer takes up or ends a request.
LEMMA WriterTyped ==
  ASSUME Typed, NEW r \in Writers, NEW q \in {NoRequest} \cup Inserting \cup Importing \cup Saving,
         request' = [request EXCEPT ![r] = q], next' \in Int, next <= next',
         q.op \in {"insert", "import"} => q.parent < next,
         q.op = "save" => q.ca < next /\ q.cert < next
  PROVE  /\ request' \in [Requests -> Held]
         /\ \A w \in Writers : request'[w] \in {NoRequest} \cup Inserting \cup Importing \cup Saving
         /\ \A d \in Deleters : request'[d] \in {NoRequest} \cup Checking \cup Deleting
         /\ \A w \in Writers :
               /\ request'[w].op \in {"insert", "import"} => request'[w].parent < next'
               /\ request'[w].op = "save" => request'[w].ca < next' /\ request'[w].cert < next'
<1>1. r \in Requests /\ \A w \in Requests : request'[w] = IF w = r THEN q ELSE request[w]
  BY DEF Typed, Requests
<1>2. request' \in [Requests -> Held]
  BY <1>1 DEF Typed, Held
<1>3. \A d \in Deleters : d \in Requests /\ d # r
  BY CertStoreAssumption DEF Requests
<1>4. \A w \in Writers : w \in Requests
  BY DEF Requests
<1>5. ASSUME NEW w \in Writers
      PROVE  /\ request[w].op \in {"insert", "import"} => request[w].parent \in Int /\ request[w].parent < next
             /\ request[w].op = "save" => /\ request[w].ca \in Int /\ request[w].cert \in Int
                                          /\ request[w].ca < next /\ request[w].cert < next
  <2> DEFINE h == request[w]
  <2>1. h \in {NoRequest} \cup Inserting \cup Importing \cup Saving
    BY DEF Typed
  <2>2. /\ h.op \in {"insert", "import"} => h.parent < next
        /\ h.op = "save" => h.ca < next /\ h.cert < next
    BY DEF Typed
  <2> HIDE DEF h
  <2>3. /\ h.op \in {"insert", "import"} => h.parent \in Int
        /\ h.op = "save" => h.ca \in Int /\ h.cert \in Int
    BY <2>1 DEF Inserting, Importing, Saving, NoRequest, Ids
  <2> QED
    BY <2>2, <2>3 DEF h
<1>6. /\ q.op \in {"insert", "import"} => q.parent \in Int
      /\ q.op = "save" => q.ca \in Int /\ q.cert \in Int
  BY DEF Inserting, Importing, Saving, NoRequest, Ids
<1>7. next \in Int
  BY DEF Typed, TypeOK
<1>8. ASSUME NEW w \in Writers
      PROVE  /\ request'[w].op \in {"insert", "import"} => request'[w].parent < next'
             /\ request'[w].op = "save" => request'[w].ca < next' /\ request'[w].cert < next'
  <2>1. CASE w = r
    BY <1>1, <1>6, <1>7, <2>1
  <2>2. CASE w # r
    BY <1>1, <1>4, <1>5, <1>7, <2>2
  <2> QED
    BY <2>1, <2>2
<1>9. \A w \in Writers : request'[w] \in {NoRequest} \cup Inserting \cup Importing \cup Saving
  BY <1>1, <1>4 DEF Typed
<1>10. \A d \in Deleters : request'[d] \in {NoRequest} \cup Checking \cup Deleting
  BY <1>1, <1>3 DEF Typed
<1> QED
  BY <1>2, <1>8, <1>9, <1>10

LEMMA DeleterTyped ==
  ASSUME Typed, NEW r \in Deleters, NEW q \in {NoRequest} \cup Checking \cup Deleting,
         request' = [request EXCEPT ![r] = q], next' = next
  PROVE  /\ request' \in [Requests -> Held]
         /\ \A w \in Writers : request'[w] \in {NoRequest} \cup Inserting \cup Importing \cup Saving
         /\ \A d \in Deleters : request'[d] \in {NoRequest} \cup Checking \cup Deleting
         /\ \A w \in Writers :
               /\ request'[w].op \in {"insert", "import"} => request'[w].parent < next'
               /\ request'[w].op = "save" => request'[w].ca < next' /\ request'[w].cert < next'
<1>1. r \in Requests /\ \A w \in Requests : request'[w] = IF w = r THEN q ELSE request[w]
  BY DEF Typed, Requests
<1>2. request' \in [Requests -> Held]
  BY <1>1 DEF Typed, Held
<1>3. \A w \in Writers : w \in Requests /\ w # r
  BY CertStoreAssumption DEF Requests
<1>4. \A d \in Deleters : d \in Requests
  BY DEF Requests
<1>5. \A w \in Writers : request'[w] = request[w]
  BY <1>1, <1>3
<1>6. \A d \in Deleters : request'[d] \in {NoRequest} \cup Checking \cup Deleting
  BY <1>1, <1>4 DEF Typed
<1> QED
  BY <1>2, <1>5, <1>6 DEF Typed

\* A row is inserted with the next id.
LEMMA CreateTyped ==
  ASSUME Typed, NEW row \in Row, row.parent < next, CreateCertificate(row), servers' = servers
  PROVE  /\ next' \in Int /\ next <= next'
         /\ certs' \in [Ids -> Row \cup {NoCert}]
         /\ servers' \in [Servers -> [ca : Ids \cup {0}, cert : Ids \cup {0}]]
         /\ TypeOK'
<1>1. next \in Ids /\ next \in 1 .. MaxId + 1 /\ MaxId \in Nat
  BY CertStoreAssumption DEF CreateCertificate, Typed, TypeOK
<1>2. next' = next + 1 /\ next' \in 1 .. MaxId + 1 /\ next <= next'
  BY <1>1 DEF CreateCertificate, Ids
<1>3. certs' = [certs EXCEPT ![next] = row] /\ certs' \in [Ids -> Row \cup {NoCert}]
  BY <1>1 DEF CreateCertificate, Typed
<1>4. ASSUME NEW i \in Ids, certs'[i] # NoCert
      PROVE  i < next' /\ certs'[i] \in Row /\ certs'[i].parent < i
  <2>1. CASE i = next
    BY <1>1, <1>2, <1>3, <2>1 DEF Typed
  <2>2. CASE i # next
    <3>1. certs'[i] = certs[i]
      BY <1>1, <1>3, <2>2 DEF Typed
    <3>2. i < next /\ certs[i] \in Row /\ certs[i].parent < i
      BY <1>4, <3>1 DEF Typed, TypeOK
    <3> QED
      BY <1>1, <1>2, <3>1, <3>2 DEF Ids
  <2> QED
    BY <2>1, <2>2
<1>5. servers' \in [Servers -> [ca : 0 .. next' - 1, cert : 0 .. next' - 1]]
  <2>1. 0 .. next - 1 \subseteq 0 .. next' - 1
    BY <1>1, <1>2
  <2>2. servers \in [Servers -> [ca : 0 .. next - 1, cert : 0 .. next - 1]]
    BY DEF Typed, TypeOK
  <2> QED
    BY <2>1, <2>2
<1>6. raced' \subseteq 1 .. next' - 1
  <2>1. raced \subseteq 1 .. next - 1 /\ row.parent \in 0 .. MaxId
    BY DEF Typed, TypeOK, Row
  <2>2. raced' \subseteq raced \cup ({row.parent} \ {0})
    BY DEF CreateCertificate
  <2> QED
    BY <1>1, <1>2, <2>1, <2>2
<1> QED
  BY <1>2, <1>3, <1>4, <1>5, <1>6 DEF Typed, TypeOK

\* What the panel makes of a subject is a row.
LEMMA GeneratedRow ==
  ASSUME NEW id \in Ids, NEW subject \in STRING, NEW isCA \in BOOLEAN,
         NEW usage \in SUBSET {"server", "client"}, NEW parent \in 0 .. MaxId, NEW signer \in Int,
         NEW issuer \in STRING
  PROVE  /\ GenerateCertificate(id, subject, isCA, usage, parent, signer, issuer) \in Row
         /\ GenerateCertificate(id, subject, isCA, usage, parent, signer, issuer).parent = parent
<1>1. id \in Int
  BY DEF Ids
<1> QED
  BY <1>1 DEF GenerateCertificate, Row, Certificate

LEMMA ForeignCert ==
  ASSUME NEW X \in Certificate(ForeignKeys)
  PROVE  X \in Certificate(Int) /\ X.key < 0
  BY DEF Certificate, ForeignKeys

\* What a handler inserts is a row, with a parent that was there before.
LEMMA InsertedRow ==
  ASSUME Typed, NEW r \in Writers, InsertGenerated(r) \/ InsertImported(r)
  PROVE  \E row \in Row : CreateCertificate(row) /\ row.parent < next
<1> DEFINE q == request[r]
<1>0. q \in {NoRequest} \cup Inserting \cup Importing \cup Saving
  BY DEF Typed
<1>1. CASE InsertGenerated(r)
  <2>1. q \in Inserting /\ q.parent < next
    BY <1>0, <1>1 DEF InsertGenerated, NoRequest, Inserting, Importing, Saving, Typed
  <2> DEFINE row == GenerateCertificate(next, q.subject, q.isCA, q.usage, q.parent, q.signer, q.issuer)
  <2>2. CreateCertificate(row) /\ next \in Ids
    BY <1>1 DEF InsertGenerated, CreateCertificate
  <2>3. /\ q.subject \in STRING /\ q.isCA \in BOOLEAN /\ q.usage \in SUBSET {"server", "client"}
        /\ q.parent \in 0 .. MaxId /\ q.signer \in Int /\ q.issuer \in STRING
    BY <2>1 DEF Inserting, Ids
  <2>4. row \in Row /\ row.parent = q.parent
    BY <2>2, <2>3, GeneratedRow
  <2> QED
    BY <2>1, <2>2, <2>4
<1>2. CASE InsertImported(r)
  <2>1. q \in Importing /\ q.parent < next
    BY <1>0, <1>2 DEF InsertImported, NoRequest, Inserting, Importing, Saving, Typed
  <2> DEFINE row == [cert |-> q.cert, key |-> FALSE, parent |-> q.parent]
  <2>2. CreateCertificate(row)
    BY <1>2 DEF InsertImported
  <2>3. row \in Row
    BY <2>1, ForeignCert DEF Importing, Row, Ids
  <2> QED
    BY <2>1, <2>2, <2>3
<1> QED
  BY <1>1, <1>2

LEMMA InsertTyped ==
  ASSUME Typed, NEW r \in Writers, InsertGenerated(r) \/ InsertImported(r)
  PROVE  Typed'
<1>1. PICK row \in Row : CreateCertificate(row) /\ row.parent < next
  BY InsertedRow
<1>2. request' = [request EXCEPT ![r] = NoRequest] /\ servers' = servers
  BY DEF InsertGenerated, InsertImported, Ends
<1>3. /\ next' \in Int /\ next <= next' /\ certs' \in [Ids -> Row \cup {NoCert}]
      /\ servers' \in [Servers -> [ca : Ids \cup {0}, cert : Ids \cup {0}]] /\ TypeOK'
  BY <1>1, <1>2, CreateTyped
<1> QED
  BY <1>2, <1>3, WriterTyped DEF Typed, Held, NoRequest

\* Where only a writer's request changes.
LEMMA StartTyped ==
  ASSUME Typed, UNCHANGED <<certs, next, servers, raced>>, NEW r \in Writers,
         NEW q \in {NoRequest} \cup Inserting \cup Importing \cup Saving,
         request' = [request EXCEPT ![r] = q],
         q.op \in {"insert", "import"} => q.parent < next,
         q.op = "save" => q.ca < next /\ q.cert < next
  PROVE  Typed'
<1>1. TypeOK'
  BY DEF Typed, TypeOK
<1>2. next' \in Int /\ next <= next'
  BY DEF Typed, TypeOK
<1> QED
  BY <1>1, <1>2, WriterTyped DEF Typed, Held

\* A root, made or imported, is inserted as a row without a parent.
LEMMA RootRow ==
  ASSUME Typed, \/ \E n \in Names : GenerateRootCA(n)
                \/ \E X \in Foreign, hasKey \in BOOLEAN : ImportCA(X, hasKey)
  PROVE  \E row \in Row : CreateCertificate(row) /\ row.parent = 0
<1>1. ASSUME NEW n \in Names, GenerateRootCA(n) PROVE \E row \in Row : CreateCertificate(row) /\ row.parent = 0
  <2> DEFINE row == GenerateCertificate(next, n, TRUE, {}, 0, 0, n)
  <2>1. CreateCertificate(row) /\ next \in Ids
    BY <1>1 DEF GenerateRootCA, CreateCertificate
  <2>2. n \in STRING /\ 0 \in 0 .. MaxId /\ next \in Int
    BY <2>1, CertStoreAssumption DEF Ids
  <2>3. row \in Row /\ row.parent = 0
    BY <2>2 DEF GenerateCertificate, Row, Certificate
  <2> QED
    BY <2>1, <2>3
<1>2. ASSUME NEW X \in Foreign, NEW hasKey \in BOOLEAN, ImportCA(X, hasKey)
      PROVE  \E row \in Row : CreateCertificate(row) /\ row.parent = 0
  <2> DEFINE row == [cert |-> X, key |-> hasKey, parent |-> 0]
  <2>1. X \in Certificate(Int) /\ 0 \in 0 .. MaxId
    BY ForeignCert, CertStoreAssumption
  <2>2. row \in Row /\ row.parent = 0
    BY <2>1 DEF Row
  <2>3. CreateCertificate(row)
    BY <1>2 DEF ImportCA
  <2> QED
    BY <2>2, <2>3
<1> QED
  BY <1>1, <1>2

LEMMA RootTyped ==
  ASSUME Typed, \/ \E n \in Names : GenerateRootCA(n)
                \/ \E X \in Foreign, hasKey \in BOOLEAN : ImportCA(X, hasKey)
  PROVE  Typed'
<1>1. PICK row \in Row : CreateCertificate(row) /\ row.parent = 0
  BY RootRow
<1>2. row.parent < next /\ servers' = servers /\ request' = request
  <2>1. next \in Int /\ 0 < next
    BY DEF Typed, TypeOK
  <2>2. servers' = servers /\ request' = request
    BY DEF GenerateRootCA, ImportCA
  <2> QED
    BY <1>1, <2>1, <2>2
<1>3. /\ next' \in Int /\ next <= next' /\ certs' \in [Ids -> Row \cup {NoCert}]
      /\ servers' \in [Servers -> [ca : Ids \cup {0}, cert : Ids \cup {0}]] /\ TypeOK'
  BY <1>1, <1>2, CreateTyped
<1>4. ASSUME NEW r \in Writers
      PROVE  /\ request[r].op \in {"insert", "import"} => request[r].parent < next'
             /\ request[r].op = "save" => request[r].ca < next' /\ request[r].cert < next'
  <2> DEFINE q == request[r]
  <2>1. q \in {NoRequest} \cup Inserting \cup Importing \cup Saving
    BY DEF Typed
  <2>2. /\ q.op \in {"insert", "import"} => q.parent < next
        /\ q.op = "save" => q.ca < next /\ q.cert < next
    BY DEF Typed
  <2> HIDE DEF q
  <2>3. /\ q.op \in {"insert", "import"} => q.parent \in Int
        /\ q.op = "save" => q.ca \in Int /\ q.cert \in Int
    BY <2>1 DEF Inserting, Importing, Saving, NoRequest, Ids
  <2>4. next \in Int
    BY DEF Typed, TypeOK
  <2> QED
    BY <1>3, <2>2, <2>3, <2>4 DEF q
<1> QED
  BY <1>2, <1>3, <1>4 DEF Typed

\* Where only a deletion's request changes.
LEMMA DeletionTyped ==
  ASSUME Typed, UNCHANGED <<certs, next, servers, raced>>, NEW r \in Deleters,
         NEW q \in {NoRequest} \cup Checking \cup Deleting, request' = [request EXCEPT ![r] = q]
  PROVE  Typed'
<1>1. TypeOK'
  BY DEF Typed, TypeOK
<1>2. next' = next
  OBVIOUS
<1> QED
  BY <1>1, <1>2, DeleterTyped DEF Typed, Held

LEMMA DeleteTyped == ASSUME Typed, NEW r \in Deleters, DeleteCertificate(r) PROVE Typed'
<1> DEFINE q == request[r]
<1>1. q \in Deleting
  BY DEF DeleteCertificate, Typed, NoRequest, Checking, Deleting
<1>2. Head(q.ids) \in Ids /\ Tail(q.ids) \in Seq(Ids)
  BY <1>1 DEF Deleting
<1>3. certs' = [certs EXCEPT ![Head(q.ids)] = NoCert]
  BY DEF DeleteCertificate
<1>4. certs' \in [Ids -> Row \cup {NoCert}] /\ \A i \in Ids : certs'[i] # NoCert => certs'[i] = certs[i]
  BY <1>2, <1>3 DEF Typed
<1>5. TypeOK'
  BY <1>4 DEF DeleteCertificate, Typed, TypeOK
<1>6. PICK h \in {NoRequest} \cup Deleting : request' = [request EXCEPT ![r] = h]
  <2>1. CASE Len(q.ids) = 1
    BY <2>1 DEF DeleteCertificate, Ends
  <2>2. CASE Len(q.ids) # 1
    <3>1. Tail(q.ids) # <<>>
      <4> DEFINE ids == q.ids
      <4>1. ids \in Seq(Ids) /\ ids # <<>>
        BY <1>1 DEF Deleting
      <4> HIDE DEF ids
      <4>2. Len(Tail(ids)) = Len(ids) - 1 /\ Len(ids) \in Nat /\ Len(ids) # 0
        BY <4>1
      <4>3. Len(ids) # 1
        BY <2>2 DEF ids
      <4>4. Tail(ids) # <<>>
        BY <4>2, <4>3
      <4> QED
        BY <4>4 DEF ids
    <3>2. [q EXCEPT !.ids = Tail(q.ids)] \in Deleting
      BY <1>1, <1>2, <3>1 DEF Deleting
    <3>3. request' = [request EXCEPT ![r] = [q EXCEPT !.ids = Tail(q.ids)]]
      BY <2>2 DEF DeleteCertificate
    <3> QED
      BY <3>2, <3>3
  <2> QED
    BY <2>1, <2>2
<1>7. UNCHANGED <<next, servers, raced>>
  BY DEF DeleteCertificate
<1> QED
  BY <1>4, <1>5, <1>6, <1>7, DeleterTyped DEF Typed, Held

LEMMA SaveTyped == ASSUME Typed, NEW r \in Writers, SaveServer(r) PROVE Typed'
<1> DEFINE q == request[r]
           ids == {q.ca, q.cert} \ {0}
<1>1. q \in Saving /\ q.ca < next /\ q.cert < next
  <2>1. q \in {NoRequest} \cup Inserting \cup Importing \cup Saving /\ q.op = "save"
    BY DEF SaveServer, Typed
  <2>2. q.ca < next /\ q.cert < next
    BY <2>1 DEF Typed
  <2> QED
    BY <2>1, <2>2 DEF NoRequest, Inserting, Importing, Saving
<1>2. next \in 1 .. MaxId + 1 /\ MaxId \in Nat /\ q.ca \in Ids \cup {0} /\ q.cert \in Ids \cup {0} /\ q.server \in Servers
  BY <1>1, CertStoreAssumption DEF Saving, Typed, TypeOK
<1>3. q.ca \in 0 .. next - 1 /\ q.cert \in 0 .. next - 1
  BY <1>1, <1>2 DEF Ids
<1>4. servers' = [servers EXCEPT ![q.server] = [ca |-> q.ca, cert |-> q.cert]] /\ UNCHANGED <<certs, next>>
      /\ request' = [request EXCEPT ![r] = NoRequest] /\ raced' \subseteq raced \cup ids
  BY DEF SaveServer, Ends
<1>5. servers' \in [Servers -> [ca : 0 .. next - 1, cert : 0 .. next - 1]]
      /\ servers' \in [Servers -> [ca : Ids \cup {0}, cert : Ids \cup {0}]]
  BY <1>2, <1>3, <1>4 DEF Typed, TypeOK
<1>6. raced' \subseteq 1 .. next - 1
  <2>1. ids \subseteq 1 .. next - 1
    BY <1>2, <1>3
  <2> QED
    BY <1>4, <2>1 DEF Typed, TypeOK
<1>7. TypeOK'
  BY <1>4, <1>5, <1>6 DEF Typed, TypeOK
<1>8. next' \in Int /\ next <= next'
  BY <1>2, <1>4
<1>9. NoRequest.op \notin {"insert", "import", "save"}
  BY DEF NoRequest
<1> QED
  BY <1>4, <1>5, <1>7, <1>8, <1>9, WriterTyped DEF Typed, Held

LEMMA NextTyped == Typed /\ [Next]_vars => Typed'
<1> SUFFICES ASSUME Typed, [Next]_vars PROVE Typed'
  OBVIOUS
<1>1. ASSUME NEW r \in Writers, NEW n \in Names, NEW ca \in Present,
             \/ GenerateCAHandler(r, n, ca)
             \/ \E usage \in Usages : SignCertificateHandler(r, n, ca, usage)
      PROVE  Typed'
  <2>1. certs[ca] \in Row /\ ca < next /\ ca \in Ids
    BY DEF Typed, TypeOK, Present
  <2>2. certs[ca].cert.key \in Int /\ certs[ca].cert.subject \in STRING /\ n \in STRING
    BY <2>1, CertStoreAssumption DEF Row, Certificate
  <2>3. PICK isCA \in BOOLEAN, use \in SUBSET {"server", "client"} :
          request' = [request EXCEPT ![r] = [op |-> "insert", isCA |-> isCA, usage |-> use, subject |-> n,
                         parent |-> ca, signer |-> certs[ca].cert.key, issuer |-> certs[ca].cert.subject]]
    BY <1>1, CertStoreAssumption DEF GenerateCAHandler, SignCertificateHandler, Starts
  <2> DEFINE q == [op |-> "insert", isCA |-> isCA, usage |-> use, subject |-> n,
                   parent |-> ca, signer |-> certs[ca].cert.key, issuer |-> certs[ca].cert.subject]
  <2>4. q \in Inserting /\ q.parent = ca /\ q.op = "insert"
    BY <2>1, <2>2 DEF Inserting
  <2>5. UNCHANGED <<certs, next, servers, raced>>
    BY <1>1 DEF GenerateCAHandler, SignCertificateHandler
  <2> HIDE DEF q
  <2> QED
    BY <2>1, <2>3, <2>4, <2>5, StartTyped DEF q
<1>2. ASSUME NEW r \in Writers, NEW X \in Foreign, NEW ca \in Present, ImportCertificateHandler(r, X, ca)
      PROVE  Typed'
  <2> DEFINE q == [op |-> "import", cert |-> X, parent |-> ca]
  <2>1. request' = [request EXCEPT ![r] = q] /\ UNCHANGED <<certs, next, servers, raced>>
    BY <1>2 DEF ImportCertificateHandler, Starts
  <2>2. ca \in Ids /\ ca < next /\ X \in Certificate(ForeignKeys)
    BY CertStoreAssumption DEF Typed, TypeOK, Present
  <2>3. q \in Importing /\ q.parent = ca /\ q.op = "import"
    BY <2>2 DEF Importing
  <2> HIDE DEF q
  <2> QED
    BY <2>1, <2>2, <2>3, StartTyped
<1>3. ASSUME NEW r \in Deleters, NEW id \in Present, DeleteCertificateHandler(r, id) PROVE Typed'
  <2> DEFINE q == [op |-> "check", ids |-> Subtree(id), id |-> id]
  <2>1. request' = [request EXCEPT ![r] = q] /\ UNCHANGED <<certs, next, servers, raced>>
    BY <1>3 DEF DeleteCertificateHandler, Starts
  <2>2. id \in Ids /\ Subtree(id) \in Seq(Ids) \ {<<>>}
    BY SubtreeOrder DEF Typed, Present
  <2>3. q \in Checking
    BY <2>2 DEF Checking
  <2> HIDE DEF q
  <2> QED
    BY <2>1, <2>3, DeletionTyped
<1>4. ASSUME NEW r \in Deleters, CountServerReferencingCertificate(r) PROVE Typed'
  <2> DEFINE q == request[r]
             then == [op |-> "delete", ids |-> q.ids]
  <2>1. q \in Checking
    BY <1>4 DEF CountServerReferencingCertificate, Typed, NoRequest, Checking, Deleting
  <2>2. then \in Deleting
    BY <2>1 DEF Checking, Deleting
  <2>3. request' = [request EXCEPT ![r] = then] \/ request' = [request EXCEPT ![r] = NoRequest]
    BY <1>4 DEF CountServerReferencingCertificate, Ends
  <2>4. UNCHANGED <<certs, next, servers, raced>>
    BY <1>4 DEF CountServerReferencingCertificate
  <2> HIDE DEF then
  <2> QED
    BY <2>2, <2>3, <2>4, DeletionTyped
<1>5. ASSUME NEW r \in Writers, NEW s \in Servers, NEW ca \in Present \cup {0}, NEW cert \in Present \cup {0},
             ValidateCertReferences(r, s, ca, cert)
      PROVE  Typed'
  <2> DEFINE q == [op |-> "save", server |-> s, ca |-> ca, cert |-> cert]
  <2>1. request' = [request EXCEPT ![r] = q] /\ UNCHANGED <<certs, next, servers, raced>>
    BY <1>5 DEF ValidateCertReferences, Starts
  <2>2. 0 < next
    BY DEF Typed, TypeOK
  <2>3. q \in Saving /\ q.op = "save" /\ q.ca < next /\ q.cert < next
    BY <2>2 DEF Saving, Present, Typed, TypeOK
  <2> HIDE DEF q
  <2> QED
    BY <2>1, <2>3, StartTyped
<1>6. ASSUME NEW s \in Servers, DeleteServer(s) PROVE Typed'
  <2>1. next \in 1 .. MaxId + 1 /\ MaxId \in Nat
    BY CertStoreAssumption DEF Typed, TypeOK
  <2>2. 0 \in 0 .. next - 1
    BY <2>1
  <2>3. servers' = [servers EXCEPT ![s] = [ca |-> 0, cert |-> 0]] /\ UNCHANGED <<certs, next, request, raced>>
    BY <1>6 DEF DeleteServer
  <2>4. /\ servers' \in [Servers -> [ca : 0 .. next - 1, cert : 0 .. next - 1]]
        /\ servers' \in [Servers -> [ca : Ids \cup {0}, cert : Ids \cup {0}]]
    BY <2>2, <2>3 DEF Typed, TypeOK
  <2> QED
    BY <2>3, <2>4 DEF Typed, TypeOK
<1>7. ASSUME NEW r \in Requests, RequestFails(r) PROVE Typed'
  <2>1. request' = [request EXCEPT ![r] = NoRequest] /\ UNCHANGED <<certs, next, servers, raced>>
    BY <1>7 DEF RequestFails, Ends
  <2>2. NoRequest.op \notin {"insert", "import", "save"}
    BY DEF NoRequest
  <2>3. r \in Writers \/ r \in Deleters
    BY DEF Requests
  <2> QED
    BY <2>1, <2>2, <2>3, StartTyped, DeletionTyped
<1>8. CASE UNCHANGED vars
  BY <1>8 DEF vars, Typed, TypeOK
<1>9. CASE CertificateStep
  BY <1>1, <1>2, <1>3, <1>4, <1>9, RootTyped, InsertTyped, DeleteTyped DEF CertificateStep
<1>10. CASE ServerStep
  BY <1>5, <1>6, <1>10, SaveTyped DEF ServerStep
<1> QED
  BY <1>7, <1>8, <1>9, <1>10 DEF Next

THEOREM TypedInvariant == Spec => []Typed
  BY InitTyped, NextTyped, PTL DEF Spec

\* Rows, references and ids are those the handlers can write, and a parent is
\* an earlier row: parents never form a cycle.
THEOREM CertTypes == Spec => []TypeOK
<1>1. Typed => TypeOK
  BY DEF Typed
<1> QED
  BY <1>1, TypedInvariant, PTL

-----------------------------------------------------------------------------
(* Parents are signers.  A row never changes and an id is given once, so   *)
(* what a handler read of a CA before it inserts a row below it is still   *)
(* true of whatever has that id.                                           *)

\* What a handler about to insert a row below a CA knows of that CA.
KnowsSigner(q) ==
  LET CA == certs[q.parent].cert
  IN  /\ q.op = "insert" /\ q.parent \in Present =>
            CA.ca /\ CA.key = q.signer /\ CA.subject = q.issuer
      /\ q.op = "import" /\ q.parent \in Present => ValidateSignedBy(q.cert, CA)

SignersKnown == \A r \in Writers : KnowsSigner(request[r])

SignedInv == Typed /\ SignersKnown /\ ParentSigned

\* Rows are inserted with the next id, deleted, and never changed.
RowsKept == \A i \in Ids : certs'[i] # NoCert /\ i < next => certs'[i] = certs[i]
NoneNew == \A i \in Ids : certs'[i] # NoCert => certs'[i] = certs[i]

LEMMA NoneNewKeeps == ASSUME Typed, ParentSigned, NoneNew PROVE RowsKept /\ ParentSigned'
<1>1. RowsKept
  BY DEF NoneNew, RowsKept
<1>2. ASSUME NEW i \in Ids, certs'[i] # NoCert, NEW p \in Ids, certs'[p] # NoCert, p = certs'[i].parent
      PROVE  /\ ValidateSignedBy(certs'[i].cert, certs'[p].cert)
             /\ certs'[i].cert.key > 0 => certs'[i].cert.issuer = certs'[p].cert.subject
  BY <1>2 DEF NoneNew, ParentSigned, Present
<1> QED
  BY <1>1, <1>2 DEF ParentSigned, Present

LEMMA CreateKeeps ==
  ASSUME Typed, ParentSigned, NEW row \in Row, row.parent < next, CreateCertificate(row),
         row.parent \in Present =>
            /\ ValidateSignedBy(row.cert, certs[row.parent].cert)
            /\ row.cert.key > 0 => row.cert.issuer = certs[row.parent].cert.subject
  PROVE  RowsKept /\ ParentSigned'
<1>1. next \in Ids /\ next \in Int /\ certs' = [certs EXCEPT ![next] = row]
  BY DEF CreateCertificate, Ids
<1>2. certs'[next] = row /\ \A i \in Ids : i # next => certs'[i] = certs[i]
  BY <1>1 DEF Typed
<1>3. RowsKept
  BY <1>1, <1>2 DEF RowsKept, Ids
<1>4. ASSUME NEW i \in Ids, certs'[i] # NoCert, NEW p \in Ids, certs'[p] # NoCert, p = certs'[i].parent
      PROVE  /\ ValidateSignedBy(certs'[i].cert, certs'[p].cert)
             /\ certs'[i].cert.key > 0 => certs'[i].cert.issuer = certs'[p].cert.subject
  <2>1. CASE i = next
    <3>1. certs'[i] = row /\ p < next
      BY <1>2, <1>4, <2>1
    <3>2. certs'[p] = certs[p] /\ p \in Present /\ p = row.parent
      BY <1>1, <1>2, <1>4, <3>1 DEF Present
    <3> QED
      BY <3>1, <3>2
  <2>2. CASE i # next
    <3>1. certs'[i] = certs[i] /\ i \in Present
      BY <1>2, <1>4, <2>2 DEF Present
    <3>2. i < next /\ p < i /\ i \in Int /\ p \in Int
      BY <1>4, <3>1 DEF Typed, TypeOK, Ids
    <3>3. certs'[p] = certs[p] /\ p \in Present
      BY <1>1, <1>2, <1>4, <3>2 DEF Present
    <3> QED
      BY <1>4, <3>1, <3>3 DEF ParentSigned
  <2> QED
    BY <2>1, <2>2
<1> QED
  BY <1>3, <1>4 DEF ParentSigned, Present

\* What a handler knows of a CA stays true.
LEMMA KnownStays ==
  ASSUME Typed, RowsKept, NEW r \in Writers, KnowsSigner(request[r]), request'[r] = request[r]
  PROVE  KnowsSigner(request[r])'
<1> DEFINE q == request[r]
<1>1. CASE q.op \in {"insert", "import"}
  <2>1. q \in {NoRequest} \cup Inserting \cup Importing \cup Saving /\ q.parent < next
    BY <1>1 DEF Typed
  <2>2. q.parent \in Ids
    BY <1>1, <2>1 DEF NoRequest, Inserting, Importing, Saving
  <2>3. q.parent \in Present' => q.parent \in Present /\ certs'[q.parent] = certs[q.parent]
    BY <2>1, <2>2 DEF RowsKept, Present
  <2> QED
    BY <2>3 DEF KnowsSigner
<1>2. CASE q.op \notin {"insert", "import"}
  BY <1>2 DEF KnowsSigner
<1> QED
  BY <1>1, <1>2

LEMMA OthersKnown ==
  ASSUME Typed, SignersKnown, RowsKept,
         \A r \in Writers : request'[r] = request[r] \/ KnowsSigner(request[r])'
  PROVE  SignersKnown'
  BY KnownStays DEF SignersKnown

\* A request that ends, and one of a deletion, know of no signer.
LEMMA EndedKnown ==
  ASSUME Typed, SignersKnown, RowsKept, NEW r \in Requests, NEW q, request' = [request EXCEPT ![r] = q],
         r \in Writers => q.op \notin {"insert", "import"}
  PROVE  SignersKnown'
<1>1. ASSUME NEW w \in Writers, request'[w] # request[w] PROVE KnowsSigner(request[w])'
  <2>1. w = r /\ request'[w] = q
    BY <1>1 DEF Typed, Requests
  <2> QED
    BY <2>1 DEF KnowsSigner
<1> QED
  BY <1>1, OthersKnown

LEMMA InsertSigned ==
  ASSUME SignedInv, NEW r \in Writers, InsertGenerated(r) \/ InsertImported(r)
  PROVE  SignersKnown' /\ ParentSigned'
<1> USE DEF SignedInv
<1> DEFINE q == request[r]
<1>1. q \in {NoRequest} \cup Inserting \cup Importing \cup Saving /\ KnowsSigner(q) /\ r \in Requests
  BY DEF Typed, SignersKnown, Requests
<1>2. RowsKept /\ ParentSigned'
  <2>1. CASE InsertGenerated(r)
    <3>1. q \in Inserting /\ q.parent < next
      BY <1>1, <2>1 DEF InsertGenerated, NoRequest, Inserting, Importing, Saving, Typed
    <3> DEFINE row == GenerateCertificate(next, q.subject, q.isCA, q.usage, q.parent, q.signer, q.issuer)
    <3>2. CreateCertificate(row) /\ next \in Ids
      BY <2>1 DEF InsertGenerated, CreateCertificate
    <3>3. /\ q.subject \in STRING /\ q.isCA \in BOOLEAN /\ q.usage \in SUBSET {"server", "client"}
          /\ q.parent \in 0 .. MaxId /\ q.signer \in Int /\ q.issuer \in STRING /\ q.parent # 0
      BY <3>1 DEF Inserting, Ids
    <3>4. row \in Row /\ row.parent = q.parent
      <4>1. next \in Int
        BY <3>2 DEF Ids
      <4> HIDE DEF q
      <4> QED
        BY <3>3, <4>1 DEF GenerateCertificate, Row, Certificate
    <3>5. row.cert.signer = q.signer /\ row.cert.issuer = q.issuer
      BY <3>3 DEF GenerateCertificate
    <3>6. q.parent \in Present => ValidateSignedBy(row.cert, certs[q.parent].cert) /\ row.cert.issuer = certs[q.parent].cert.subject
      BY <1>1, <3>1, <3>5 DEF KnowsSigner, ValidateSignedBy, Inserting
    <3> HIDE DEF row, q
    <3> QED
      BY <3>1, <3>2, <3>4, <3>6, CreateKeeps
  <2>2. CASE InsertImported(r)
    <3>1. q \in Importing /\ q.parent < next
      BY <1>1, <2>2 DEF InsertImported, NoRequest, Inserting, Importing, Saving, Typed
    <3> DEFINE row == [cert |-> q.cert, key |-> FALSE, parent |-> q.parent]
    <3>2. CreateCertificate(row)
      BY <2>2 DEF InsertImported
    <3>3. q.cert \in Certificate(Int) /\ q.cert.key < 0 /\ q.cert.key \in Int
      BY <3>1, ForeignCert DEF Importing, Certificate
    <3>4. row \in Row /\ row.parent = q.parent /\ row.cert = q.cert
      BY <3>1, <3>3 DEF Importing, Row, Ids
    <3>5. q.parent \in Present => ValidateSignedBy(q.cert, certs[q.parent].cert)
      BY <1>1, <3>1 DEF KnowsSigner, Importing
    <3>6. ~(row.cert.key > 0)
      BY <3>3, <3>4
    <3> HIDE DEF row, q
    <3> QED
      BY <3>1, <3>2, <3>4, <3>5, <3>6, CreateKeeps
  <2> QED
    BY <2>1, <2>2
<1>3. request' = [request EXCEPT ![r] = NoRequest] /\ NoRequest.op \notin {"insert", "import"}
  BY DEF InsertGenerated, InsertImported, Ends, NoRequest
<1> QED
  BY <1>1, <1>2, <1>3, EndedKnown

LEMMA RootSigned ==
  ASSUME SignedInv, \/ \E n \in Names : GenerateRootCA(n)
                    \/ \E X \in Foreign, hasKey \in BOOLEAN : ImportCA(X, hasKey)
  PROVE  SignersKnown' /\ ParentSigned'
<1> USE DEF SignedInv
<1>1. PICK row \in Row : CreateCertificate(row) /\ row.parent = 0
  BY RootRow
<1>2. row.parent < next /\ row.parent \notin Present
  <2>1. next \in Int /\ 0 < next
    BY DEF Typed, TypeOK
  <2> QED
    BY <1>1, <2>1 DEF Present, Ids
<1>3. RowsKept /\ ParentSigned'
  BY <1>1, <1>2, CreateKeeps
<1>4. request' = request
  BY DEF GenerateRootCA, ImportCA
<1> QED
  BY <1>3, <1>4, OthersKnown

LEMMA InitSigned == Init => SignedInv
<1> SUFFICES ASSUME Init PROVE SignersKnown /\ ParentSigned
  BY InitTyped DEF SignedInv
<1>1. \A r \in Writers : request[r] = NoRequest
  BY DEF Init, Requests
<1>2. Present = {}
  BY DEF Init, Present
<1> QED
  BY <1>1, <1>2 DEF SignersKnown, KnowsSigner, NoRequest, ParentSigned

LEMMA NextSigned == SignedInv /\ [Next]_vars => SignedInv'
<1> SUFFICES ASSUME SignedInv, [Next]_vars PROVE SignersKnown' /\ ParentSigned'
  BY NextTyped DEF SignedInv
<1> USE DEF SignedInv
<1>1. certs' = certs => RowsKept /\ ParentSigned'
  BY NoneNewKeeps DEF NoneNew
<1>2. ASSUME NEW r \in Writers, NEW q, request' = [request EXCEPT ![r] = q], certs' = certs, KnowsSigner(q)
      PROVE  SignersKnown'
  <2>1. \A w \in Writers : request'[w] = request[w] \/ request'[w] = q
    BY <1>2 DEF Typed, Requests
  <2>2. KnowsSigner(q)'
    BY <1>2 DEF KnowsSigner, Present
  <2> QED
    BY <1>1, <1>2, <2>1, <2>2, OthersKnown DEF KnowsSigner, Present
<1>3. ASSUME NEW r \in Writers, NEW n \in Names, NEW ca \in Present,
             \/ GenerateCAHandler(r, n, ca)
             \/ \E usage \in Usages : SignCertificateHandler(r, n, ca, usage)
      PROVE  SignersKnown' /\ ParentSigned'
  <2>1. PICK isCA, use :
          request' = [request EXCEPT ![r] = [op |-> "insert", isCA |-> isCA, usage |-> use, subject |-> n,
                         parent |-> ca, signer |-> certs[ca].cert.key, issuer |-> certs[ca].cert.subject]]
    BY <1>3 DEF GenerateCAHandler, SignCertificateHandler, Starts
  <2>2. certs' = certs /\ TypeOf(certs[ca]) = "ca"
    BY <1>3 DEF GenerateCAHandler, SignCertificateHandler
  <2>3. certs[ca].cert.ca
    BY <2>2 DEF TypeOf, CertTypeFromEKU
  <2> DEFINE q == [op |-> "insert", isCA |-> isCA, usage |-> use, subject |-> n,
                   parent |-> ca, signer |-> certs[ca].cert.key, issuer |-> certs[ca].cert.subject]
  <2>4. KnowsSigner(q)
    BY <2>3 DEF KnowsSigner
  <2> HIDE DEF q
  <2> QED
    BY <1>1, <1>2, <2>1, <2>2, <2>4 DEF q
<1>4. ASSUME NEW r \in Writers, NEW X \in Foreign, NEW ca \in Present, ImportCertificateHandler(r, X, ca)
      PROVE  SignersKnown' /\ ParentSigned'
  <2> DEFINE q == [op |-> "import", cert |-> X, parent |-> ca]
  <2>1. request' = [request EXCEPT ![r] = q] /\ certs' = certs /\ ValidateSignedBy(X, certs[ca].cert)
    BY <1>4 DEF ImportCertificateHandler, Starts
  <2>2. KnowsSigner(q)
    BY <2>1 DEF KnowsSigner
  <2> HIDE DEF q
  <2> QED
    BY <1>1, <1>2, <2>1, <2>2
<1>5. ASSUME NEW r \in Requests, NEW q, request' = [request EXCEPT ![r] = q], NoneNew,
             r \in Writers => q.op \notin {"insert", "import"}
      PROVE  SignersKnown' /\ ParentSigned'
  BY <1>5, NoneNewKeeps, EndedKnown
<1>6. certs' = certs => NoneNew
  BY DEF NoneNew
<1>7. NoRequest.op \notin {"insert", "import"}
  BY DEF NoRequest
<1>8. ASSUME NEW r \in Deleters PROVE r \in Requests /\ r \notin Writers
  BY CertStoreAssumption DEF Requests
<1>9. ASSUME NEW r \in Deleters, \/ \E id \in Present : DeleteCertificateHandler(r, id)
                                 \/ CountServerReferencingCertificate(r)
      PROVE  SignersKnown' /\ ParentSigned'
  <2>1. (\E q : request' = [request EXCEPT ![r] = q]) /\ certs' = certs
    BY <1>9 DEF DeleteCertificateHandler, CountServerReferencingCertificate, Starts, Ends
  <2> QED
    BY <1>5, <1>6, <1>8, <2>1
<1>10. ASSUME NEW r \in Deleters, DeleteCertificate(r) PROVE SignersKnown' /\ ParentSigned'
  <2>1. \E q : request' = [request EXCEPT ![r] = q]
    BY <1>10 DEF DeleteCertificate, Ends
  <2>2. request[r] \in Deleting
    BY <1>10 DEF DeleteCertificate, Typed, NoRequest, Checking, Deleting
  <2>3. Head(request[r].ids) \in Ids
    BY <2>2 DEF Deleting
  <2>4. NoneNew
    BY <1>10, <2>3 DEF DeleteCertificate, NoneNew, Typed
  <2> QED
    BY <1>5, <1>8, <2>1, <2>4
<1>11. ASSUME NEW r \in Writers, NEW s \in Servers, NEW ca \in Present \cup {0}, NEW cert \in Present \cup {0},
             ValidateCertReferences(r, s, ca, cert)
      PROVE  SignersKnown' /\ ParentSigned'
  <2> DEFINE q == [op |-> "save", server |-> s, ca |-> ca, cert |-> cert]
  <2>1. request' = [request EXCEPT ![r] = q] /\ certs' = certs /\ q.op \notin {"insert", "import"} /\ r \in Requests
    BY <1>11 DEF ValidateCertReferences, Starts, Requests
  <2> HIDE DEF q
  <2> QED
    BY <1>5, <1>6, <2>1
<1>12. ASSUME NEW r \in Requests, RequestFails(r) \/ SaveServer(r) PROVE SignersKnown' /\ ParentSigned'
  <2>1. request' = [request EXCEPT ![r] = NoRequest] /\ certs' = certs
    BY <1>12 DEF RequestFails, SaveServer, Ends
  <2> QED
    BY <1>5, <1>6, <1>7, <2>1
<1>13. ASSUME UNCHANGED <<certs, request>> PROVE SignersKnown' /\ ParentSigned'
  BY <1>1, <1>13, OthersKnown
<1>14. CASE CertificateStep
  BY <1>3, <1>4, <1>9, <1>10, <1>14, RootSigned, InsertSigned DEF CertificateStep
<1>15. CASE ServerStep
  <2>1. CASE \E s \in Servers : DeleteServer(s)
    BY <1>13, <2>1 DEF DeleteServer
  <2>2. \A r \in Writers : r \in Requests
    BY DEF Requests
  <2> QED
    BY <1>11, <1>12, <1>15, <2>1, <2>2 DEF ServerStep
<1>16. CASE UNCHANGED vars
  BY <1>13, <1>16 DEF vars
<1> QED
  BY <1>12, <1>14, <1>15, <1>16 DEF Next

THEOREM SignedInvariant == Spec => []SignedInv
  BY InitSigned, NextSigned, PTL DEF Spec

\* The parent a row names has signed it, if it is stored: no deletion, import
\* or row of the same name between the reading of a CA and the insertion of
\* what it signed changes who the parent is.
THEOREM ParentsAreSigners == Spec => []ParentSigned
<1>1. SignedInv => ParentSigned
  BY DEF SignedInv
<1> QED
  BY <1>1, SignedInvariant, PTL

\* The client's certificate in an exported profile was signed by the CA that
\* is put next to it.
THEOREM ExportsMatch == Spec => []ExportMatches
<1>1. SignedInv => ExportMatches
  <2> SUFFICES ASSUME SignedInv, NEW s \in Servers, NEW i \in Present, MayExport(s, i), servers[s].ca \in Present
               PROVE  ValidateSignedBy(certs[i].cert, certs[servers[s].ca].cert)
    BY DEF ExportMatches
  <2>1. servers[s].ca # 0
    BY DEF Present, Ids
  <2> QED
    BY <2>1 DEF MayExport, SignedInv, ParentSigned
<1> QED
  BY <1>1, SignedInvariant, PTL

-----------------------------------------------------------------------------
(* Nothing dangles.  What a deletion is going to take is in order, children*)
(* before parents, and unused, but for what was written meanwhile.         *)

InOrder(q) ==
  \A k \in 1 .. Len(q.ids) : \A c \in ListChildCertificate(q.ids[k]) :
     q.ids[k] \in raced \/ \E j \in 1 .. k - 1 : q.ids[j] = c

Unused(q) ==
  \A v \in Listed(q.ids) : (q.op = "check" /\ v = q.id) \/ ServersReferencing(v) = {} \/ v \in raced

SafeToDelete == \A r \in Deleters : request[r].op # "none" => InOrder(request[r]) /\ Unused(request[r])

DeletionInv == Typed /\ SafeToDelete /\ NoDangling

LEMMA DeletionIds ==
  ASSUME Typed, NEW r \in Deleters, request[r].op # "none"
  PROVE  /\ request[r] \in Checking \cup Deleting
         /\ request[r].ids \in Seq(Ids) \ {<<>>}
         /\ Listed(request[r].ids) \subseteq Doomed \cap Ids
<1>1. request[r] \in Checking \cup Deleting
  BY DEF Typed, NoRequest
<1>2. request[r].ids \in Seq(Ids) \ {<<>>}
  BY <1>1 DEF Checking, Deleting
<1> DEFINE ids == request[r].ids
<1>3. Listed(ids) = ToSet(ids)
  BY <1>2 DEF Listed, ToSet
<1>4. ToSet(ids) \subseteq Doomed
  BY DEF Doomed
<1>5. Listed(ids) \subseteq Ids
  BY <1>2 DEF Listed
<1> QED
  BY <1>1, <1>2, <1>3, <1>4, <1>5

\* What is written below or referred to: as before, or out of reach of every
\* deletion under way, or noted in raced.
RowsRaced ==
  \A c \in Ids : certs'[c] # NoCert =>
     certs'[c] = certs[c] \/ certs'[c].parent \notin Doomed \/ certs'[c].parent \in raced'

RefsRaced ==
  \A s \in Servers : \A v \in Ids : s \in ServersReferencing(v)' =>
     s \in ServersReferencing(v) \/ v \notin Doomed \/ v \in raced'

LEMMA DeletionStays ==
  ASSUME Typed, SafeToDelete, raced \subseteq raced', RowsRaced, RefsRaced,
         NEW r \in Deleters, request[r].op # "none", request'[r] = request[r]
  PROVE  (InOrder(request[r]) /\ Unused(request[r]))'
<1> DEFINE ids == request[r].ids
<1>1. ids \in Seq(Ids) /\ \A k \in 1 .. Len(ids) : ids[k] \in Ids /\ ids[k] \in Doomed
  BY DeletionIds DEF Listed
<1>2. InOrder(request[r]) /\ Unused(request[r])
  BY DEF SafeToDelete
<1>3. ASSUME NEW k \in 1 .. Len(ids), NEW c \in Ids, certs'[c] # NoCert, certs'[c].parent = ids[k]
      PROVE  ids[k] \in raced' \/ \E j \in 1 .. k - 1 : ids[j] = c
  <2>1. certs'[c] = certs[c] \/ ids[k] \in raced'
    BY <1>1, <1>3 DEF RowsRaced
  <2>2. certs'[c] = certs[c] => c \in ListChildCertificate(ids[k])
    BY <1>3 DEF ListChildCertificate, Present
  <2> QED
    BY <1>2, <2>1, <2>2 DEF InOrder
<1>4. ASSUME NEW v \in Listed(ids), v \notin raced'
      PROVE  (request[r].op = "check" /\ v = request[r].id) \/ ServersReferencing(v)' = {}
  <2>1. v \in Ids /\ v \in Doomed /\ v \notin raced
    BY <1>4, DeletionIds
  <2>2. (request[r].op = "check" /\ v = request[r].id) \/ ServersReferencing(v) = {}
    BY <1>2, <2>1 DEF Unused
  <2>3. ServersReferencing(v)' \subseteq Servers
    BY DEF ServersReferencing
  <2> QED
    BY <1>4, <2>1, <2>2, <2>3 DEF RefsRaced
<1>5. InOrder(request[r])'
  BY <1>3 DEF InOrder, ListChildCertificate, Present
<1>6. Unused(request[r])'
  BY <1>4 DEF Unused
<1> QED
  BY <1>5, <1>6

LEMMA OthersSafe ==
  ASSUME Typed, SafeToDelete, raced \subseteq raced', RowsRaced, RefsRaced,
         \A r \in Deleters : request'[r] = request[r] \/ request'[r].op = "none"
                             \/ (InOrder(request[r]) /\ Unused(request[r]))'
  PROVE  SafeToDelete'
  BY DeletionStays DEF SafeToDelete

LEMMA Unchanging ==
  /\ certs' = certs => RowsRaced
  /\ servers' = servers => RefsRaced
  BY DEF RowsRaced, RefsRaced, ServersReferencing, RefIds

\* References only disappear with servers, and rows do not change.
LEMMA DanglingStays ==
  ASSUME Typed, NoDangling, raced \subseteq raced', Present \subseteq Present',
         \A i \in Ids : certs'[i] # NoCert =>
            certs'[i] = certs[i] \/ certs'[i].parent \in Present' \cup raced' \cup {0},
         \A s \in Servers : RefIds(s)' \subseteq RefIds(s) \cup Present' \cup raced'
  PROVE  NoDangling'
<1>1. ASSUME NEW i \in Present' PROVE certs'[i].parent \in Present' \cup raced' \cup {0}
  <2>1. i \in Ids /\ certs'[i] # NoCert
    BY <1>1 DEF Present
  <2>2. certs'[i] = certs[i] => i \in Present
    BY <2>1 DEF Present
  <2> QED
    BY <2>1, <2>2 DEF NoDangling
<1>2. ASSUME NEW s \in Servers PROVE RefIds(s)' \subseteq Present' \cup raced'
  BY DEF NoDangling
<1> QED
  BY <1>1, <1>2 DEF NoDangling

LEMMA CreateSafe ==
  ASSUME Typed, NoDangling, NEW row \in Row, CreateCertificate(row), servers' = servers
  PROVE  raced \subseteq raced' /\ RowsRaced /\ RefsRaced /\ NoDangling'
<1>1. next \in Ids /\ certs' = [certs EXCEPT ![next] = row] /\ raced \subseteq raced'
  BY DEF CreateCertificate
<1>2. certs'[next] = row /\ \A i \in Ids : i # next => certs'[i] = certs[i]
  BY <1>1 DEF Typed
<1>3. row.parent # 0 => row.parent \in raced' \/ (row.parent \in Present /\ row.parent \notin Doomed)
  BY DEF CreateCertificate
<1>4. 0 \notin Doomed
  <2> SUFFICES ASSUME NEW r \in Deleters, request[r].op # "none" PROVE 0 \notin ToSet(request[r].ids)
    BY DEF Doomed
  <2>1. request[r].ids \in Seq(Ids)
    BY DeletionIds
  <2>2. ToSet(request[r].ids) \subseteq Ids
    BY <2>1 DEF ToSet
  <2> QED
    BY <2>2 DEF Ids
<1>5. RowsRaced
  BY <1>2, <1>3, <1>4 DEF RowsRaced
<1>6. next \notin Present /\ Present \subseteq Present'
  <2>1. next \notin Present
    BY <1>1 DEF Typed, TypeOK, Present, Ids
  <2> QED
    BY <1>2, <2>1 DEF Present
<1>7. \A s \in Servers : RefIds(s)' = RefIds(s)
  BY DEF RefIds
<1>8. \A i \in Ids : certs'[i] # NoCert =>
        certs'[i] = certs[i] \/ certs'[i].parent \in Present' \cup raced' \cup {0}
  BY <1>2, <1>3, <1>6
<1> QED
  BY <1>1, <1>5, <1>6, <1>7, <1>8, Unchanging, DanglingStays

LEMMA SaveSafe ==
  ASSUME Typed, NoDangling, NEW r \in Writers, SaveServer(r)
  PROVE  raced \subseteq raced' /\ RowsRaced /\ RefsRaced /\ NoDangling'
<1> DEFINE q == request[r]
           ids == {q.ca, q.cert} \ {0}
<1>1. /\ servers' = [servers EXCEPT ![q.server] = [ca |-> q.ca, cert |-> q.cert]]
      /\ raced' = raced \cup ((ids \ Present) \cup (ids \cap Doomed))
      /\ certs' = certs
  BY DEF SaveServer
<1>2. \A s \in Servers : servers'[s] = servers[s] \/ servers'[s] = [ca |-> q.ca, cert |-> q.cert]
  BY <1>1 DEF Typed
<1>3. \A s \in Servers : RefIds(s)' = RefIds(s) \/ RefIds(s)' = ids
  BY <1>2 DEF RefIds
<1>4. \A v \in ids : v \in raced' \/ (v \in Present /\ v \notin Doomed)
  BY <1>1
<1>5. raced \subseteq raced' /\ Present' = Present
  BY <1>1 DEF Present
<1> HIDE DEF ids, q
<1>6. RefsRaced
  BY <1>3, <1>4, <1>5 DEF RefsRaced, ServersReferencing
<1>7. NoDangling'
  BY <1>1, <1>3, <1>4, <1>5, DanglingStays
<1> QED
  BY <1>1, <1>5, <1>6, <1>7, Unchanging

\* Where only requests change.
LEMMA RequestSafe ==
  ASSUME Typed, NoDangling, UNCHANGED <<certs, servers, raced>>
  PROVE  raced \subseteq raced' /\ RowsRaced /\ RefsRaced /\ NoDangling'
<1>1. Present' = Present
  BY DEF Present
<1>2. \A s \in Servers : RefIds(s)' = RefIds(s)
  BY DEF RefIds
<1> QED
  BY <1>1, <1>2, Unchanging DEF NoDangling

LEMMA ServerDeletedSafe ==
  ASSUME Typed, NoDangling, NEW s \in Servers, DeleteServer(s)
  PROVE  raced \subseteq raced' /\ RowsRaced /\ RefsRaced /\ NoDangling'
<1>1. servers' = [servers EXCEPT ![s] = [ca |-> 0, cert |-> 0]] /\ certs' = certs /\ raced' = raced
  BY DEF DeleteServer
<1>2. \A t \in Servers : servers'[t] = servers[t] \/ servers'[t] = [ca |-> 0, cert |-> 0]
  BY <1>1 DEF Typed
<1>3. \A t \in Servers : RefIds(t)' \subseteq RefIds(t)
  BY <1>2 DEF RefIds
<1>4. Present' = Present
  BY <1>1 DEF Present
<1>5. RefsRaced
  BY <1>3 DEF RefsRaced, ServersReferencing
<1> QED
  BY <1>1, <1>3, <1>4, <1>5, Unchanging, DanglingStays

\* The row a deletion takes next has no row below it and no server, but for
\* those noted in raced.
LEMMA DeleteSafe ==
  ASSUME Typed, SafeToDelete, NoDangling, NEW r \in Deleters, DeleteCertificate(r)
  PROVE  /\ raced \subseteq raced' /\ RowsRaced /\ RefsRaced /\ NoDangling'
         /\ request'[r].op = "none" \/ (InOrder(request[r]) /\ Unused(request[r]))'
<1> DEFINE q == request[r]
           ids == q.ids
<1>1. q \in Deleting /\ q.op = "delete" /\ ids \in Seq(Ids) \ {<<>>}
  <2>1. q.op = "delete" /\ q \in {NoRequest} \cup Checking \cup Deleting
    BY DEF DeleteCertificate, Typed
  <2>2. q \in Deleting
    BY <2>1 DEF NoRequest, Checking, Deleting
  <2> QED
    BY <2>1, <2>2 DEF Deleting
<1>2. InOrder(q) /\ Unused(q)
  BY <1>1 DEF SafeToDelete
<1> DEFINE n == Len(ids)
           h == ids[1]
<1>3. n \in Nat /\ n >= 1 /\ h \in Ids /\ Head(ids) = h /\ h \in Listed(ids)
  BY <1>1 DEF Listed
<1>4. certs' = [certs EXCEPT ![h] = NoCert] /\ servers' = servers /\ raced' = raced
  BY <1>3 DEF DeleteCertificate
<1>5. certs'[h] = NoCert /\ \A i \in Ids : i # h => certs'[i] = certs[i]
  BY <1>3, <1>4 DEF Typed
<1>6. NoneNew /\ RowsRaced
  BY <1>5 DEF NoneNew, RowsRaced
<1>7. h \in raced \/ (ListChildCertificate(h) = {} /\ ServersReferencing(h) = {})
  <2>1. h \in raced \/ \A c \in ListChildCertificate(h) : \E j \in 1 .. 1 - 1 : ids[j] = c
    BY <1>2, <1>3 DEF InOrder
  <2>2. h \in raced \/ ServersReferencing(h) = {}
    BY <1>1, <1>2, <1>3 DEF Unused
  <2> QED
    BY <2>1, <2>2
<1>8. NoDangling'
  <2>1. Present' = Present \ {h}
    BY <1>5 DEF Present
  <2>2. ASSUME NEW i \in Present' PROVE certs'[i].parent \in Present' \cup raced' \cup {0}
    <3>1. i \in Present /\ i \in Ids /\ certs'[i] = certs[i]
      BY <1>5, <2>1, <2>2 DEF Present
    <3>2. certs[i].parent \in Present \cup raced \cup {0}
      BY <3>1 DEF NoDangling
    <3>3. certs[i].parent = h => i \in ListChildCertificate(h)
      BY <3>1 DEF ListChildCertificate
    <3> QED
      BY <1>4, <1>7, <2>1, <3>1, <3>2, <3>3
  <2>3. ASSUME NEW s \in Servers PROVE RefIds(s)' \subseteq Present' \cup raced'
    <3>1. RefIds(s)' = RefIds(s) /\ RefIds(s) \subseteq Present \cup raced
      BY <1>4 DEF RefIds, NoDangling
    <3>2. h \in RefIds(s) => s \in ServersReferencing(h)
      BY DEF ServersReferencing
    <3> QED
      BY <1>4, <1>7, <2>1, <3>1, <3>2
  <2> QED
    BY <2>2, <2>3 DEF NoDangling
<1>9. CASE n = 1
  <2>1. request' = [request EXCEPT ![r] = NoRequest]
    BY <1>9 DEF DeleteCertificate, Ends
  <2>2. request'[r].op = "none"
    BY <2>1 DEF Typed, Requests, NoRequest
  <2> QED
    BY <1>4, <1>6, <1>8, <2>2, Unchanging
<1>10. CASE n # 1
  <2> DEFINE rest == Tail(ids)
  <2>1. /\ rest \in Seq(Ids) /\ Len(rest) = n - 1
        /\ \A k \in 1 .. n - 1 : rest[k] = ids[k + 1]
    BY <1>1
  <2>2. request'[r] = [q EXCEPT !.ids = rest]
    BY <1>10 DEF DeleteCertificate, Typed, Requests
  <2>3. request'[r].ids = rest /\ request'[r].op = "delete"
    BY <1>1, <2>2 DEF Deleting
  <2>4. ASSUME NEW k \in 1 .. n - 1, NEW c \in Ids, certs'[c] # NoCert, certs'[c].parent = rest[k]
        PROVE  rest[k] \in raced \/ \E j \in 1 .. k - 1 : rest[j] = c
    <3>1. k + 1 \in 1 .. n /\ rest[k] = ids[k + 1] /\ c # h /\ certs'[c] = certs[c]
      BY <1>3, <1>5, <2>1, <2>4
    <3>2. c \in ListChildCertificate(ids[k + 1])
      BY <2>4, <3>1 DEF ListChildCertificate, Present
    <3>3. rest[k] \in raced \/ \E j \in 1 .. (k + 1) - 1 : ids[j] = c
      BY <1>2, <3>1, <3>2 DEF InOrder
    <3>4. ASSUME NEW j \in 1 .. (k + 1) - 1, ids[j] = c PROVE \E i \in 1 .. k - 1 : rest[i] = c
      <4>1. j # 1 /\ j - 1 \in 1 .. n - 1 /\ j - 1 \in 1 .. k - 1 /\ (j - 1) + 1 = j
        BY <1>3, <3>1, <3>4
      <4>2. rest[j - 1] = c
        BY <2>1, <3>4, <4>1
      <4> QED
        BY <4>1, <4>2
    <3> QED
      BY <3>3, <3>4
  <2>5. InOrder(request[r])'
    <3> HIDE DEF rest
    <3> QED
      BY <1>4, <2>1, <2>3, <2>4 DEF InOrder, ListChildCertificate, Present
  <2>6. Listed(rest) \subseteq Listed(ids)
    <3>1. \A k \in 1 .. n - 1 : rest[k] = ids[k + 1] /\ k + 1 \in 1 .. n
      BY <1>3, <2>1
    <3> HIDE DEF rest, ids
    <3> QED
      BY <2>1, <3>1 DEF Listed
  <2>7. Unused(request[r])'
    <3>1. \A v \in Listed(rest) : ServersReferencing(v) = {} \/ v \in raced
      BY <1>1, <1>2, <2>6 DEF Unused
    <3>2. \A v : ServersReferencing(v)' = ServersReferencing(v)
      BY <1>4 DEF ServersReferencing, RefIds
    <3> HIDE DEF rest
    <3> QED
      BY <1>4, <2>3, <3>1, <3>2 DEF Unused
  <2> QED
    BY <1>4, <1>6, <1>8, <2>5, <2>7, Unchanging
<1> QED
  BY <1>9, <1>10

\* A deletion begins with all rows below it, in order, and none of them used.
LEMMA BeginSafe ==
  ASSUME Typed, NEW r \in Deleters, NEW id \in Present, DeleteCertificateHandler(r, id)
  PROVE  (InOrder(request[r]) /\ Unused(request[r]))'
<1> DEFINE ids == Subtree(id)
           q == [op |-> "check", ids |-> ids, id |-> id]
<1>1. id \in Ids /\ ids \in Seq(Ids) /\ ChildrenFirst(ids)
  BY SubtreeOrder DEF Typed, Present
<1>2. request'[r] = q /\ UNCHANGED <<certs, servers, raced>>
  BY DEF DeleteCertificateHandler, Starts, Typed, Requests
<1>3. \A v \in Listed(ids) : v = id \/ ServersReferencing(v) = {}
  <2>1. Listed(ids) = ToSet(ids)
    BY <1>1 DEF Listed, ToSet
  <2> QED
    BY <2>1 DEF DeleteCertificateHandler
<1> HIDE DEF ids
<1>4. request'[r].ids = ids /\ request'[r].op = "check" /\ request'[r].id = id
  BY <1>2
<1>5. /\ \A v : ListChildCertificate(v)' = ListChildCertificate(v)
      /\ \A v : ServersReferencing(v)' = ServersReferencing(v)
  BY <1>2 DEF ListChildCertificate, Present, ServersReferencing, RefIds
<1>6. InOrder(request[r])'
  BY <1>1, <1>4, <1>5 DEF InOrder, ChildrenFirst
<1>7. Unused(request[r])'
  BY <1>3, <1>4, <1>5 DEF Unused
<1> QED
  BY <1>6, <1>7

\* The certificate itself is the last to be looked for in servers.
LEMMA CountSafe ==
  ASSUME Typed, SafeToDelete, NEW r \in Deleters, CountServerReferencingCertificate(r)
  PROVE  request'[r].op = "none" \/ (InOrder(request[r]) /\ Unused(request[r]))'
<1> DEFINE q == request[r]
<1>1. q \in Checking /\ q.op = "check" /\ UNCHANGED <<certs, servers, raced>>
  <2>1. q.op = "check" /\ UNCHANGED <<certs, servers, raced>> /\ q \in {NoRequest} \cup Checking \cup Deleting
    BY DEF CountServerReferencingCertificate, Typed
  <2> QED
    BY <2>1 DEF NoRequest, Checking, Deleting
<1>2. InOrder(q) /\ Unused(q)
  BY <1>1 DEF SafeToDelete
<1>3. CASE ServersReferencing(q.id) = {}
  <2>1. request'[r] = [op |-> "delete", ids |-> q.ids]
    BY <1>3 DEF CountServerReferencingCertificate, Typed, Requests
  <2>2. request'[r].op = "delete" /\ request'[r].ids = q.ids
    BY <2>1
  <2>3. /\ \A v : ListChildCertificate(v)' = ListChildCertificate(v)
        /\ \A v : ServersReferencing(v)' = ServersReferencing(v)
    BY <1>1 DEF ListChildCertificate, Present, ServersReferencing, RefIds
  <2>4. InOrder(request[r])'
    <3>1. PICK ids : ids = q.ids
      OBVIOUS
    <3>2. \A k \in 1 .. Len(ids) : \A c \in ListChildCertificate(ids[k]) :
            ids[k] \in raced \/ \E j \in 1 .. k - 1 : ids[j] = c
      BY <1>2, <3>1 DEF InOrder
    <3>3. request'[r].ids = ids
      BY <2>2, <3>1
    <3> QED
      BY <1>1, <2>3, <3>2, <3>3 DEF InOrder
  <2>5. Unused(request[r])'
    BY <1>1, <1>2, <1>3, <2>2, <2>3 DEF Unused
  <2> QED
    BY <2>4, <2>5
<1>4. CASE ServersReferencing(q.id) # {}
  BY <1>4 DEF CountServerReferencingCertificate, Ends, Typed, Requests, NoRequest
<1> QED
  BY <1>3, <1>4

LEMMA InitSafe == Init => DeletionInv
<1> SUFFICES ASSUME Init PROVE SafeToDelete /\ NoDangling
  BY InitTyped DEF DeletionInv
<1>1. \A r \in Deleters : request[r].op = "none"
  BY DEF Init, Requests, NoRequest
<1>2. Present = {} /\ \A s \in Servers : RefIds(s) = {}
  BY DEF Init, Present, RefIds
<1> QED
  BY <1>1, <1>2 DEF SafeToDelete, NoDangling

LEMMA NextSafe == DeletionInv /\ [Next]_vars => DeletionInv'
<1> SUFFICES ASSUME DeletionInv, [Next]_vars PROVE SafeToDelete' /\ NoDangling'
  BY NextTyped DEF DeletionInv
<1> USE DEF DeletionInv
<1> DEFINE Calm == raced \subseteq raced' /\ RowsRaced /\ RefsRaced /\ NoDangling'
<1>1. ASSUME Calm, NEW r \in Requests, NEW q, request' = [request EXCEPT ![r] = q],
             r \in Deleters => request'[r].op = "none" \/ (InOrder(request[r]) /\ Unused(request[r]))'
      PROVE  SafeToDelete' /\ NoDangling'
  <2>1. \A d \in Requests : d = r \/ request'[d] = request[d]
    BY <1>1 DEF Typed
  <2>2. \A d \in Deleters : d \in Requests
    BY DEF Requests
  <2> QED
    BY <1>1, <2>1, <2>2, OthersSafe
<1>2. ASSUME Calm, request' = request PROVE SafeToDelete' /\ NoDangling'
  BY <1>2, OthersSafe
<1>3. ASSUME NEW r \in Writers PROVE r \in Requests /\ r \notin Deleters
  BY CertStoreAssumption DEF Requests
<1>4. \A r \in Deleters : r \in Requests
  BY DEF Requests
<1> HIDE DEF Calm
<1>5. ASSUME NEW r \in Writers,
             \/ \E n \in Names, ca \in Present : GenerateCAHandler(r, n, ca)
             \/ \E n \in Names, ca \in Present, usage \in Usages : SignCertificateHandler(r, n, ca, usage)
             \/ \E X \in Foreign, ca \in Present : ImportCertificateHandler(r, X, ca)
             \/ \E s \in Servers, ca, cert \in Present \cup {0} : ValidateCertReferences(r, s, ca, cert)
      PROVE  SafeToDelete' /\ NoDangling'
  <2>1. (\E q : request' = [request EXCEPT ![r] = q]) /\ UNCHANGED <<certs, servers, raced>>
    BY <1>5 DEF GenerateCAHandler, SignCertificateHandler, ImportCertificateHandler, ValidateCertReferences, Starts
  <2>2. Calm
    BY <2>1, RequestSafe DEF Calm
  <2> QED
    BY <1>1, <1>3, <2>1, <2>2
<1>6. ASSUME NEW r \in Writers, InsertGenerated(r) \/ InsertImported(r) PROVE SafeToDelete' /\ NoDangling'
  <2>1. \E row \in Row : CreateCertificate(row)
    BY <1>6, InsertedRow
  <2>2. request' = [request EXCEPT ![r] = NoRequest] /\ servers' = servers
    BY <1>6 DEF InsertGenerated, InsertImported, Ends
  <2>3. Calm
    BY <2>1, <2>2, CreateSafe DEF Calm
  <2> QED
    BY <1>1, <1>3, <2>2, <2>3
<1>7. ASSUME \/ \E n \in Names : GenerateRootCA(n)
             \/ \E X \in Foreign, hasKey \in BOOLEAN : ImportCA(X, hasKey)
      PROVE  SafeToDelete' /\ NoDangling'
  <2>1. (\E row \in Row : CreateCertificate(row)) /\ UNCHANGED <<servers, request>>
    BY <1>7, RootRow DEF GenerateRootCA, ImportCA
  <2>2. Calm
    BY <2>1, CreateSafe DEF Calm
  <2> QED
    BY <1>2, <2>1, <2>2
<1>8. ASSUME NEW r \in Deleters, NEW id \in Present, DeleteCertificateHandler(r, id)
      PROVE  SafeToDelete' /\ NoDangling'
  <2>1. (\E q : request' = [request EXCEPT ![r] = q]) /\ UNCHANGED <<certs, servers, raced>>
    BY <1>8 DEF DeleteCertificateHandler, Starts
  <2>2. Calm
    BY <2>1, RequestSafe DEF Calm
  <2> QED
    BY <1>1, <1>4, <1>8, <2>1, <2>2, BeginSafe
<1>9. ASSUME NEW r \in Deleters, CountServerReferencingCertificate(r) PROVE SafeToDelete' /\ NoDangling'
  <2>1. (\E q : request' = [request EXCEPT ![r] = q]) /\ UNCHANGED <<certs, servers, raced>>
    BY <1>9 DEF CountServerReferencingCertificate, Ends
  <2>2. Calm
    BY <2>1, RequestSafe DEF Calm
  <2> QED
    BY <1>1, <1>4, <1>9, <2>1, <2>2, CountSafe
<1>10. ASSUME NEW r \in Deleters, DeleteCertificate(r) PROVE SafeToDelete' /\ NoDangling'
  <2>1. \E q : request' = [request EXCEPT ![r] = q]
    BY <1>10 DEF DeleteCertificate, Ends
  <2> QED
    BY <1>1, <1>4, <1>10, <2>1, DeleteSafe DEF Calm
<1>11. ASSUME NEW r \in Writers, SaveServer(r) PROVE SafeToDelete' /\ NoDangling'
  <2>1. request' = [request EXCEPT ![r] = NoRequest]
    BY <1>11 DEF SaveServer, Ends
  <2> QED
    BY <1>1, <1>3, <1>11, <2>1, SaveSafe DEF Calm
<1>12. ASSUME NEW s \in Servers, DeleteServer(s) PROVE SafeToDelete' /\ NoDangling'
  <2>1. request' = request
    BY <1>12 DEF DeleteServer
  <2> QED
    BY <1>2, <1>12, <2>1, ServerDeletedSafe DEF Calm
<1>13. ASSUME NEW r \in Requests, RequestFails(r) PROVE SafeToDelete' /\ NoDangling'
  <2>1. request' = [request EXCEPT ![r] = NoRequest] /\ UNCHANGED <<certs, servers, raced>>
    BY <1>13 DEF RequestFails, Ends
  <2>2. request'[r].op = "none"
    BY <2>1 DEF Typed, NoRequest
  <2>3. Calm
    BY <2>1, RequestSafe DEF Calm
  <2> QED
    BY <1>1, <2>1, <2>2, <2>3
<1>14. CASE UNCHANGED vars
  <2>1. Calm
    BY <1>14, RequestSafe DEF Calm, vars
  <2> QED
    BY <1>2, <1>14, <2>1 DEF vars
<1>15. CASE CertificateStep
  BY <1>5, <1>6, <1>7, <1>8, <1>9, <1>10, <1>15 DEF CertificateStep
<1>16. CASE ServerStep
  BY <1>5, <1>11, <1>12, <1>16 DEF ServerStep
<1> QED
  BY <1>13, <1>14, <1>15, <1>16 DEF Next

THEOREM DeletionInvariant == Spec => []DeletionInv
  BY InitSafe, NextSafe, PTL DEF Spec

\* No row and no server is left without the certificate it refers to, at no
\* moment of a deletion nor after one that failed half way, unless it was
\* written while that deletion was under way.
THEOREM NothingDangles == Spec => []NoDangling
<1>1. DeletionInv => NoDangling
  BY DEF DeletionInv
<1> QED
  BY <1>1, DeletionInvariant, PTL

-----------------------------------------------------------------------------
(* The chain that is shown.  A row's parents are earlier rows, so the way  *)
(* up ends; and the walk of the handler follows it row by row, because a   *)
(* stored parent comes before any row that only has the issuer's name.     *)

Top(i) == IsSelfSigned(certs[i].cert) \/ certs[i].parent \notin Present

\* One step of the recursion of Ancestors, and the function it defines.
Up(f, i) == IF IsSelfSigned(certs[i].cert) \/ certs[i].parent \notin Present THEN <<i>>
            ELSE <<i>> \o f[certs[i].parent]

Ups(f) == f = [i \in Present |-> Up(f, i)]

UpsTo(f, k) == \A i \in Present : i < k => f[i] = Up(f, i)

LEMMA UpsHigher ==
  ASSUME TypeOK, NEW k \in Nat, NEW f, UpsTo(f, k)
  PROVE  \E g : UpsTo(g, k + 1) /\ g = [i \in Present |-> Up(f, i)]
<1> DEFINE g == [i \in Present |-> Up(f, i)]
<1>1. ASSUME NEW i \in Present, i < k + 1 PROVE g[i] = Up(g, i)
  <2>1. g[i] = Up(f, i)
    OBVIOUS
  <2>2. ASSUME ~Top(i) PROVE g[certs[i].parent] = f[certs[i].parent]
    <3> DEFINE p == certs[i].parent
    <3>1. p \in Present
      BY <2>2 DEF Top
    <3>2. p < i /\ i \in Int /\ p \in Int
      BY <3>1 DEF TypeOK, Present, Ids
    <3>3. p < k
      BY <1>1, <3>2
    <3>4. f[p] = Up(f, p)
      BY <3>1, <3>3 DEF UpsTo
    <3> QED
      BY <3>1, <3>4
  <2> HIDE DEF g
  <2> QED
    BY <2>1, <2>2 DEF Up, Top
<1> QED
  BY <1>1 DEF UpsTo

LEMMA UpsExists == ASSUME TypeOK PROVE \E f : Ups(f)
<1> DEFINE S == {k \in Nat : \E f : UpsTo(f, k)}
<1>0. \A i \in Present : i \in 1 .. MaxId /\ MaxId \in Nat
  BY CertStoreAssumption DEF Present, Ids
<1>1. \A k \in Nat : k \in S
  <2>1. ASSUME NEW k \in Nat, \A m \in 0 .. k - 1 : m \in S PROVE k \in S
    <3>1. CASE k = 0
      <4>1. UpsTo(<<>>, 0)
        BY <1>0 DEF UpsTo
      <4> QED
        BY <3>1, <4>1
    <3>2. CASE k # 0
      <4>1. k - 1 \in S /\ k - 1 \in Nat
        BY <2>1, <3>2
      <4>2. PICK f : UpsTo(f, k - 1)
        BY <4>1
      <4>3. \E g : UpsTo(g, (k - 1) + 1)
        BY <4>1, <4>2, UpsHigher
      <4> QED
        BY <4>3
    <3> QED
      BY <3>1, <3>2
  <2> HIDE DEF S
  <2> QED
    BY <2>1, Induction
<1>2. MaxId + 1 \in Nat
  BY CertStoreAssumption
<1>3. PICK f : UpsTo(f, MaxId + 1)
  BY <1>1, <1>2
<1>4. PICK g : UpsTo(g, (MaxId + 1) + 1) /\ g = [i \in Present |-> Up(f, i)]
  BY <1>2, <1>3, UpsHigher
<1>5. \A i \in Present : g[i] = Up(g, i)
  BY <1>0, <1>4 DEF UpsTo
<1>6. Ups(g)
  BY <1>4, <1>5 DEF Ups
<1> QED
  BY <1>6

LEMMA AncestorsUp == ASSUME TypeOK, NEW id PROVE \E f : Ups(f) /\ Ancestors(id) = f[id]
<1> DEFINE f == CHOOSE g : Ups(g)
<1>1. Ups(f)
  BY UpsExists
<1>2. Ancestors(id) = f[id]
  BY DEF Ancestors, Ups, Up
<1> QED
  BY <1>1, <1>2

\* A way from a row to the top, parent by parent.
Climbs(a, id) ==
  /\ a \in Seq(Present) /\ Len(a) >= 1 /\ a[1] = id
  /\ \A k \in 1 .. Len(a) - 1 : ~IsSelfSigned(certs[a[k]].cert) /\ certs[a[k]].parent = a[k + 1]
  /\ \A j, k \in 1 .. Len(a) : j < k => a[k] < a[j]

LEMMA StepClimbs ==
  ASSUME TypeOK, NEW f, Ups(f), NEW i \in Present, \A p \in Present : p < i => Climbs(f[p], p)
  PROVE  Climbs(f[i], i)
<1>1. f[i] = Up(f, i)
  BY DEF Ups
<1>2. CASE Top(i)
  <2>1. f[i] = <<i>>
    BY <1>1, <1>2 DEF Up, Top
  <2>2. f[i] \in Seq(Present) /\ Len(f[i]) = 1 /\ f[i][1] = i
    BY <2>1
  <2> QED
    BY <2>2 DEF Climbs
<1>3. CASE ~Top(i)
  <2>1. PICK p \in Present : p = certs[i].parent /\ ~IsSelfSigned(certs[i].cert)
    BY <1>3 DEF Top
  <2>2. p < i /\ i \in Int /\ p \in Int
    BY <2>1 DEF TypeOK, Present, Ids
  <2>3. PICK b : b = f[p]
    OBVIOUS
  <2>4. Climbs(b, p)
    BY <2>2, <2>3
  <2>5. PICK a : a = f[i] /\ a = <<i>> \o b
    BY <1>1, <1>3, <2>1, <2>3 DEF Up, Top
  <2>6. PICK m \in Nat : m = Len(b)
    BY <2>4 DEF Climbs
  <2>7. /\ a \in Seq(Present) /\ Len(a) = m + 1 /\ a[1] = i
        /\ \A k \in 1 .. m : a[k + 1] = b[k]
    BY <2>4, <2>5, <2>6 DEF Climbs
  <2>8. m >= 1 /\ b[1] = p /\ b \in Seq(Present)
    BY <2>4, <2>6 DEF Climbs
  <2>9. ASSUME NEW k \in 1 .. m + 1, k # 1 PROVE k - 1 \in 1 .. m /\ a[k] = b[k - 1]
    <3>1. k - 1 \in 1 .. m /\ (k - 1) + 1 = k
      BY <2>9
    <3> QED
      BY <2>7, <3>1
  <2>10. ASSUME NEW k \in 1 .. m
         PROVE  ~IsSelfSigned(certs[a[k]].cert) /\ certs[a[k]].parent = a[k + 1]
    <3>1. CASE k = 1
      BY <2>1, <2>7, <2>8, <2>10, <3>1
    <3>2. CASE k # 1
      <4>1. k - 1 \in 1 .. m - 1 /\ a[k] = b[k - 1] /\ a[k + 1] = b[(k - 1) + 1]
        BY <2>7, <2>9, <2>10, <3>2
      <4> QED
        BY <2>4, <2>6, <4>1 DEF Climbs
    <3> QED
      BY <3>1, <3>2
  <2>11. ASSUME NEW j \in 1 .. m + 1, NEW k \in 1 .. m + 1, j < k PROVE a[k] < a[j]
    <3>1. k - 1 \in 1 .. m /\ a[k] = b[k - 1]
      BY <2>9, <2>11
    <3>2. b[k - 1] \in Int /\ b[k - 1] <= p
      <4>1. b[k - 1] \in Present
        BY <2>6, <2>8, <3>1
      <4>2. k - 1 = 1 \/ b[k - 1] < b[1]
        <5>1. \A x, y \in 1 .. m : x < y => b[y] < b[x]
          BY <2>4, <2>6 DEF Climbs
        <5>2. 1 \in 1 .. m /\ (k - 1 = 1 \/ 1 < k - 1)
          BY <2>8, <3>1
        <5> QED
          BY <3>1, <5>1, <5>2
      <4> QED
        BY <2>2, <2>8, <4>1, <4>2 DEF Present, Ids
    <3>3. CASE j = 1
      BY <2>2, <2>7, <3>1, <3>2, <3>3
    <3>4. CASE j # 1
      <4>1. j - 1 \in 1 .. m /\ a[j] = b[j - 1] /\ j - 1 < k - 1
        BY <2>9, <2>11, <3>4
      <4> QED
        BY <2>4, <2>6, <3>1, <4>1 DEF Climbs
    <3> QED
      BY <3>3, <3>4
  <2> QED
    BY <2>5, <2>6, <2>7, <2>10, <2>11 DEF Climbs
<1> QED
  BY <1>2, <1>3

LEMMA AncestorsClimb == ASSUME TypeOK, NEW id \in Present PROVE Climbs(Ancestors(id), id)
<1>1. PICK f : Ups(f) /\ Ancestors(id) = f[id]
  BY AncestorsUp
<1> DEFINE S == {d \in Nat : d \in Present => Climbs(f[d], d)}
<1>2. \A d \in Nat : d \in S
  <2>1. ASSUME NEW d \in Nat, \A m \in 0 .. d - 1 : m \in S PROVE d \in S
    <3> SUFFICES ASSUME d \in Present PROVE Climbs(f[d], d)
      OBVIOUS
    <3>1. ASSUME NEW p \in Present, p < d PROVE Climbs(f[p], p)
      <4>1. p \in 0 .. d - 1
        BY <3>1 DEF Present, Ids
      <4> QED
        BY <2>1, <4>1
    <3> QED
      BY <1>1, <3>1, StepClimbs
  <2> HIDE DEF S
  <2> QED
    BY <2>1, Induction
<1>3. id \in Nat
  BY DEF Present, Ids
<1> QED
  BY <1>1, <1>2, <1>3

\* One step of the walk of Chain, and the function it defines.
Walk(f, id, n) ==
  IF n = 1 THEN <<id>>
  ELSE LET c == f[n - 1]
           above == FindParentCertificate(Last(c), ToSet(c))
       IN  IF Len(c) < n - 1 \/ IsSelfSigned(certs[Last(c)].cert) \/ above = 0
           THEN c ELSE Append(c, above)

Depths == 1 .. CertChainMaxDepth

Walks(f, id) == f = [n \in Depths |-> Walk(f, id, n)]

WalksTo(f, id, k) == \A n \in Depths : n < k => f[n] = Walk(f, id, n)

LEMMA WalksFurther ==
  ASSUME NEW id, NEW k \in Nat, NEW f, WalksTo(f, id, k)
  PROVE  \E g : WalksTo(g, id, k + 1) /\ g = [n \in Depths |-> Walk(f, id, n)]
<1> DEFINE g == [n \in Depths |-> Walk(f, id, n)]
<1>1. ASSUME NEW n \in Depths, n < k + 1 PROVE g[n] = Walk(g, id, n)
  <2>1. g[n] = Walk(f, id, n)
    OBVIOUS
  <2>2. n # 1 => g[n - 1] = f[n - 1]
    <3> SUFFICES ASSUME n # 1 PROVE g[n - 1] = f[n - 1]
      OBVIOUS
    <3>1. n - 1 \in Depths /\ n - 1 < k
      BY <1>1, CertStoreAssumption DEF Depths
    <3> QED
      BY <3>1 DEF WalksTo
  <2> HIDE DEF g
  <2> QED
    BY <2>1, <2>2 DEF Walk
<1> QED
  BY <1>1 DEF WalksTo

LEMMA WalksExists == ASSUME NEW id PROVE \E f : Walks(f, id)
<1> DEFINE S == {k \in Nat : \E f : WalksTo(f, id, k)}
<1>1. \A k \in Nat : k \in S
  <2>1. ASSUME NEW k \in Nat, \A m \in 0 .. k - 1 : m \in S PROVE k \in S
    <3>1. CASE k = 0
      <4>1. WalksTo(<<>>, id, 0)
        BY DEF WalksTo, Depths
      <4> QED
        BY <3>1, <4>1
    <3>2. CASE k # 0
      <4>1. k - 1 \in S /\ k - 1 \in Nat
        BY <2>1, <3>2
      <4>2. PICK f : WalksTo(f, id, k - 1)
        BY <4>1
      <4>3. \E g : WalksTo(g, id, (k - 1) + 1)
        BY <4>1, <4>2, WalksFurther
      <4> QED
        BY <4>3
    <3> QED
      BY <3>1, <3>2
  <2> HIDE DEF S
  <2> QED
    BY <2>1, Induction
<1> DEFINE K == CertChainMaxDepth + 1
<1>2. K \in Nat
  BY CertStoreAssumption
<1>3. PICK f : WalksTo(f, id, K)
  BY <1>1, <1>2
<1>4. PICK g : WalksTo(g, id, K + 1) /\ g = [n \in Depths |-> Walk(f, id, n)]
  BY <1>2, <1>3, WalksFurther
<1>5. \A n \in Depths : g[n] = Walk(g, id, n)
  BY CertStoreAssumption, <1>4 DEF WalksTo, Depths
<1>6. Walks(g, id)
  BY <1>4, <1>5 DEF Walks
<1> QED
  BY <1>6

LEMMA ChainWalks ==
  ASSUME NEW id
  PROVE  \E f : Walks(f, id) /\ Chain(id) = f[CertChainMaxDepth]
<1> DEFINE f == CHOOSE g : Walks(g, id)
<1>1. Walks(f, id)
  BY WalksExists
<1>2. Chain(id) = f[CertChainMaxDepth]
  BY DEF Chain, Walks, Walk, Depths
<1> QED
  BY <1>1, <1>2

\* c is the lower part of a, up to n rows.
Lower(c, a, n) ==
  /\ c \in Seq(Present) /\ Len(c) = (IF n <= Len(a) THEN n ELSE Len(a))
  /\ \A k \in 1 .. Len(c) : c[k] = a[k]

\* The walk takes the parent of the row it has come to.
LEMMA WalkStep ==
  ASSUME NEW id, NEW a, Climbs(a, id), IsSelfSigned(certs[Last(a)].cert),
         NEW f, NEW n \in Nat, n >= 1, Lower(f[n], a, n)
  PROVE  Lower(Walk(f, id, n + 1), a, n + 1)
<1>1. PICK c : c = f[n]
  OBVIOUS
<1>2. PICK m \in Nat : m = Len(a)
  BY DEF Climbs
<1>3. /\ a \in Seq(Present) /\ m >= 1
      /\ \A k \in 1 .. m - 1 : ~IsSelfSigned(certs[a[k]].cert) /\ certs[a[k]].parent = a[k + 1]
      /\ \A j, k \in 1 .. m : j < k => a[k] < a[j]
  BY <1>2 DEF Climbs
<1>4. /\ c \in Seq(Present) /\ Len(c) = (IF n <= m THEN n ELSE m)
      /\ \A k \in 1 .. Len(c) : c[k] = a[k]
  BY <1>1, <1>2 DEF Lower
<1>5. \A k \in 1 .. m : a[k] \in Present /\ a[k] \in Int
  BY <1>2, <1>3 DEF Present, Ids
<1> DEFINE above == FindParentCertificate(Last(c), ToSet(c))
<1>6. Walk(f, id, n + 1) = IF Len(c) < n \/ IsSelfSigned(certs[Last(c)].cert) \/ above = 0
                           THEN c ELSE Append(c, above)
  <2>1. (n + 1) - 1 = n /\ n + 1 # 1
    OBVIOUS
  <2> QED
    BY <1>1, <2>1 DEF Walk
<1>7. CASE n >= m
  <2>1. Len(c) = m /\ Last(c) = a[m] /\ Last(a) = a[m]
    BY <1>2, <1>3, <1>4, <1>7 DEF Last
  <2>2. Walk(f, id, n + 1) = c
    BY <1>6, <2>1
  <2> QED
    BY <1>2, <1>4, <1>7, <2>1, <2>2 DEF Lower
<1>8. CASE n < m
  <2>1. Len(c) = n /\ Last(c) = a[n] /\ n \in 1 .. m - 1 /\ n + 1 \in 1 .. m
    BY <1>3, <1>4, <1>8 DEF Last
  <2>2. ~IsSelfSigned(certs[Last(c)].cert) /\ certs[a[n]].parent = a[n + 1] /\ a[n + 1] \in Present
    BY <1>3, <1>5, <2>1
  <2>3. a[n + 1] \notin ToSet(c)
    <3>1. \A k \in 1 .. n : c[k] = a[k] /\ k \in 1 .. m /\ k < n + 1
      BY <1>4, <1>8, <2>1
    <3>2. \A k \in 1 .. n : c[k] # a[n + 1]
      BY <1>3, <1>5, <2>1, <3>1
    <3> QED
      BY <1>4, <2>1, <3>2 DEF ToSet
  <2>4. above = a[n + 1] /\ above # 0
    BY <2>1, <2>2, <2>3 DEF FindParentCertificate, Present, Ids
  <2> DEFINE d == Append(c, a[n + 1])
  <2>5. Walk(f, id, n + 1) = d
    <3>1. ~(Len(c) < n) /\ ~IsSelfSigned(certs[Last(c)].cert) /\ ~(above = 0)
      BY <2>1, <2>2, <2>4
    <3> HIDE DEF above
    <3> QED
      BY <1>6, <2>4, <3>1
  <2>6. d \in Seq(Present) /\ Len(d) = n + 1 /\ d[n + 1] = a[n + 1] /\ \A k \in 1 .. n : d[k] = c[k]
    BY <1>4, <2>1, <2>2
  <2> HIDE DEF d
  <2>7. \A k \in 1 .. n + 1 : d[k] = a[k]
    BY <1>4, <2>1, <2>6
  <2> QED
    BY <1>2, <1>8, <2>5, <2>6, <2>7 DEF Lower
<1> QED
  BY <1>2, <1>7, <1>8

LEMMA ChainClimbs ==
  ASSUME NEW id \in Present, NEW a, Climbs(a, id), IsSelfSigned(certs[Last(a)].cert),
         Len(a) <= CertChainMaxDepth
  PROVE  Chain(id) = a
<1>1. PICK f : Walks(f, id) /\ Chain(id) = f[CertChainMaxDepth]
  BY ChainWalks
<1>2. \A n \in Depths : f[n] = Walk(f, id, n)
  BY <1>1 DEF Walks
<1> DEFINE S == {n \in Nat : n \in Depths => Lower(f[n], a, n)}
<1>3. \A n \in Nat : n \in S
  <2>1. ASSUME NEW n \in Nat, \A m \in 0 .. n - 1 : m \in S PROVE n \in S
    <3> SUFFICES ASSUME n \in Depths PROVE Lower(f[n], a, n)
      OBVIOUS
    <3>1. CASE n = 1
      <4>1. f[n] = <<id>>
        BY <1>2, <3>1 DEF Walk
      <4>2. f[n] \in Seq(Present) /\ Len(f[n]) = 1 /\ f[n][1] = id
        BY <4>1
      <4> QED
        BY <3>1, <4>2 DEF Lower, Climbs
    <3>2. CASE n # 1
      <4>1. n - 1 \in Depths /\ n - 1 \in 0 .. n - 1 /\ (n - 1) + 1 = n /\ n - 1 \in Nat /\ n - 1 >= 1
        BY <3>2, CertStoreAssumption DEF Depths
      <4>2. Lower(f[n - 1], a, n - 1)
        BY <2>1, <4>1
      <4>3. Lower(Walk(f, id, (n - 1) + 1), a, (n - 1) + 1)
        BY <4>1, <4>2, WalkStep
      <4> QED
        BY <1>2, <4>1, <4>3
    <3> QED
      BY <3>1, <3>2
  <2> HIDE DEF S
  <2> QED
    BY <2>1, Induction
<1>4. Lower(Chain(id), a, CertChainMaxDepth)
  BY <1>1, <1>3, CertStoreAssumption DEF Depths
<1>5. PICK c : c = Chain(id)
  OBVIOUS
<1>6. c \in Seq(Present) /\ a \in Seq(Present) /\ Len(c) = Len(a) /\ \A k \in 1 .. Len(c) : c[k] = a[k]
  BY <1>4, <1>5, CertStoreAssumption DEF Lower, Climbs
<1>7. c = a
  BY <1>6
<1> QED
  BY <1>5, <1>7

\* Whatever names CAs share, a row whose parents are stored up to a root is
\* shown with exactly these parents, complete and verified.
THEOREM ChainsAreFound == Spec => []ChainFound
<1>1. SignedInv => ChainFound
  <2> SUFFICES ASSUME SignedInv, NEW i \in Present,
                      IsSelfSigned(certs[Last(Ancestors(i))].cert), Len(Ancestors(i)) <= CertChainMaxDepth
               PROVE  /\ GetCertificateChain(i).chain = Ancestors(i)
                      /\ GetCertificateChain(i).complete /\ GetCertificateChain(i).verified
    BY DEF ChainFound
  <2>1. PICK a : a = Ancestors(i)
    OBVIOUS
  <2>2. Climbs(a, i)
    BY <2>1, AncestorsClimb DEF SignedInv, Typed
  <2>3. Chain(i) = a
    BY <2>1, <2>2, ChainClimbs
  <2>4. ASSUME NEW k \in 1 .. Len(a) - 1
        PROVE  ValidateSignedBy(certs[a[k]].cert, certs[a[k + 1]].cert)
    <3>1. a \in Seq(Present) /\ k \in 1 .. Len(a) /\ k + 1 \in 1 .. Len(a)
      BY <2>2, <2>4 DEF Climbs
    <3>2. a[k] \in Present /\ a[k + 1] \in Present /\ certs[a[k]].parent = a[k + 1]
      BY <2>2, <2>4, <3>1 DEF Climbs
    <3> QED
      BY <3>2 DEF SignedInv, ParentSigned
  <2> QED
    BY <2>1, <2>3, <2>4 DEF GetCertificateChain
<1> QED
  BY <1>1, SignedInvariant, PTL
=============================================================================
