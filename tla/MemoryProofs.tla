---------------------------- MODULE MemoryProofs ----------------------------
(***************************************************************************)
(* What the operators of PhysicalMemory return, for bytes and pages of any *)
(* size.  The interpreter's and the driver's proofs rest on these lemmas.  *)
(***************************************************************************)
EXTENDS PhysicalMemory, FiniteSetTheorems, TLAPS

-----------------------------------------------------------------------------
(* Least numbers (intervals are finite sets, which strict inclusion orders *)
(* well), and loops over 1 .. n as recursive functions.                    *)

LEMMA LeastElement ==
  ASSUME NEW S \in SUBSET Nat, S # {}
  PROVE  \E m \in S : \A n \in S : m <= n
<1> DEFINE Below(n) == 0 .. n - 1
           T == {Below(n) : n \in S}
           R == StrictSubsetOrdering(Nat)
<1>1. T \subseteq FiniteSubsetsOf(Nat)
  <2> SUFFICES ASSUME NEW n \in S PROVE Below(n) \in FiniteSubsetsOf(Nat)
    OBVIOUS
  <2>1. IsFiniteSet(Below(n))
    BY FS_Interval
  <2> QED BY <2>1 DEF FiniteSubsetsOf
<1>2. T # {}
  OBVIOUS
<1>3. IsWellFoundedOn(R, FiniteSubsetsOf(Nat))
  BY FS_StrictSubsetOrderingWellFounded
<1>4. \E x \in T : \A y \in T : ~ (<<y, x>> \in R)
  <2> HIDE DEF T, R
  <2> QED BY <1>1, <1>2, <1>3, WFMin
<1>5. PICK m \in S : \A y \in T : ~ (<<y, Below(m)>> \in R)
  BY <1>4
<1>6. \A n \in S : ~ (<<Below(n), Below(m)>> \in R)
  BY <1>5
<1>7. ASSUME NEW n \in S, n < m PROVE FALSE
  <2>1. Below(n) \subseteq Below(m)
    BY <1>7
  <2>2. n \in Below(m) /\ n \notin Below(n)
    BY <1>7
  <2>3. Below(n) \in SUBSET Nat /\ Below(m) \in SUBSET Nat
    OBVIOUS
  <2>4. Below(n) # Below(m)
    BY <2>2
  <2>5. <<Below(n), Below(m)>> \in R
    <3> HIDE DEF Below
    <3> QED BY <2>1, <2>3, <2>4 DEF StrictSubsetOrdering
  <2> QED BY <2>5, <1>6
<1> QED BY <1>7

LEMMA GreatestElement ==
  ASSUME NEW n \in Nat, NEW S \in SUBSET (1 .. n), S # {}
  PROVE  \E m \in S : \A i \in S : i <= m
<1> DEFINE T == {n - i : i \in S}
<1>1. T \in SUBSET Nat /\ T # {}
  <2>1. \A i \in 1 .. n : n - i \in Nat
    OBVIOUS
  <2> QED BY <2>1
<1>2. PICK k \in T : \A j \in T : k <= j
  <2> HIDE DEF T
  <2> QED BY <1>1, LeastElement
<1>3. PICK m \in S : k = n - m
  BY <1>2
<1>4. ASSUME NEW i \in S PROVE i <= m
  <2>1. n - m <= n - i
    BY <1>2, <1>3
  <2> QED BY <2>1
<1> QED BY <1>4

\* A loop whose body maps S to S runs to its end; g[i] is what it has after i.
IsLoop(g, n, S, start, body) ==
    /\ g \in [0 .. n -> S]
    /\ g[0] = start
    /\ \A i \in 1 .. n : g[i] = body[i][g[i - 1]]

LEMMA LoopRuns ==
  ASSUME NEW n \in Nat, NEW S, NEW start \in S, NEW body, \A i \in 1 .. n : body[i] \in [S -> S]
  PROVE  \E g : IsLoop(g, n, S, start, body)
<1> DEFINE Stuck == {m \in 0 .. n : ~ \E g : IsLoop(g, m, S, start, body)}
<1>1. SUFFICES ASSUME Stuck # {} PROVE FALSE
  <2>1. n \in 0 .. n
    OBVIOUS
  <2> QED BY <2>1, Zenon
<1>2. PICK m \in Stuck : \A k \in Stuck : m <= k
  <2>1. Stuck \in SUBSET Nat
    OBVIOUS
  <2> HIDE DEF Stuck
  <2> QED BY <1>1, <2>1, LeastElement
<1>3. m # 0
  <2>1. IsLoop([i \in {0} |-> start], 0, S, start, body)
    BY DEF IsLoop
  <2> QED BY <1>2, <2>1
<1>4. m \in 1 .. n /\ m - 1 \notin Stuck
  <2>1. m \in 0 .. n
    BY <1>2
  <2> HIDE DEF Stuck
  <2> QED BY <1>2, <1>3, <2>1
<1>5. PICK g : IsLoop(g, m - 1, S, start, body)
  BY <1>4
<1> DEFINE h == [i \in 0 .. m |-> IF i = m THEN body[m][g[m - 1]] ELSE g[i]]
<1>6. IsLoop(h, m, S, start, body)
  <2>1. /\ body[m] \in [S -> S] /\ g[m - 1] \in S /\ g[0] = start
        /\ \A i \in 0 .. m - 1 : g[i] \in S
    BY <1>4, <1>5 DEF IsLoop
  <2>2. h \in [0 .. m -> S] /\ h[0] = start
    BY <1>4, <2>1
  <2>3. ASSUME NEW i \in 1 .. m PROVE h[i] = body[i][h[i - 1]]
    <3>1. CASE i = m
      BY <1>4, <3>1
    <3>2. CASE i # m
      BY <1>4, <1>5, <3>2 DEF IsLoop
    <3> QED BY <3>1, <3>2
  <2> HIDE DEF h
  <2> QED BY <2>2, <2>3 DEF IsLoop
<1> QED BY <1>2, <1>6

\* A property of the start that every iteration keeps holds throughout.
LEMMA KeptThroughout ==
  ASSUME NEW n \in Nat, NEW Kept, 0 \in Kept, \A i \in 1 .. n : i - 1 \in Kept => i \in Kept
  PROVE  0 .. n \subseteq Kept
<1> DEFINE Lost == (0 .. n) \ Kept
<1>1. SUFFICES ASSUME Lost # {} PROVE FALSE
  OBVIOUS
<1>2. PICK m \in Lost : \A k \in Lost : m <= k
  <2>1. Lost \in SUBSET Nat
    OBVIOUS
  <2> HIDE DEF Lost
  <2> QED BY <1>1, <2>1, LeastElement
<1>3. m # 0 /\ m \in 0 .. n
  BY <1>2
<1>4. m \in 1 .. n /\ m - 1 \notin Lost /\ m - 1 \in 0 .. n
  <2> HIDE DEF Lost
  <2> QED BY <1>2, <1>3
<1> QED BY <1>2, <1>4

-----------------------------------------------------------------------------
(* Arithmetic of words.                                                    *)

LEMMA ProductIsNat == \A m, n \in Nat : m * n \in Nat
OBVIOUS

LEMMA ProductIsPositive == \A m, n \in Nat \ {0} : m * n \in Nat \ {0}
OBVIOUS

LEMMA Weights ==
  /\ Weight(0) = 1
  /\ Weight(1) = ByteValues
  /\ Weight(2) = ByteValues * Weight(1)
  /\ Weight(3) = ByteValues * Weight(2)
  /\ Weight(4) = ByteValues * Weight(3)
  /\ \A k \in 0 .. 4 : Weight(k) \in Nat \ {0}
<1> DEFINE B == ByteValues
<1>1. /\ Weight(0) = 1 /\ Weight(1) = B /\ Weight(2) = B * B
      /\ Weight(3) = B * B * B /\ Weight(4) = B * B * B * B
  BY DEF Weight
<1>2. B \in Nat \ {0}
  BY MemoryAssumption
<1> HIDE DEF B
<1>3. B * B \in Nat \ {0}
  BY <1>2, ProductIsPositive
<1>4. B * (B * B) \in Nat \ {0} /\ B * B * B = B * (B * B)
  BY <1>2, <1>3, ProductIsPositive
<1>5. B * (B * (B * B)) \in Nat \ {0} /\ B * B * B * B = B * (B * (B * B))
  BY <1>2, <1>3, <1>4, ProductIsPositive
<1>6. /\ Weight(2) = B * Weight(1) /\ Weight(3) = B * Weight(2) /\ Weight(4) = B * Weight(3)
  BY <1>1, <1>4, <1>5
<1>7. \A k \in 0 .. 4 : k = 0 \/ k = 1 \/ k = 2 \/ k = 3 \/ k = 4
  OBVIOUS
<1>8. \A k \in 0 .. 4 : Weight(k) \in Nat \ {0}
  BY <1>1, <1>2, <1>3, <1>4, <1>5, <1>7
<1> QED BY <1>1, <1>6, <1>8 DEF B

LEMMA WordValuesType == WordValues \in Nat \ {0}
BY Weights DEF WordValues

\* A word holds a whole number of instruction words.
LEMMA WordsFit == WordValues % 4 = 0
<1> DEFINE B == ByteValues
           k == B \div 2
<1>1. k \in Nat /\ B = 2 * k
  BY MemoryAssumption
<1> HIDE DEF k, B
<1>2. B * B = 4 * (k * k)
  BY <1>1
<1>3. B \in Nat /\ Weight(2) = B * B /\ Weight(4) = B * (B * (B * B))
  BY <1>1, Weights DEF B
<1>4. B * (B * (B * B)) = (B * B) * (B * B)
  BY <1>3
<1> DEFINE q == (k * k) * (B * B)
<1>5. q \in Nat /\ WordValues = 4 * q
  BY <1>1, <1>2, <1>3, <1>4 DEF WordValues
<1> HIDE DEF q
<1> QED BY <1>5

LEMMA WrapType ==
  ASSUME NEW n \in Int
  PROVE  Wrap(n) \in Address
BY WordValuesType DEF Wrap, Address

LEMMA WrapIsIdentity ==
  ASSUME NEW n \in Address
  PROVE  Wrap(n) = n
BY WordValuesType DEF Wrap, Address

LEMMA WrapDecomposes ==
  ASSUME NEW n \in Int
  PROVE  \E q \in Int : n = q * WordValues + Wrap(n)
<1>1. n = (n \div WordValues) * WordValues + Wrap(n) /\ n \div WordValues \in Int
  BY WordValuesType DEF Wrap
<1> QED BY <1>1

LEMMA MultipleGrows ==
  ASSUME NEW W \in Nat \ {0}, NEW k \in Int, k >= 1
  PROVE  k * W >= W
<1> DEFINE j == k - 1
<1>1. j \in Nat /\ k = j + 1
  OBVIOUS
<1> HIDE DEF j
<1>2. k * W = j * W + W
  BY <1>1
<1>3. j * W \in Nat
  BY <1>1, ProductIsNat
<1> QED BY <1>2, <1>3

LEMMA RemainderUnique ==
  ASSUME NEW W \in Nat \ {0}, NEW r \in 0 .. W - 1, NEW s \in 0 .. W - 1,
         NEW k \in Int, r = s + k * W
  PROVE  r = s
<1>1. CASE k >= 1
  <2>1. k * W >= W /\ k * W \in Int
    BY <1>1, MultipleGrows
  <2> QED BY <2>1
<1>2. CASE k <= -1
  <2> DEFINE j == -k
  <2>1. j \in Int /\ j >= 1 /\ k = -j
    BY <1>2
  <2> HIDE DEF j
  <2>2. j * W >= W /\ j * W \in Int
    BY <2>1, MultipleGrows
  <2>3. k * W = -(j * W)
    BY <2>1
  <2> QED BY <2>2, <2>3
<1>3. CASE k = 0
  BY <1>3
<1> QED BY <1>1, <1>2, <1>3

\* Whole turns around the address space make no difference.
LEMMA WrapUnique ==
  ASSUME NEW m \in Int, NEW n \in Int, NEW q \in Int, m = n + q * WordValues
  PROVE  Wrap(m) = Wrap(n)
<1> DEFINE W == WordValues
<1>1. W \in Nat \ {0} /\ Wrap(m) \in 0 .. W - 1 /\ Wrap(n) \in 0 .. W - 1
  BY WordValuesType, WrapType DEF Address
<1>2. PICK i \in Int : m = i * W + Wrap(m)
  BY WrapDecomposes
<1>3. PICK j \in Int : n = j * W + Wrap(n)
  BY WrapDecomposes
<1>4. m = n + q * W
  OBVIOUS
<1> HIDE DEF W
<1> DEFINE k == j + q - i
           I == i * W
           J == j * W
           Q == q * W
           r == Wrap(m)
           s == Wrap(n)
<1>5. k \in Int /\ k * W = J + Q - I
  BY <1>1
<1>6. I \in Int /\ J \in Int /\ Q \in Int /\ r \in Int /\ s \in Int
  BY <1>1
<1>7. m = I + r /\ n = J + s /\ m = n + Q
  BY <1>2, <1>3, <1>4
<1> HIDE DEF k, I, J, Q, r, s
<1>8. r = s + k * W
  BY <1>5, <1>6, <1>7
<1>9. r \in 0 .. W - 1 /\ s \in 0 .. W - 1
  BY <1>1 DEF r, s
<1>10. r = s
  BY <1>1, <1>5, <1>8, <1>9, RemainderUnique
<1> QED BY <1>10 DEF r, s

LEMMA WrapSum ==
  ASSUME NEW m \in Int, NEW n \in Int
  PROVE  Wrap(Wrap(m) + n) = Wrap(m + n)
<1>1. PICK q \in Int : m = q * WordValues + Wrap(m)
  BY WrapDecomposes
<1>2. Wrap(m) \in Int /\ WordValues \in Int
  BY WrapType, WordValuesType DEF Address
<1> DEFINE u == m + n
           v == Wrap(m) + n
<1>3. u \in Int /\ v \in Int /\ u = v + q * WordValues
  BY <1>1, <1>2
<1> HIDE DEF u, v
<1>4. Wrap(u) = Wrap(v)
  BY <1>3, WrapUnique
<1> QED BY <1>4 DEF u, v

-----------------------------------------------------------------------------
(* Pages.                                                                  *)

LEMMA PageType ==
  ASSUME NEW a \in Nat
  PROVE  PageOf(a) \in Nat
BY MemoryAssumption DEF PageOf

LEMMA QuotientsInOrder ==
  ASSUME NEW P \in Nat \ {0}, NEW a \in Nat, NEW b \in Nat, a <= b
  PROVE  a \div P <= b \div P
<1> DEFINE i == a \div P
           j == b \div P
<1>1. /\ i \in Nat /\ j \in Nat
      /\ a = i * P + (a % P) /\ b = j * P + (b % P)
      /\ a % P \in 0 .. P - 1 /\ b % P \in 0 .. P - 1
  OBVIOUS
<1> HIDE DEF i, j
<1>2. SUFFICES ASSUME i > j PROVE FALSE
  BY <1>1 DEF i, j
<1> DEFINE k == i - j
<1>3. k \in Int /\ k >= 1 /\ k * P = i * P - j * P /\ i * P \in Int /\ j * P \in Int
  BY <1>1, <1>2
<1> HIDE DEF k
<1>4. k * P >= P
  BY <1>3, MultipleGrows
<1> QED BY <1>1, <1>3, <1>4

LEMMA PagesInOrder ==
  ASSUME NEW a \in Nat, NEW b \in Nat, a <= b
  PROVE  PageOf(a) <= PageOf(b)
BY MemoryAssumption, QuotientsInOrder DEF PageOf

\* Pages are mapped as a whole.
WholePages(D) == D = {a \in Address : \E b \in D : PageOf(a) = PageOf(b)}

\* map_region maps the region up to the end of the address space, by whole pages,
\* and keeps what is mapped.
LEMMA MapRegionEffect ==
  ASSUME NEW mem, NEW addr \in Address, NEW size \in Nat, WholePages(DOMAIN mem),
         \A a \in DOMAIN mem : mem[a] \in Byte
  PROVE  LET m == MapRegion(mem, addr, size)
         IN  /\ DOMAIN mem \subseteq DOMAIN m
             /\ WholePages(DOMAIN m)
             /\ \A a \in DOMAIN m : m[a] \in Byte
             /\ \A a \in DOMAIN mem : m[a] = mem[a]
             /\ \A a \in Address : addr <= a /\ a < addr + size => a \in DOMAIN m
<1> DEFINE last == IF addr + size < WordValues THEN addr + size - 1 ELSE WordValues - 1
           region == {a \in Address : PageOf(a) \in PageOf(addr) .. PageOf(last)}
           m == [a \in DOMAIN mem \cup region |-> IF a \in DOMAIN mem THEN mem[a] ELSE 0]
<1>1. WordValues \in Nat \ {0} /\ addr \in Nat /\ addr < WordValues
  BY WordValuesType DEF Address
<1>2. 0 \in Byte
  BY MemoryAssumption DEF Byte
<1>3. CASE size = 0
  <2>1. MapRegion(mem, addr, size) = mem
    BY <1>3 DEF MapRegion
  <2>2. ~ \E a \in Address : addr <= a /\ a < addr + size
    BY <1>1, <1>3 DEF Address
  <2> QED BY <2>1, <2>2
<1>4. CASE size # 0
  <2>1. MapRegion(mem, addr, size) = m
    BY <1>4 DEF MapRegion
  <2>2. last \in Nat /\ last < WordValues /\ addr <= last
    BY <1>1, <1>4
  <2>3. \A a \in Address : addr <= a /\ a < addr + size => a <= last /\ a \in Nat
    BY <1>1 DEF Address
  <2> HIDE DEF last
  <2>4. \A a \in Address : addr <= a /\ a < addr + size => a \in region
    <3> SUFFICES ASSUME NEW a \in Address, addr <= a, a < addr + size PROVE a \in region
      OBVIOUS
    <3>1. PageOf(addr) <= PageOf(a) /\ PageOf(a) <= PageOf(last)
      BY <1>1, <2>2, <2>3, PagesInOrder
    <3>2. PageOf(addr) \in Nat /\ PageOf(a) \in Nat /\ PageOf(last) \in Nat
      BY <1>1, <2>2, <2>3, PageType
    <3> QED BY <3>1, <3>2
  <2>5. DOMAIN m = DOMAIN mem \cup region
    OBVIOUS
  <2>6. \A a \in DOMAIN m : m[a] = IF a \in DOMAIN mem THEN mem[a] ELSE 0
    OBVIOUS
  <2> HIDE DEF m
  <2>7. WholePages(DOMAIN m)
    <3>1. DOMAIN mem \subseteq Address /\ region \subseteq Address
      BY DEF WholePages
    <3>2. ASSUME NEW a \in Address, NEW b \in DOMAIN m, PageOf(a) = PageOf(b)
          PROVE  a \in DOMAIN m
      <4>1. CASE b \in DOMAIN mem
        BY <3>2, <4>1, <2>5 DEF WholePages
      <4>2. CASE b \in region
        BY <3>2, <4>2, <2>5
      <4> QED BY <4>1, <4>2, <2>5
    <3> HIDE DEF region
    <3> QED BY <3>1, <3>2, <2>5 DEF WholePages
  <2> HIDE DEF region
  <2> QED BY <1>2, <2>1, <2>4, <2>5, <2>6, <2>7
<1> QED BY <1>3, <1>4

-----------------------------------------------------------------------------
(* Accesses.                                                               *)

LEMMA BytesAreAddresses ==
  ASSUME NEW addr \in Address, NEW size \in AccessSize, addr <= WordValues - size
  PROVE  Bytes(addr, size) \subseteq Address
BY WordValuesType DEF Bytes, Address, AccessSize

\* An access does not fault exactly if it is aligned, inside the address space
\* and to mapped bytes; otherwise one of its two traps names an address.
LEMMA AccessFaultCases ==
  ASSUME NEW mem, NEW addr \in Address, NEW size \in AccessSize, NEW misaligned, NEW fault
  PROVE  LET f == AccessFault(mem, addr, size, misaligned, fault)
         IN  \/ /\ f = NoFault
                /\ addr % size = 0
                /\ Bytes(addr, size) \subseteq DOMAIN mem
                /\ Bytes(addr, size) \subseteq Address
             \/ f.cause \in {misaligned, fault} /\ f.value \in Address
<1> DEFINE f == AccessFault(mem, addr, size, misaligned, fault)
           missing == Bytes(addr, size) \ DOMAIN mem
<1>1. CASE addr % size # 0
  BY <1>1 DEF AccessFault, Fault
<1>2. CASE addr % size = 0 /\ addr > WordValues - size
  BY <1>2 DEF AccessFault, Fault
<1>3. CASE addr % size = 0 /\ ~ (addr > WordValues - size)
  <2>1. addr <= WordValues - size
    BY <1>3, WordValuesType DEF Address, AccessSize
  <2>2. Bytes(addr, size) \subseteq Address
    BY <2>1, BytesAreAddresses
  <2>3. CASE missing = {}
    <3>1. Bytes(addr, size) \subseteq DOMAIN mem
      BY <2>3
    <3>2. f = NoFault
      BY <1>3, <3>1 DEF AccessFault
    <3> QED BY <1>3, <2>2, <3>1, <3>2
  <2>4. CASE missing # {}
    <3> DEFINE First(a) == a \in missing /\ \A b \in missing : a <= b
    <3>1. ~ (Bytes(addr, size) \subseteq DOMAIN mem)
      BY <2>4
    <3>2. \E a \in missing : \A b \in missing : a <= b
      <4>1. missing \in SUBSET Nat
        BY <2>2, WordValuesType DEF Address
      <4> HIDE DEF missing
      <4> QED BY <2>4, <4>1, LeastElement
    <3> DEFINE first == CHOOSE a \in missing : \A b \in missing : a <= b
    <3>3. f = Fault(fault, first)
      BY <1>3, <3>1 DEF AccessFault
    <3>4. first \in missing
      <4> HIDE DEF missing
      <4> QED BY <3>2
    <3>5. first \in Address
      BY <3>4, <2>2
    <3> HIDE DEF first
    <3> QED BY <3>3, <3>5 DEF Fault
  <2> QED BY <2>3, <2>4
<1> QED BY <1>1, <1>2, <1>3

LEMMA NextByte ==
  ASSUME NEW W \in Nat \ {0}, NEW v \in 0 .. W - 1, NEW b \in Byte
  PROVE  v + b * W \in 0 .. ByteValues * W - 1
<1> DEFINE c == ByteValues - 1 - b
<1>1. b \in Nat /\ c \in Nat /\ ByteValues = b + c + 1
  BY MemoryAssumption DEF Byte
<1> HIDE DEF c
<1>2. ByteValues * W = b * W + c * W + W
  BY <1>1
<1>3. b * W \in Nat /\ c * W \in Nat
  BY <1>1, ProductIsNat
<1> QED BY <1>2, <1>3

LEMMA FetchedType ==
  ASSUME NEW mem, \A a \in DOMAIN mem : mem[a] \in Byte, NEW addr \in Nat,
         NEW size \in AccessSize, Bytes(addr, size) \subseteq DOMAIN mem
  PROVE  Fetched(mem, addr, size) \in 0 .. Weight(size) - 1
<1>1. \A k \in 0 .. size - 1 : mem[addr + k] \in Byte
  BY DEF Bytes, AccessSize
<1>2. \A k \in 0 .. 4 : Weight(k) \in Nat \ {0}
  BY Weights
<1>3. CASE size = 1
  BY <1>1, <1>3, Weights DEF Fetched, Byte
<1>4. CASE size = 2
  <2>1. mem[addr] \in 0 .. Weight(1) - 1 /\ mem[addr + 1] \in Byte
    BY <1>1, <1>4, Weights DEF Byte
  <2>2. mem[addr] + mem[addr + 1] * Weight(1) \in 0 .. Weight(2) - 1
    BY <2>1, <1>2, NextByte, Weights
  <2>3. Fetched(mem, addr, size) = mem[addr] + mem[addr + 1] * Weight(1)
    BY <1>4, <2>1, <2>2 DEF Fetched
  <2> QED BY <1>4, <2>2, <2>3
<1>5. CASE size = 4
  <2> DEFINE v0 == mem[addr]
             v1 == v0 + mem[addr + 1] * Weight(1)
             v2 == v1 + mem[addr + 2] * Weight(2)
             v3 == v2 + mem[addr + 3] * Weight(3)
  <2>1. /\ v0 \in 0 .. Weight(1) - 1 /\ mem[addr + 1] \in Byte
        /\ mem[addr + 2] \in Byte /\ mem[addr + 3] \in Byte
    BY <1>1, <1>5, Weights DEF Byte
  <2>2. v1 \in 0 .. Weight(2) - 1
    <3> HIDE DEF v0
    <3> QED BY <2>1, <1>2, NextByte, Weights
  <2>3. v2 \in 0 .. Weight(3) - 1
    <3> HIDE DEF v1
    <3> QED BY <2>1, <2>2, <1>2, NextByte, Weights
  <2>4. v3 \in 0 .. Weight(4) - 1
    <3> HIDE DEF v2
    <3> QED BY <2>1, <2>3, <1>2, NextByte, Weights
  <2>5. Fetched(mem, addr, size) = v3
    <3> DEFINE p == mem[addr + 1] * Weight(1)
               q == mem[addr + 2] * Weight(2)
               r == mem[addr + 3] * Weight(3)
    <3>1. Fetched(mem, addr, size) = v0 + p + (q + r)
      BY <1>5 DEF Fetched
    <3>2. v0 \in Int /\ p \in Int /\ q \in Int /\ r \in Int
      BY <2>1, <1>2 DEF Byte
    <3>3. v3 = v0 + p + q + r
      OBVIOUS
    <3> HIDE DEF v0, v3, p, q, r
    <3> QED BY <3>1, <3>2, <3>3
  <2> HIDE DEF v3
  <2> QED BY <1>5, <2>4, <2>5
<1> QED BY <1>3, <1>4, <1>5 DEF AccessSize

LEMMA StoredEffect ==
  ASSUME NEW mem, \A a \in DOMAIN mem : mem[a] \in Byte, NEW addr \in Address,
         NEW size \in AccessSize, NEW value \in Int, DOMAIN mem \subseteq Address
  PROVE  LET m == Stored(mem, addr, size, value)
         IN  /\ DOMAIN m = DOMAIN mem
             /\ \A a \in DOMAIN mem : m[a] \in Byte
             /\ \A a \in DOMAIN mem : a \notin Bytes(addr, size) => m[a] = mem[a]
<1> DEFINE m == Stored(mem, addr, size, value)
<1>1. /\ DOMAIN m = DOMAIN mem
      /\ \A a \in DOMAIN mem :
             m[a] = IF a \in Bytes(addr, size) THEN (value \div Weight(a - addr)) % ByteValues
                    ELSE mem[a]
  BY DEF Stored
<1>2. ASSUME NEW a \in DOMAIN mem, a \in Bytes(addr, size)
      PROVE  (value \div Weight(a - addr)) % ByteValues \in Byte
  <2>1. a - addr \in 0 .. 4
    BY <1>2, WordValuesType DEF Bytes, AccessSize, Address
  <2>2. Weight(a - addr) \in Nat \ {0}
    BY <2>1, Weights
  <2>3. \A w \in Nat \ {0} : value \div w \in Int
    OBVIOUS
  <2>4. \A n \in Int : n % ByteValues \in 0 .. ByteValues - 1
    BY MemoryAssumption
  <2> QED BY <2>2, <2>3, <2>4 DEF Byte
<1> HIDE DEF m
<1> QED BY <1>1, <1>2 DEF m
=============================================================================
