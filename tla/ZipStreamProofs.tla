-------------------------- MODULE ZipStreamProofs --------------------------
(***************************************************************************)
(* Proofs about ZipStream, for every size of the channel, the chunks, the  *)
(* units and the fields: what the thread writes is a series of whole       *)
(* entries and then their directory, and what reaches the client is a      *)
(* prefix of it, the whole only at the end.  TaskFilesProofs applies this  *)
(* to the documents of a task.                                             *)
(***************************************************************************)
EXTENDS ZipStream, DataLemmas

-----------------------------------------------------------------------------
(* Sequences of units and their lengths.                                   *)

Kinds == {"local", "data", "descriptor", "central", "end"}

Units(s) == Listed(s) /\ \A i \in 1..Len(s) : s[i].kind \in Kinds

Sizes(s) == [i \in DOMAIN s |-> UnitSize[s[i].kind]]

LEMMA SizesFacts ==
    ASSUME NEW s, Units(s)
    PROVE  Sizes(s) \in Seq(Nat) /\ Len(Sizes(s)) = Len(s) /\ \A i \in 1..Len(s) : Sizes(s)[i] = UnitSize[s[i].kind]
<1>1. Len(s) \in Nat /\ DOMAIN s = 1..Len(s)
    BY ListedFacts DEF Units
<1>2. \A i \in 1..Len(s) : UnitSize[s[i].kind] \in Nat
    BY ZipAssumption DEF Units, Kinds
<1> QED BY <1>1, <1>2 DEF Sizes

LEMMA UnitsJoin ==
    ASSUME NEW s, NEW t, Units(s), Units(t)
    PROVE  Units(s \o t) /\ Joins(s \o t, s, t)
<1>1. Listed(s) /\ Listed(t) /\ Len(s) \in Nat /\ Len(t) \in Nat
    BY ListedFacts DEF Units
<1>2. Joins(s \o t, s, t)
    BY <1>1, Joining
<1>3. ASSUME NEW i \in 1..Len(s \o t) PROVE (s \o t)[i].kind \in Kinds
    <2>1. CASE i <= Len(s)
        <3>1. i \in 1..Len(s)
            BY <1>1, <2>1
        <3> QED BY <1>2, <3>1 DEF Joins, Units
    <2>2. CASE ~ (i <= Len(s))
        <3>1. i - Len(s) \in 1..Len(t) /\ Len(s) + (i - Len(s)) = i
            BY <1>1, <1>2, <2>2 DEF Joins
        <3>2. (s \o t)[i] = t[i - Len(s)]
            BY <1>2, <3>1 DEF Joins
        <3> QED BY <3>1, <3>2 DEF Units
    <2> QED BY <2>1, <2>2
<1> QED BY <1>2, <1>3 DEF Units, Joins

(* The length of two streams is the sum of theirs. *)
LEMMA LengthOfBoth ==
    ASSUME NEW s, NEW t, Units(s), Units(t)
    PROVE  /\ Length(s) \in Nat /\ Length(t) \in Nat
           /\ Length(s \o t) = Length(s) + Length(t)
<1> DEFINE b == s \o t
<1>1. \A u : Length(u) = SumFunction(Sizes(u))
    BY DEF Length, Sizes
<1>2. /\ Units(b) /\ Joins(b, s, t)
    BY UnitsJoin
<1> HIDE DEF b
<1>3. /\ Sizes(s) \in Seq(Nat) /\ Sizes(t) \in Seq(Nat) /\ Sizes(b) \in Seq(Nat)
      /\ Len(Sizes(s)) = Len(s) /\ Len(Sizes(t)) = Len(t) /\ Len(Sizes(b)) = Len(s) + Len(t)
      /\ Len(s) \in Nat /\ Len(t) \in Nat
    BY <1>2, SizesFacts, ListedFacts DEF Joins, Units
<1>4. Sizes(b) = Sizes(s) \o Sizes(t)
    <2>1. Listed(Sizes(s)) /\ Listed(Sizes(t)) /\ Listed(Sizes(b))
        BY <1>3 DEF Listed
    <2>2. Joins(Sizes(s) \o Sizes(t), Sizes(s), Sizes(t))
        BY <2>1, Joining
    <2>3. Listed(Sizes(s) \o Sizes(t)) /\ Len(Sizes(b)) = Len(Sizes(s) \o Sizes(t))
        BY <1>3, <2>2 DEF Joins
    <2>4. ASSUME NEW i \in 1..Len(Sizes(b)) PROVE Sizes(b)[i] = (Sizes(s) \o Sizes(t))[i]
        <3>1. i \in 1..Len(b) /\ Sizes(b)[i] = UnitSize[b[i].kind]
            BY <1>2, <2>4, SizesFacts
        <3>2. CASE i <= Len(s)
            <4>1. i \in 1..Len(s)
                BY <1>3, <3>2
            <4>2. b[i] = s[i] /\ Sizes(s)[i] = UnitSize[s[i].kind] /\ (Sizes(s) \o Sizes(t))[i] = Sizes(s)[i]
                BY <1>2, <1>3, <2>2, <4>1, SizesFacts DEF Joins
            <4> QED BY <3>1, <4>2
        <3>3. CASE ~ (i <= Len(s))
            <4> DEFINE j == i - Len(s)
            <4>1. j \in 1..Len(t) /\ Len(s) + j = i
                BY <1>2, <1>3, <3>1, <3>3 DEF Joins
            <4> HIDE DEF j
            <4>2. /\ b[Len(s) + j] = t[j] /\ Sizes(t)[j] = UnitSize[t[j].kind]
                  /\ (Sizes(s) \o Sizes(t))[Len(s) + j] = Sizes(t)[j]
                BY <1>2, <1>3, <2>2, <4>1, SizesFacts DEF Joins
            <4> QED BY <3>1, <4>1, <4>2
        <3> QED BY <3>2, <3>3
    <2> QED BY <2>1, <2>3, <2>4, SameList
<1>5. /\ SumFunction(Sizes(s)) \in Nat /\ SumFunction(Sizes(t)) \in Nat
      /\ SumFunction(Sizes(s) \o Sizes(t)) = SumFunction(Sizes(s)) + SumFunction(Sizes(t))
    BY <1>3, SumOfBoth
<1> QED BY <1>1, <1>4, <1>5 DEF b

LEMMA OneUnit ==
    /\ Units(<<>>) /\ Length(<<>>) = 0
    /\ \A u : u.kind \in Kinds => Units(<<u>>) /\ Length(<<u>>) = UnitSize[u.kind] /\ UnitSize[u.kind] \in Nat \ {0}
<1>1. Units(<<>>) /\ \A u : u.kind \in Kinds => Units(<<u>>)
    <2>1. Units(<<>>)
        <3>1. Listed(<<>>) /\ 1..Len(<<>>) = {}
            BY OneListed
        <3> QED BY <3>1 DEF Units
    <2>2. ASSUME NEW u, u.kind \in Kinds PROVE Units(<<u>>)
        <3>1. Listed(<<u>>) /\ Len(<<u>>) = 1 /\ <<u>>[1] = u
            BY OneListed
        <3>2. \A i \in 1..1 : i = 1
            OBVIOUS
        <3> QED BY <2>2, <3>1, <3>2 DEF Units
    <2> QED BY <2>1, <2>2
<1>2. Length(<<>>) = 0
    <2>1. Sizes(<<>>) = <<>>
        BY DEF Sizes
    <2> QED BY <2>1, SumOfOne DEF Length, Sizes
<1>3. ASSUME NEW u, u.kind \in Kinds
      PROVE  Length(<<u>>) = UnitSize[u.kind] /\ UnitSize[u.kind] \in Nat \ {0}
    <2>1. UnitSize[u.kind] \in Nat \ {0}
        BY <1>3, ZipAssumption DEF Kinds
    <2>2. Sizes(<<u>>) = <<UnitSize[u.kind]>>
        BY DEF Sizes
    <2> QED BY <2>1, <2>2, SumOfOne DEF Length, Sizes
<1> QED BY <1>1, <1>2, <1>3

-----------------------------------------------------------------------------
(* Series of whole entries.                                                *)

(* The units after a, up to b, are those of one entry. *)
WholeEntry(B, a, b) ==
    /\ a + 2 <= b
    /\ B[a + 1] = Local(B[a + 1].name, B[a + 1].src)
    /\ \A i \in a + 2..b - 1 : B[i] = Data(B[a + 1].name)
    /\ B[b] = Descriptor(B[a + 1].name, b - a - 2)

(* B has m entries; the k-th ends at e[k]. *)
Entries(B, m, e) ==
    /\ Units(B) /\ m \in Nat /\ e \in [0..m -> 0..Len(B)]
    /\ e[0] = 0 /\ e[m] = Len(B)
    /\ \A j, k \in 0..m : j < k => e[j] < e[k]
    /\ \A k \in 1..m : WholeEntry(B, e[k - 1], e[k])

Series(B) == \E m, e : Entries(B, m, e)

(* The files that the entries name. *)
LocalsOf(B) == {i \in 1..Len(B) : B[i].kind = "local"}
NamesIn(B)  == {B[i].name : i \in LocalsOf(B)}
Distinct(B) == \A i, j \in LocalsOf(B) : B[i].name = B[j].name => i = j

LEMMA NoEntries == Series(<<>>) /\ LocalsOf(<<>>) = {} /\ NamesIn(<<>>) = {} /\ Distinct(<<>>)
<1> DEFINE e == [k \in 0..0 |-> 0]
<1>1. Units(<<>>) /\ Len(<<>>) = 0
    BY OneUnit, OneListed
<1>2. Entries(<<>>, 0, e)
    <2>1. e \in [0..0 -> 0..0] /\ e[0] = 0 /\ 1..0 = {} /\ \A j, k \in 0..0 : ~ (j < k)
        OBVIOUS
    <2> HIDE DEF e
    <2> QED BY <1>1, <2>1 DEF Entries
<1>3. LocalsOf(<<>>) = {}
    BY <1>1 DEF LocalsOf
<1> QED BY <1>2, <1>3 DEF Series, NamesIn, Distinct

(* What add_reader writes is one entry. *)
LEMMA EntryUnitsFacts ==
    ASSUME NEW name, NEW src, NEW n \in Nat
    PROVE  LET B == EntryUnits(name, src, n) IN
           /\ Units(B) /\ Len(B) = n + 2
           /\ B[1] = Local(name, src) /\ B[n + 2] = Descriptor(name, n)
           /\ \A i \in 2..n + 1 : B[i] = Data(name)
<1> DEFINE first == <<Local(name, src)>>
           data  == [i \in 1..n |-> Data(name)]
           last  == <<Descriptor(name, n)>>
           front == first \o data
           B     == front \o last
<1>1. EntryUnits(name, src, n) = B
    BY DEF EntryUnits
<1>2. Units(first) /\ Len(first) = 1 /\ first[1] = Local(name, src)
    BY OneUnit, OneListed DEF Local, Kinds
<1>3. Units(last) /\ Len(last) = 1 /\ last[1] = Descriptor(name, n)
    BY OneUnit, OneListed DEF Descriptor, Kinds
<1>4. Units(data) /\ Len(data) = n /\ \A i \in 1..n : data[i] = Data(name)
    <2>1. Listed(data) /\ Len(data) = n
        BY Listing
    <2> QED BY <2>1 DEF Units, Data, Kinds
<1> HIDE DEF first, data, last
<1>5. Units(front) /\ Joins(front, first, data)
    BY <1>2, <1>4, UnitsJoin
<1> HIDE DEF front
<1>6. Units(B) /\ Joins(B, front, last)
    BY <1>3, <1>5, UnitsJoin
<1> HIDE DEF B
<1>7. Len(front) = 1 + n /\ Len(B) = n + 2
    BY <1>2, <1>3, <1>4, <1>5, <1>6 DEF Joins
<1>8. B[1] = Local(name, src)
    <2>1. front[1] = Local(name, src)
        BY <1>2, <1>5 DEF Joins
    <2>2. 1 \in 1..Len(front)
        BY <1>7
    <2> QED BY <1>6, <2>1, <2>2 DEF Joins
<1>9. B[n + 2] = Descriptor(name, n)
    <2>1. B[Len(front) + 1] = last[1]
        BY <1>3, <1>6 DEF Joins
    <2>2. Len(front) + 1 = n + 2
        BY <1>7
    <2> QED BY <1>3, <2>1, <2>2
<1>10. ASSUME NEW i \in 2..n + 1 PROVE B[i] = Data(name)
    <2>1. i \in 1..Len(front) /\ i - 1 \in 1..n /\ 1 + (i - 1) = i
        BY <1>7
    <2>2. B[i] = front[i]
        BY <1>6, <2>1 DEF Joins
    <2>3. front[1 + (i - 1)] = data[i - 1]
        BY <1>2, <1>4, <1>5, <2>1 DEF Joins
    <2> QED BY <1>4, <2>1, <2>2, <2>3
<1> QED BY <1>1, <1>6, <1>7, <1>8, <1>9, <1>10

(* One entry is a series, of one name. *)
LEMMA OneEntry ==
    ASSUME NEW name, NEW src, NEW n \in Nat, NEW B, B = EntryUnits(name, src, n)
    PROVE  Series(B) /\ NamesIn(B) = {name} /\ Distinct(B) /\ \A i \in LocalsOf(B) : B[i] = Local(name, src)
<1>1. /\ Units(B) /\ Len(B) = n + 2
      /\ B[1] = Local(name, src) /\ B[n + 2] = Descriptor(name, n)
      /\ \A i \in 2..n + 1 : B[i] = Data(name)
    BY EntryUnitsFacts
<1> DEFINE e == [k \in 0..1 |-> IF k = 0 THEN 0 ELSE n + 2]
<1>2. Entries(B, 1, e)
    <2>1. /\ e \in [0..1 -> 0..n + 2] /\ e[0] = 0 /\ e[1] = n + 2
          /\ \A j, k \in 0..1 : j < k => e[j] < e[k]
        OBVIOUS
    <2> HIDE DEF e
    <2>2. WholeEntry(B, 0, n + 2)
        <3>1. 0 + 1 = 1 /\ 0 + 2 = 2 /\ 0 + 2 <= n + 2 /\ (n + 2) - 1 = n + 1 /\ (n + 2) - 0 - 2 = n
            OBVIOUS
        <3>2. B[1].name = name /\ B[1].src = src
            BY <1>1 DEF Local
        <3> QED BY <1>1, <3>1, <3>2 DEF WholeEntry
    <2>3. \A k \in 1..1 : e[k - 1] = 0 /\ e[k] = n + 2
        BY <2>1
    <2> QED BY <1>1, <2>1, <2>2, <2>3 DEF Entries
<1>3. LocalsOf(B) = {1}
    <2>1. \A i \in 1..Len(B) : i = 1 \/ i \in 2..n + 1 \/ i = n + 2
        BY <1>1
    <2>2. 1 \in 1..Len(B)
        BY <1>1
    <2> QED BY <1>1, <2>1, <2>2 DEF LocalsOf, Local, Data, Descriptor
<1> QED BY <1>1, <1>2, <1>3 DEF Series, NamesIn, Distinct, Local

LEMMA WholeMoved ==
    ASSUME NEW a \in Nat, NEW b \in Nat, NEW d \in Nat, NEW B, NEW D,
           WholeEntry(B, a, b), \A i \in a + 1..b : D[d + i] = B[i]
    PROVE  WholeEntry(D, d + a, d + b)
<1>1. a + 1 \in a + 1..b /\ b \in a + 1..b /\ d + (a + 1) = (d + a) + 1
    BY DEF WholeEntry
<1>2. D[(d + a) + 1] = B[a + 1] /\ D[d + b] = B[b]
    BY <1>1
<1>3. ASSUME NEW i \in (d + a) + 2..(d + b) - 1 PROVE D[i] = Data(B[a + 1].name)
    <2>1. i - d \in a + 1..b /\ i - d \in a + 2..b - 1 /\ d + (i - d) = i
        OBVIOUS
    <2>2. D[d + (i - d)] = B[i - d]
        BY <2>1
    <2> QED BY <2>1, <2>2 DEF WholeEntry
<1>4. (d + a) + 2 <= d + b /\ (d + b) - (d + a) - 2 = b - a - 2
    BY DEF WholeEntry
<1> QED BY <1>2, <1>3, <1>4 DEF WholeEntry

(* Two series joined are a series, of the files of both. *)
LEMMA EntriesJoin ==
    ASSUME NEW B, NEW m, NEW e, Entries(B, m, e), NEW C, NEW l, NEW g, Entries(C, l, g)
    PROVE  \E h : /\ Entries(B \o C, m + l, h)
                  /\ \A k \in 0..m : h[k] = e[k]
<1> DEFINE D == B \o C
           h == [k \in 0..m + l |-> IF k <= m THEN e[k] ELSE Len(B) + g[k - m]]
<1>1. /\ m \in Nat /\ l \in Nat /\ Units(B) /\ Units(C) /\ e[m] = Len(B) /\ g[0] = 0 /\ e[0] = 0
      /\ g[l] = Len(C) /\ \A k \in 0..m : e[k] \in 0..Len(B)
      /\ \A k \in 0..l : g[k] \in 0..Len(C)
    BY DEF Entries
<1>2. Units(D) /\ Joins(D, B, C)
    BY <1>1, UnitsJoin
<1>3. Len(B) \in Nat /\ Len(C) \in Nat /\ Len(D) = Len(B) + Len(C)
    BY <1>1, <1>2, ListedFacts DEF Units, Joins
<1> HIDE DEF D
<1>4. /\ \A k \in 0..m : h[k] = e[k]
      /\ \A k \in 0..l : h[m + k] = Len(B) + g[k]
    <2>1. \A k \in 0..m : k \in 0..m + l /\ k <= m
        BY <1>1
    <2>2. ASSUME NEW k \in 0..l PROVE h[m + k] = Len(B) + g[k]
        <3>1. m + k \in 0..m + l /\ (m + k) - m = k
            BY <1>1
        <3>2. CASE k = 0
            BY <1>1, <1>3, <3>1, <3>2
        <3>3. CASE k # 0
            BY <1>1, <3>1, <3>3
        <3> QED BY <3>2, <3>3
    <2> QED BY <2>1, <2>2
<1>5. \A k \in 0..m + l : k \in 0..m \/ \E j \in 0..l : k = m + j
    <2>1. ASSUME NEW k \in 0..m + l, k \notin 0..m PROVE k - m \in 0..l /\ k = m + (k - m)
        BY <1>1, <2>1
    <2> QED BY <2>1
<1>6. h \in [0..m + l -> 0..Len(D)]
    <2>1. ASSUME NEW k \in 0..m + l PROVE h[k] \in 0..Len(D)
        <3> HIDE DEF h
        <3>1. CASE k \in 0..m
            <4>1. h[k] = e[k] /\ e[k] \in 0..Len(B)
                BY <1>1, <1>4, <3>1
            <4> QED BY <1>3, <4>1
        <3>2. CASE \E j \in 0..l : k = m + j
            <4>1. PICK j \in 0..l : k = m + j
                BY <3>2
            <4>2. h[k] = Len(B) + g[j] /\ g[j] \in 0..Len(C)
                BY <1>1, <1>4, <4>1
            <4> QED BY <1>3, <4>2
        <3> QED BY <1>5, <3>1, <3>2
    <2> QED BY <2>1
<1> HIDE DEF h
<1>7. h[0] = 0 /\ h[m + l] = Len(D)
    <2>1. 0 \in 0..m /\ l \in 0..l
        BY <1>1
    <2>2. h[0] = e[0] /\ h[m + l] = Len(B) + g[l]
        BY <1>4, <2>1
    <2> QED BY <1>1, <1>3, <2>2
<1>8. ASSUME NEW j \in 0..m + l, NEW k \in 0..m + l, j < k PROVE h[j] < h[k]
    <2>1. CASE k \in 0..m
        <3>1. j \in 0..m
            BY <1>1, <1>8, <2>1
        <3> QED BY <1>4, <1>8, <2>1, <3>1 DEF Entries
    <2>2. ASSUME NEW q \in 0..l, k = m + q PROVE h[j] < h[k]
        <3>1. CASE j \in 0..m /\ j # m
            <4>1. e[j] < e[m] /\ m \in 0..m
                BY <1>1, <3>1 DEF Entries
            <4>2. h[j] = e[j] /\ h[k] = Len(B) + g[q] /\ g[q] \in Nat /\ e[j] \in Nat
                BY <1>1, <1>4, <2>2, <3>1
            <4> QED BY <1>1, <1>3, <4>1, <4>2
        <3>2. ASSUME NEW p \in 0..l, j = m + p PROVE h[j] < h[k]
            <4>1. p < q
                BY <1>1, <1>8, <2>2, <3>2
            <4>2. g[p] < g[q]
                BY <4>1 DEF Entries
            <4>3. h[j] = Len(B) + g[p] /\ h[k] = Len(B) + g[q] /\ g[p] \in Nat /\ g[q] \in Nat
                BY <1>1, <1>4, <2>2, <3>2, SMTT(20)
            <4> QED BY <1>3, <4>2, <4>3
        <3>3. j = m => j = m + 0 /\ 0 \in 0..l
            BY <1>1
        <3> QED BY <1>5, <3>1, <3>2, <3>3
    <2> QED BY <1>5, <2>1, <2>2
<1>9. ASSUME NEW k \in 1..m + l PROVE WholeEntry(D, h[k - 1], h[k])
    <2>1. CASE k \in 1..m
        <3>1. k \in 0..m /\ k - 1 \in 0..m
            BY <1>1, <2>1
        <3>2. WholeEntry(B, e[k - 1], e[k]) /\ e[k - 1] \in 0..Len(B) /\ e[k] \in 0..Len(B)
            BY <1>1, <2>1, <3>1 DEF Entries
        <3>3. \A i \in e[k - 1] + 1..e[k] : D[0 + i] = B[i]
            <4>1. \A i \in e[k - 1] + 1..e[k] : i \in 1..Len(B) /\ 0 + i = i
                BY <1>3, <3>2
            <4> QED BY <1>2, <4>1 DEF Joins
        <3>4. e[k - 1] \in Nat /\ e[k] \in Nat
            BY <1>3, <3>2
        <3>5. WholeEntry(D, 0 + e[k - 1], 0 + e[k])
            BY <3>2, <3>3, <3>4, WholeMoved, 0 \in Nat
        <3>6. h[k - 1] = 0 + e[k - 1] /\ h[k] = 0 + e[k]
            BY <1>4, <3>1, <3>4
        <3> QED BY <3>5, <3>6
    <2>2. CASE k \notin 1..m
        <3> DEFINE q == k - m
        <3>1. q \in 1..l /\ q \in 0..l /\ q - 1 \in 0..l /\ k = m + q /\ k - 1 = m + (q - 1)
            BY <1>1, <2>2
        <3> HIDE DEF q
        <3>2. WholeEntry(C, g[q - 1], g[q]) /\ g[q - 1] \in 0..Len(C) /\ g[q] \in 0..Len(C)
            BY <1>1, <3>1 DEF Entries
        <3>3. \A i \in g[q - 1] + 1..g[q] : D[Len(B) + i] = C[i]
            <4>1. \A i \in g[q - 1] + 1..g[q] : i \in 1..Len(C)
                BY <1>3, <3>2
            <4> QED BY <1>2, <4>1 DEF Joins
        <3>4. g[q - 1] \in Nat /\ g[q] \in Nat
            BY <1>3, <3>2
        <3>5. WholeEntry(D, Len(B) + g[q - 1], Len(B) + g[q])
            BY <1>3, <3>2, <3>3, <3>4, WholeMoved
        <3>6. h[k - 1] = Len(B) + g[q - 1] /\ h[k] = Len(B) + g[q]
            BY <1>4, <3>1
        <3> QED BY <3>5, <3>6
    <2> QED BY <2>1, <2>2
<1>10. Entries(D, m + l, h)
    <2>1. m + l \in Nat
        BY <1>1
    <2> QED BY <1>2, <1>6, <1>7, <1>8, <1>9, <2>1 DEF Entries
<1> QED BY <1>4, <1>10 DEF D

LEMMA SeriesJoin ==
    ASSUME NEW B, NEW C, Series(B), Series(C)
    PROVE  Series(B \o C)
<1>1. PICK m, e, l, g : Entries(B, m, e) /\ Entries(C, l, g)
    BY DEF Series
<1>2. \E h : Entries(B \o C, m + l, h)
    BY <1>1, EntriesJoin
<1> QED BY <1>2 DEF Series

(* The files of two streams joined. *)
LEMMA NamesJoin ==
    ASSUME NEW B, NEW C, Units(B), Units(C)
    PROVE  /\ LocalsOf(B \o C) = LocalsOf(B) \cup {Len(B) + i : i \in LocalsOf(C)}
           /\ NamesIn(B \o C) = NamesIn(B) \cup NamesIn(C)
           /\ Distinct(B) /\ Distinct(C) /\ NamesIn(B) \cap NamesIn(C) = {} => Distinct(B \o C)
<1> DEFINE D == B \o C
<1>1. /\ Joins(D, B, C) /\ Len(B) \in Nat /\ Len(C) \in Nat /\ Len(D) = Len(B) + Len(C)
    BY UnitsJoin, ListedFacts DEF Units, Joins
<1> HIDE DEF D
<1>2. \A i \in 1..Len(D) : i \in 1..Len(B) \/ \E j \in 1..Len(C) : i = Len(B) + j
    <2>1. ASSUME NEW i \in 1..Len(D), i \notin 1..Len(B) PROVE i - Len(B) \in 1..Len(C) /\ i = Len(B) + (i - Len(B))
        BY <1>1, <2>1
    <2> QED BY <2>1
<1>3. /\ \A i \in 1..Len(B) : i \in 1..Len(D) /\ D[i] = B[i]
      /\ \A j \in 1..Len(C) : Len(B) + j \in 1..Len(D) /\ D[Len(B) + j] = C[j]
    <2>1. /\ \A i \in 1..Len(B) : i \in 1..Len(D)
          /\ \A j \in 1..Len(C) : Len(B) + j \in 1..Len(D)
        BY <1>1
    <2> QED BY <1>1, <2>1 DEF Joins
<1>4. LocalsOf(D) = LocalsOf(B) \cup {Len(B) + i : i \in LocalsOf(C)}
    <2>1. ASSUME NEW i \in LocalsOf(D) PROVE i \in LocalsOf(B) \cup {Len(B) + k : k \in LocalsOf(C)}
        <3>1. CASE i \in 1..Len(B)
            BY <1>3, <3>1 DEF LocalsOf
        <3>2. ASSUME NEW j \in 1..Len(C), i = Len(B) + j PROVE i \in {Len(B) + k : k \in LocalsOf(C)}
            <4>1. j \in LocalsOf(C)
                BY <1>3, <3>2 DEF LocalsOf
            <4> QED BY <3>2, <4>1
        <3> QED BY <1>2, <3>1, <3>2 DEF LocalsOf
    <2>2. LocalsOf(B) \subseteq LocalsOf(D)
        BY <1>3 DEF LocalsOf
    <2>3. \A k \in LocalsOf(C) : Len(B) + k \in LocalsOf(D)
        BY <1>3 DEF LocalsOf
    <2> QED BY <2>1, <2>2, <2>3
<1>5. /\ \A i \in LocalsOf(B) : D[i] = B[i] /\ B[i].name \in NamesIn(B)
      /\ \A i \in LocalsOf(C) : D[Len(B) + i] = C[i] /\ C[i].name \in NamesIn(C)
    BY <1>3 DEF LocalsOf, NamesIn
<1>6. NamesIn(D) = NamesIn(B) \cup NamesIn(C)
    <2>1. \A x \in NamesIn(D) : x \in NamesIn(B) \cup NamesIn(C)
        BY <1>4, <1>5 DEF NamesIn
    <2>2. \A i \in LocalsOf(B) : B[i].name \in NamesIn(D)
        BY <1>4, <1>5 DEF NamesIn
    <2>3. \A i \in LocalsOf(C) : C[i].name \in NamesIn(D)
        BY <1>4, <1>5 DEF NamesIn
    <2>4. NamesIn(B) \subseteq NamesIn(D) /\ NamesIn(C) \subseteq NamesIn(D)
        BY <2>2, <2>3 DEF NamesIn
    <2> QED BY <2>1, <2>4
<1>7. ASSUME Distinct(B), Distinct(C), NamesIn(B) \cap NamesIn(C) = {}
      PROVE  Distinct(D)
    <2> SUFFICES ASSUME NEW i \in LocalsOf(D), NEW j \in LocalsOf(D), D[i].name = D[j].name PROVE i = j
        BY DEF Distinct
    <2>1. CASE i \in LocalsOf(B) /\ j \in LocalsOf(B)
        BY <1>5, <1>7, <2>1 DEF Distinct
    <2>2. ASSUME NEW p \in LocalsOf(C), NEW q \in LocalsOf(C), i = Len(B) + p, j = Len(B) + q PROVE i = j
        BY <1>5, <1>7, <2>2 DEF Distinct
    <2>3. ASSUME NEW p \in LocalsOf(B), NEW q \in LocalsOf(C) PROVE D[p].name # D[Len(B) + q].name
        BY <1>5, <1>7
    <2> QED BY <1>4, <2>1, <2>2, <2>3
<1> QED BY <1>4, <1>6, <1>7 DEF D

(* Every unit of a series is in one of its entries, which begins it. *)
LEMMA EntryOf ==
    ASSUME NEW B, NEW m, NEW e, Entries(B, m, e), NEW i \in 1..Len(B)
    PROVE  \E k \in 1..m : i \in e[k - 1] + 1..e[k]
<1> DEFINE T == {k \in 0..m : i <= e[k]}
<1>1. m \in Nat /\ Len(B) \in Nat /\ e[0] = 0 /\ e[m] = Len(B) /\ \A k \in 0..m : e[k] \in 0..Len(B)
    BY ListedFacts DEF Entries, Units
<1>2. T \in SUBSET Nat /\ m \in T
    BY <1>1
<1>3. PICK k \in T : \A q \in T : k <= q
    <2> HIDE DEF T
    <2> QED BY <1>2, LeastNumber
<1>4. k # 0 /\ k \in 0..m /\ i <= e[k]
    BY <1>1, <1>3
<1>5. k \in 1..m /\ k - 1 \in 0..m /\ ~ (k <= k - 1)
    BY <1>1, <1>4
<1>6. k - 1 \notin T
    <2> HIDE DEF T
    <2> QED BY <1>3, <1>5
<1>7. ~ (i <= e[k - 1]) /\ e[k - 1] \in Nat /\ e[k] \in Nat
    BY <1>1, <1>5, <1>6
<1> QED BY <1>4, <1>5, <1>7

LEMMA LocalsOfEntries ==
    ASSUME NEW B, NEW m, NEW e, Entries(B, m, e)
    PROVE  /\ LocalsOf(B) = {e[k - 1] + 1 : k \in 1..m}
           /\ \A i \in 1..Len(B) : B[i].kind \in {"local", "data", "descriptor"}
           /\ \A k \in 1..m : /\ e[k - 1] \in Nat /\ e[k] \in 1..Len(B) /\ e[k - 1] + 1 \in 1..Len(B)
                              /\ e[k - 1] + 2 <= e[k]
<1>1. m \in Nat /\ Len(B) \in Nat /\ \A k \in 0..m : e[k] \in 0..Len(B)
    BY ListedFacts DEF Entries, Units
<1>2. ASSUME NEW k \in 1..m
      PROVE  /\ WholeEntry(B, e[k - 1], e[k]) /\ e[k - 1] \in Nat /\ e[k] \in 1..Len(B)
             /\ e[k - 1] + 1 \in 1..Len(B) /\ e[k - 1] + 2 <= e[k]
    <2>1. k \in 0..m /\ k - 1 \in 0..m
        BY <1>1
    <2>2. WholeEntry(B, e[k - 1], e[k]) /\ e[k - 1] \in 0..Len(B) /\ e[k] \in 0..Len(B)
        BY <1>1, <2>1 DEF Entries
    <2>3. e[k - 1] + 2 <= e[k]
        BY <2>2 DEF WholeEntry
    <2> QED BY <1>1, <2>2, <2>3
<1>3. ASSUME NEW k \in 1..m, NEW i \in e[k - 1] + 1..e[k]
      PROVE  B[i].kind \in {"local", "data", "descriptor"} /\ (B[i].kind = "local" <=> i = e[k - 1] + 1)
    <2>1. e[k - 1] \in Nat /\ e[k] \in Nat
        BY <1>1, <1>2
    <2>2. i = e[k - 1] + 1 \/ i \in e[k - 1] + 2..e[k] - 1 \/ i = e[k]
        BY <2>1
    <2>3. e[k] # e[k - 1] + 1
        BY <1>2, <2>1
    <2> DEFINE a == e[k - 1]
               b == e[k]
    <2>0. WholeEntry(B, a, b)
        BY <1>2
    <2> HIDE DEF a, b
    <2>4. B[a + 1].kind = "local"
        BY <2>0 DEF WholeEntry, Local
    <2>5. B[b].kind = "descriptor"
        BY <2>0 DEF WholeEntry, Descriptor
    <2> USE DEF a, b
    <2>6. CASE i \in e[k - 1] + 2..e[k] - 1
        <3>1. B[i].kind = "data"
            <4> HIDE DEF a, b
            <4>1. i \in a + 2..b - 1
                BY <2>6 DEF a, b
            <4>2. B[i] = Data(B[a + 1].name)
                BY <2>0, <4>1 DEF WholeEntry
            <4> QED BY <4>2 DEF Data
        <3>2. i # e[k - 1] + 1
            BY <2>1, <2>6
        <3> QED BY <3>1, <3>2
    <2> QED BY <2>2, <2>3, <2>4, <2>5, <2>6
<1>4. \A i \in 1..Len(B) : \E k \in 1..m : i \in e[k - 1] + 1..e[k]
    BY EntryOf
<1>5. ASSUME NEW i \in LocalsOf(B) PROVE i \in {e[k - 1] + 1 : k \in 1..m}
    BY <1>3, <1>4 DEF LocalsOf
<1>6. ASSUME NEW k \in 1..m PROVE e[k - 1] + 1 \in LocalsOf(B)
    <2>1. e[k - 1] + 1 \in e[k - 1] + 1..e[k]
        BY <1>1, <1>2
    <2> QED BY <1>2, <1>3, <2>1 DEF LocalsOf
<1>7. \A i \in 1..Len(B) : B[i].kind \in {"local", "data", "descriptor"}
    BY <1>3, <1>4
<1> QED BY <1>2, <1>5, <1>6, <1>7

LEMMA EntryRead ==
    ASSUME NEW B, Units(B), NEW a \in Nat, NEW b \in 1..Len(B), WholeEntry(B, a, b)
    PROVE  SubSeq(B, a + 1, b) = EntryUnits(B[a + 1].name, B[a + 1].src, B[b].pieces)
<1> DEFINE n == b - a - 2
           name == B[a + 1].name
           src == B[a + 1].src
           E == EntryUnits(name, src, n)
           p == SubSeq(B, a + 1, b)
<1>1. Listed(B) /\ Len(B) \in Nat /\ a + 2 <= b
    BY ListedFacts DEF Units, WholeEntry
<1>2. n \in Nat /\ a + 1 \in 1..Len(B) + 1 /\ b \in ((a + 1) - 1)..Len(B) /\ b - (a + 1) + 1 = n + 2
    BY <1>1
<1>3. Part(p, B, a + 1, b)
    BY <1>1, <1>2, Cutting
<1>4. /\ Units(E) /\ Len(E) = n + 2
      /\ E[1] = Local(name, src) /\ E[n + 2] = Descriptor(name, n)
      /\ \A i \in 2..n + 1 : E[i] = Data(name)
    <2> HIDE DEF n, name, src
    <2> QED BY <1>2, EntryUnitsFacts
<1>5. B[b].pieces = n
    BY DEF WholeEntry, Descriptor
<1>6. ASSUME NEW i \in 1..n + 2 PROVE p[i] = E[i]
    <2>1. p[i] = B[a + i]
        <3>1. p[i] = B[(a + 1) + i - 1] /\ (a + 1) + i - 1 = a + i
            BY <1>2, <1>3 DEF Part
        <3> QED BY <3>1
    <2>2. CASE i = 1
        BY <1>4, <2>1, <2>2 DEF WholeEntry
    <2>3. CASE i = n + 2
        <3>1. a + i = b
            BY <1>1, <2>3
        <3> QED BY <1>4, <2>1, <2>3, <3>1 DEF WholeEntry
    <2>4. CASE i \in 2..n + 1
        <3>1. a + i \in a + 2..b - 1
            BY <1>1, <2>4
        <3> QED BY <1>4, <2>1, <2>4, <3>1 DEF WholeEntry
    <2>5. i = 1 \/ i = n + 2 \/ i \in 2..n + 1
        BY <1>2
    <2> QED BY <2>2, <2>3, <2>4, <2>5
<1>7. Listed(p) /\ Listed(E) /\ Len(p) = Len(E) /\ Len(p) = n + 2
    BY <1>2, <1>3, <1>4 DEF Part, Units
<1> HIDE DEF p, E, n, name, src
<1>8. p = E
    BY <1>6, <1>7, SameList
<1> QED BY <1>5, <1>8 DEF p, E, name, src

-----------------------------------------------------------------------------
(* A series and its directory are an archive.                              *)

(* The entries that are whole when the first c are. *)
Directory(B, e, c) ==
    [k \in 1..c |-> [name |-> B[e[k - 1] + 1].name, offset |-> Length(SubSeq(B, 1, e[k - 1]))]]

LEMMA DirectoryFacts ==
    ASSUME NEW m \in Nat, Len(entries) = m, DOMAIN entries = 1..m
    PROVE  /\ Units(DirectoryUnits) /\ Len(DirectoryUnits) = m + 1
           /\ \A k \in 1..m : DirectoryUnits[k] = [kind |-> "central", name |-> entries[k].name,
                                                   offset |-> entries[k].offset]
           /\ DirectoryUnits[m + 1] = [kind |-> "end", count |-> m, offset |-> position]
<1> DEFINE listed == [k \in 1..m |-> [kind |-> "central", name |-> entries[k].name, offset |-> entries[k].offset]]
           end == [kind |-> "end", count |-> m, offset |-> position]
<1>1. DirectoryUnits = listed \o <<end>>
    BY DEF DirectoryUnits
<1>2. Units(listed) /\ Len(listed) = m
    <2>1. Listed(listed) /\ Len(listed) = m
        BY Listing
    <2> QED BY <2>1 DEF Units, Kinds
<1>3. Units(<<end>>) /\ Len(<<end>>) = 1 /\ <<end>>[1] = end
    BY OneUnit, OneListed DEF Kinds
<1>4. Units(listed \o <<end>>) /\ Joins(listed \o <<end>>, listed, <<end>>)
    BY <1>2, <1>3, UnitsJoin
<1>5. \A k \in 1..m : (listed \o <<end>>)[k] = listed[k]
    BY <1>2, <1>4 DEF Joins
<1>6. (listed \o <<end>>)[m + 1] = end
    BY <1>2, <1>3, <1>4 DEF Joins
<1> QED BY <1>1, <1>2, <1>3, <1>4, <1>5, <1>6 DEF Joins

LEMMA ArchiveWhole ==
    ASSUME NEW B, NEW m, NEW e, Entries(B, m, e), Distinct(B),
           entries = Directory(B, e, m), position = Length(B)
    PROVE  IsArchive(B \o DirectoryUnits, NamesIn(B))
<1> DEFINE D == DirectoryUnits
           T == B \o D
           n == Len(B)
<1>1. m \in Nat /\ n \in Nat /\ Units(B) /\ Listed(B) /\ e[0] = 0
    BY ListedFacts DEF Entries, Units
<1>2. /\ DOMAIN entries = 1..m /\ Len(entries) = m
      /\ \A k \in 1..m : entries[k] = [name |-> B[e[k - 1] + 1].name, offset |-> Length(SubSeq(B, 1, e[k - 1]))]
    BY <1>1 DEF Directory
<1>3. /\ Units(D) /\ Len(D) = m + 1
      /\ \A k \in 1..m : D[k] = [kind |-> "central", name |-> entries[k].name, offset |-> entries[k].offset]
      /\ D[m + 1] = [kind |-> "end", count |-> m, offset |-> position]
    BY <1>1, <1>2, DirectoryFacts
<1> HIDE DEF D
<1>4. Units(T) /\ Joins(T, B, D) /\ Len(T) = n + m + 1 /\ DOMAIN T = 1..Len(T)
    <2>1. Units(T) /\ Joins(T, B, D)
        BY <1>1, <1>3, UnitsJoin
    <2>2. DOMAIN T = 1..Len(T)
        BY <2>1, ListedFacts DEF Units
    <2> QED BY <1>1, <1>3, <2>1, <2>2 DEF Joins
<1>5. \A a \in 1..n + 1, b \in 0..n : b >= a - 1 => SubSeq(T, a, b) = SubSeq(B, a, b)
    <2>1. ASSUME NEW a \in 1..n + 1, NEW b \in 0..n, b >= a - 1 PROVE SubSeq(T, a, b) = SubSeq(B, a, b)
        <3>1. b \in (a - 1)..Len(B) /\ a \in 1..Len(B) + 1 /\ Listed(D)
            BY <1>1, <1>3, <2>1 DEF Units
        <3> QED BY <1>1, <3>1, CuttingJoined
    <2> QED BY <2>1
<1>6. /\ \A i \in 1..n : T[i] = B[i]
      /\ \A k \in 1..m : T[n + k] = [kind |-> "central", name |-> B[e[k - 1] + 1].name,
                                     offset |-> Length(SubSeq(B, 1, e[k - 1]))]
      /\ T[n + (m + 1)] = [kind |-> "end", count |-> m, offset |-> Length(B)]
    <2>1. \A i \in 1..n : T[i] = B[i]
        BY <1>4 DEF Joins
    <2>2. \A k \in 1..m + 1 : T[n + k] = D[k]
        BY <1>3, <1>4 DEF Joins
    <2>3. \A k \in 1..m : k \in 1..m + 1
        BY <1>1
    <2>4. m + 1 \in 1..m + 1
        BY <1>1
    <2>5. \A k \in 1..m : T[n + k] = [kind |-> "central", name |-> B[e[k - 1] + 1].name,
                                      offset |-> Length(SubSeq(B, 1, e[k - 1]))]
        BY <1>2, <1>3, <2>2, <2>3
    <2> QED BY <1>3, <2>1, <2>2, <2>4, <2>5
<1> HIDE DEF T
<1>6a. /\ \A k \in 1..m : /\ T[n + k].kind = "central" /\ T[n + k].name = B[e[k - 1] + 1].name
                           /\ T[n + k].offset = Length(SubSeq(B, 1, e[k - 1]))
       /\ T[n + (m + 1)].kind = "end"
    <2>2. ASSUME NEW k \in 1..m
          PROVE  /\ T[n + k].kind = "central" /\ T[n + k].name = B[e[k - 1] + 1].name
                 /\ T[n + k].offset = Length(SubSeq(B, 1, e[k - 1]))
        <3> DEFINE c == T[n + k]
                   name == B[e[k - 1] + 1].name
                   offset == Length(SubSeq(B, 1, e[k - 1]))
        <3>1. c = [kind |-> "central", name |-> name, offset |-> offset]
            BY <1>6
        <3> HIDE DEF c, name, offset
        <3>2. c.kind = "central" /\ c.name = name /\ c.offset = offset
            BY <3>1
        <3> QED BY <3>2 DEF c, name, offset
    <2>3. T[n + (m + 1)].kind = "end"
        BY <1>6
    <2> QED BY <2>2, <2>3
<1>7. \A i \in 1..Len(T) : i \in 1..n \/ (\E k \in 1..m : i = n + k) \/ i = n + (m + 1)
    <2>1. ASSUME NEW i \in 1..Len(T), i \notin 1..n, i # n + (m + 1) PROVE i - n \in 1..m /\ i = n + (i - n)
        BY <1>1, <1>4, <2>1
    <2> QED BY <2>1
<1>8. /\ LocalsOf(B) = {e[k - 1] + 1 : k \in 1..m}
      /\ \A i \in 1..n : B[i].kind \in {"local", "data", "descriptor"}
      /\ \A k \in 1..m : /\ e[k - 1] \in Nat /\ e[k] \in 1..n /\ e[k - 1] + 1 \in 1..n
                         /\ e[k - 1] + 2 <= e[k]
    BY LocalsOfEntries
<1> DEFINE Of(kind) == {i \in DOMAIN T : T[i].kind = kind}
           At(i)    == Length(SubSeq(T, 1, i - 1))
           end      == T[Len(T)]
           first    == Len(T) - end.count
           Lists(c, i) == T[c].name = T[i].name /\ T[c].offset = At(i)
<1>9. Of("local") = LocalsOf(B)
    <2>1. ASSUME NEW i \in Of("local") PROVE i \in LocalsOf(B)
        <3>1. i \notin {n + k : k \in 1..m} /\ i # n + (m + 1)
            BY <1>6a
        <3> QED BY <1>4, <1>6, <1>7, <3>1 DEF LocalsOf
    <2>2. ASSUME NEW i \in LocalsOf(B) PROVE i \in Of("local")
        <3>1. i \in 1..Len(T)
            BY <1>1, <1>4 DEF LocalsOf
        <3> QED BY <1>4, <1>6, <3>1 DEF LocalsOf
    <2> QED BY <2>1, <2>2
<1>10. end = [kind |-> "end", count |-> m, offset |-> Length(B)] /\ first = n + 1
    <2>1. Len(T) = n + (m + 1)
        BY <1>1, <1>4
    <2>2. end = [kind |-> "end", count |-> m, offset |-> Length(B)]
        BY <1>6, <2>1
    <2> QED BY <1>1, <1>4, <2>2
<1>11. Of("central") = n + 1..n + m
    <2>1. ASSUME NEW i \in Of("central") PROVE i \in n + 1..n + m
        <3>1. i \notin 1..n /\ i # n + (m + 1)
            BY <1>6, <1>8
        <3>2. PICK k \in 1..m : i = n + k
            BY <1>4, <1>7, <3>1
        <3> QED BY <1>1, <3>2
    <2>2. ASSUME NEW i \in n + 1..n + m PROVE i \in Of("central")
        <3>1. i - n \in 1..m /\ n + (i - n) = i /\ i \in 1..Len(T)
            BY <1>1, <1>4
        <3>2. T[n + (i - n)].kind = "central"
            <4> HIDE DEF n
            <4> QED BY <1>6a, <3>1
        <3> QED BY <1>4, <3>1, <3>2
    <2> QED BY <2>1, <2>2
<1>12. \A p \in 0..n : At(p + 1) = Length(SubSeq(B, 1, p))
    <2>1. ASSUME NEW p \in 0..n PROVE SubSeq(T, 1, (p + 1) - 1) = SubSeq(B, 1, p)
        <3>1. (p + 1) - 1 = p /\ p >= 1 - 1 /\ 1 \in 1..n + 1
            BY <1>1
        <3> QED BY <1>5, <3>1
    <2> QED BY <2>1
<1>13. ASSUME NEW k \in 1..m
       PROVE  /\ n + k \in Of("central") /\ e[k - 1] + 1 \in Of("local")
              /\ Lists(n + k, e[k - 1] + 1)
    <2>1. n + k \in Of("central")
        <3>1. n + k \in n + 1..n + m
            BY <1>1
        <3> HIDE DEF Of
        <3> QED BY <1>11, <3>1
    <2>2. e[k - 1] + 1 \in Of("local")
        BY <1>8, <1>9
    <2>3. T[n + k].name = B[e[k - 1] + 1].name /\ T[n + k].offset = Length(SubSeq(B, 1, e[k - 1]))
        BY <1>6a
    <2>4. e[k - 1] \in 0..n /\ e[k - 1] + 1 \in 1..n
        <3>1. e[k - 1] \in Nat /\ e[k - 1] + 1 \in 1..n
            BY <1>8
        <3> HIDE DEF n
        <3> QED BY <1>1, <3>1
    <2>5. At(e[k - 1] + 1) = Length(SubSeq(B, 1, e[k - 1]))
        BY <1>12, <2>4
    <2>6. T[e[k - 1] + 1] = B[e[k - 1] + 1]
        BY <1>6, <2>4
    <2> QED BY <2>1, <2>2, <2>3, <2>5, <2>6
<1>14. ASSUME NEW i \in 1..first - 1
       PROVE  \E l \in Of("local"), k \in Of("descriptor") :
                 l <= i /\ i <= k /\ SubSeq(T, l, k) = EntryUnits(T[l].name, T[l].src, T[k].pieces)
    <2>1. i \in 1..n
        BY <1>1, <1>10
    <2>2. PICK k \in 1..m : i \in e[k - 1] + 1..e[k]
        BY <2>1, EntryOf
    <2> DEFINE a == e[k - 1]
               b == e[k]
    <2>3. a \in Nat /\ b \in 1..n /\ a + 1 \in 1..n /\ a + 2 <= b /\ WholeEntry(B, a, b)
        BY <1>8 DEF Entries
    <2>4. SubSeq(B, a + 1, b) = EntryUnits(B[a + 1].name, B[a + 1].src, B[b].pieces)
        <3> HIDE DEF a, b
        <3> QED BY <1>1, <2>3, EntryRead
    <2>5. SubSeq(T, a + 1, b) = SubSeq(B, a + 1, b)
        <3>1. b \in 0..n /\ a + 1 \in 1..n + 1 /\ b >= (a + 1) - 1
            BY <1>1, <2>3, SMTT(20)
        <3> HIDE DEF a, b
        <3> QED BY <1>5, <3>1
    <2>6. T[a + 1] = B[a + 1] /\ T[b] = B[b]
        BY <1>6, <2>3
    <2>7. a + 1 \in Of("local")
        BY <1>8, <1>9
    <2>8. b \in Of("descriptor")
        <3> HIDE DEF a, b
        <3>1. b \in 1..Len(T)
            BY <1>1, <1>4, <2>3
        <3>2. T[b].kind = "descriptor"
            BY <2>3, <2>6 DEF WholeEntry, Descriptor
        <3> QED BY <1>4, <3>1, <3>2
    <2>9. a + 1 <= i /\ i <= b
        BY <1>1, <2>2, <2>3
    <2> HIDE DEF a, b, Of
    <2> QED BY <2>4, <2>5, <2>6, <2>7, <2>8, <2>9
<1>15. T # <<>> /\ first \in DOMAIN T /\ end.offset = At(first)
    <2>1. At(n + 1) = Length(SubSeq(B, 1, n))
        BY <1>1, <1>12
    <2>2. SubSeq(B, 1, n) = B
        <3>1. PICK S : B \in Seq(S)
            BY <1>1 DEF Listed
        <3> QED BY <3>1, SubSeqFull
    <2>3. n + 1 \in 1..Len(T) /\ Len(T) # 0
        BY <1>1, <1>4
    <2>4. T # <<>>
        BY <1>4, <2>3, ListedFacts DEF Units
    <2> HIDE DEF end, At
    <2> QED BY <1>4, <1>10, <2>1, <2>2, <2>3, <2>4
<1>16. /\ {T[i].name : i \in Of("local")} = NamesIn(B)
       /\ \A i, j \in Of("local") : T[i].name = T[j].name => i = j
    <2>1. \A i \in LocalsOf(B) : T[i] = B[i]
        BY <1>6 DEF LocalsOf
    <2> HIDE DEF Of
    <2> QED BY <1>9, <2>1 DEF NamesIn, Distinct
<1>17. \A c \in Of("central") : \E i \in Of("local") : Lists(c, i)
    <2> SUFFICES ASSUME NEW c \in Of("central") PROVE \E i \in Of("local") : Lists(c, i)
        OBVIOUS
    <2>1. c - n \in 1..m /\ n + (c - n) = c
        <3>1. c \in n + 1..n + m
            <4> HIDE DEF Of
            <4> QED BY <1>11
        <3> QED BY <1>1, <3>1
    <2> HIDE DEF Of, Lists
    <2> QED BY <1>13, <2>1
<1>18. \A i \in Of("local") : \E c \in Of("central") : Lists(c, i)
    <2> HIDE DEF Of, Lists
    <2> QED BY <1>8, <1>9, <1>13
<1>19. Of("central") = first..Len(T) - 1
    <2>1. n + 1..n + m = first..Len(T) - 1
        BY <1>1, <1>4, <1>10
    <2> HIDE DEF Of, first
    <2> QED BY <1>11, <2>1
<1>20. IsArchive(T, NamesIn(B))
    <2>1. end.kind = "end"
        BY <1>10
    <2>2. IsArchive(T, NamesIn(B)) =
            (/\ T # <<>> /\ end.kind = "end" /\ first \in DOMAIN T /\ end.offset = At(first)
             /\ {T[i].name : i \in Of("local")} = NamesIn(B)
             /\ \A i, j \in Of("local") : T[i].name = T[j].name => i = j
             /\ \A i \in 1..first - 1 : \E l \in Of("local"), k \in Of("descriptor") :
                   l <= i /\ i <= k /\ SubSeq(T, l, k) = EntryUnits(T[l].name, T[l].src, T[k].pieces)
             /\ Of("central") = first..Len(T) - 1
             /\ \A c \in Of("central") : \E i \in Of("local") : Lists(c, i)
             /\ \A i \in Of("local") : \E c \in Of("central") : Lists(c, i))
        BY Zenon DEF IsArchive
    <2> HIDE DEF end, first, Of, At, Lists
    <2> QED BY <1>14, <1>15, <1>16, <1>17, <1>18, <1>19, <2>1, <2>2
<1> QED BY <1>20 DEF T, D

-----------------------------------------------------------------------------
(* What the thread has written, W, against what it still has to do.        *)

(* While entries are added, what is written and what is left of the        *)
(* document at hand is a series of entries, of which those whose end is    *)
(* written are in the directory, with their offsets.                       *)
Adding(W) ==
    /\ position = Length(W)
    /\ \E m, e : \E c \in 0..m :
          /\ Entries(W \o todo, m, e)
          /\ e[c] <= Len(W) /\ (c < m => Len(W) < e[c + 1])
          /\ entries = Directory(W \o todo, e, c)
          /\ e[c] < Len(W) => header = Length(SubSeq(W \o todo, 1, e[c]))

AllSent == \A i \in 1..Len(channel) : channel[i].ok

(* A thread that adds entries, writes the directory, or is through without *)
(* an error has written, or will have, an archive of the files in want.    *)
Progress(W, want) ==
    /\ Units(W) /\ Units(todo)
    /\ thread = "adding" => Adding(W) /\ NamesIn(W \o todo) = want /\ Distinct(W \o todo)
    /\ thread = "finishing" => IsArchive(W \o todo, want)
    /\ thread = "ended" /\ AllSent => IsArchive(W, want)

(* A unit moves from what is left to what is written. *)
LEMMA Moving ==
    ASSUME NEW W, Units(W), Units(todo), todo # <<>>
    PROVE  LET V == W \o <<Head(todo)>> IN
           /\ Units(V) /\ Units(Tail(todo)) /\ V \o Tail(todo) = W \o todo
           /\ Len(V) = Len(W) + 1 /\ Len(V) \in 1..Len(W \o todo)
           /\ (W \o todo)[Len(V)] = Head(todo) /\ Head(todo).kind \in Kinds
           /\ Length(V) = Length(W) + UnitSize[Head(todo).kind]
<1> DEFINE u == Head(todo)
           rest == Tail(todo)
<1>1. /\ Listed(todo) /\ Listed(W) /\ Len(todo) \in Nat /\ Len(todo) # 0 /\ Len(W) \in Nat
    BY ListedFacts DEF Units
<1>2. /\ Listed(rest) /\ todo = <<u>> \o rest /\ Len(rest) = Len(todo) - 1
      /\ u = todo[1] /\ \A i \in 1..Len(todo) - 1 : rest[i] = todo[i + 1]
    BY <1>1, Splitting
<1>3. u.kind \in Kinds
    BY <1>1, <1>2 DEF Units
<1>4. Units(rest)
    <2>1. ASSUME NEW i \in 1..Len(rest) PROVE rest[i].kind \in Kinds
        <3>1. i \in 1..Len(todo) - 1 /\ i + 1 \in 1..Len(todo)
            BY <1>1, <1>2
        <3> QED BY <1>2, <3>1 DEF Units
    <2> QED BY <1>2, <2>1 DEF Units
<1> HIDE DEF u, rest
<1>5. Units(<<u>>) /\ Length(<<u>>) = UnitSize[u.kind] /\ Listed(<<u>>) /\ Len(<<u>>) = 1
    BY <1>3, OneUnit, OneListed
<1>6. Units(W \o <<u>>) /\ Joins(W \o <<u>>, W, <<u>>)
    BY <1>5, UnitsJoin
<1>7. (W \o <<u>>) \o rest = W \o todo
    BY <1>1, <1>2, <1>5, JoinLaws
<1>8. Len(W \o <<u>>) = Len(W) + 1
    BY <1>5, <1>6 DEF Joins
<1>9. Joins(W \o todo, W, todo)
    BY <1>1, Joining
<1>10. Len(W) + 1 \in 1..Len(W \o todo) /\ (W \o todo)[Len(W) + 1] = u
    <2>1. Len(W \o todo) = Len(W) + Len(todo) /\ 1 \in 1..Len(todo)
        BY <1>1, <1>9 DEF Joins
    <2>2. (W \o todo)[Len(W) + 1] = todo[1]
        BY <1>9, <2>1 DEF Joins
    <2> QED BY <1>1, <1>2, <2>1, <2>2
<1>11. Length(W \o <<u>>) = Length(W) + UnitSize[u.kind]
    BY <1>5, LengthOfBoth
<1> QED BY <1>3, <1>4, <1>6, <1>7, <1>8, <1>10, <1>11 DEF u, rest

LEMMA DirectoryGrows ==
    ASSUME NEW B, NEW e, NEW c \in Nat
    PROVE  Append(Directory(B, e, c), [name |-> B[e[c] + 1].name, offset |-> Length(SubSeq(B, 1, e[c]))])
             = Directory(B, e, c + 1)
<1> DEFINE d == Directory(B, e, c)
           next == Directory(B, e, c + 1)
           x == [name |-> B[e[c] + 1].name, offset |-> Length(SubSeq(B, 1, e[c]))]
           item == [k \in 1..c + 1 |-> [name |-> B[e[k - 1] + 1].name, offset |-> Length(SubSeq(B, 1, e[k - 1]))]]
<1>1. d = [k \in 1..c |-> item[k]] /\ next = [k \in 1..c + 1 |-> item[k]]
    BY DEF Directory
<1>2. item[c + 1] = x
    <2>1. c + 1 \in 1..c + 1 /\ (c + 1) - 1 = c
        OBVIOUS
    <2> QED BY <2>1
<1> HIDE DEF d, next, x, item
<1>3. Listed(d) /\ Listed(next) /\ Len(d) = c /\ Len(next) = c + 1
    <2>1. d \in Seq({item[k] : k \in 1..c}) /\ next \in Seq({item[k] : k \in 1..c + 1})
        BY <1>1
    <2>2. Len(d) = c /\ Len(next) = c + 1
        BY <1>1
    <2> QED BY <2>1, <2>2 DEF Listed
<1>4. /\ Listed(Append(d, x)) /\ Len(Append(d, x)) = c + 1
      /\ \A k \in 1..c : Append(d, x)[k] = d[k]
      /\ Append(d, x)[c + 1] = x
    <2>1. PICK S : d \in Seq(S)
        BY <1>3 DEF Listed
    <2>2. d \in Seq(S \cup {x}) /\ x \in S \cup {x}
        BY <2>1
    <2>3. Append(d, x) \in Seq(S \cup {x})
        BY <2>2
    <2>4. Listed(Append(d, x))
        BY <2>3 DEF Listed
    <2> QED BY <1>3, <2>2, <2>4
<1>5. ASSUME NEW k \in 1..c + 1 PROVE Append(d, x)[k] = next[k]
    <2>1. k = c + 1 \/ k \in 1..c
        OBVIOUS
    <2>2. next[k] = item[k] /\ (k \in 1..c => d[k] = item[k])
        BY <1>1
    <2> QED BY <1>2, <1>4, <2>1, <2>2
<1>6. Append(d, x) = next
    BY <1>3, <1>4, <1>5, SameList
<1> QED BY <1>6 DEF d, next, x

(* write_counted keeps the account of what is written. *)
LEMMA AddingStep ==
    ASSUME NEW W, NEW V, Units(W), Units(todo), todo # <<>>, V = W \o <<Head(todo)>>,
           Adding(W), Counted(Head(todo)), todo' = Tail(todo)
    PROVE  Adding(V)'
<1> DEFINE u == Head(todo)
           B == W \o todo
           p == Len(V)
<1>1. /\ Units(V) /\ V \o todo' = B /\ p = Len(W) + 1 /\ p \in 1..Len(B)
      /\ B[p] = u /\ u.kind \in Kinds /\ Length(V) = Length(W) + UnitSize[u.kind]
    BY Moving
<1>2. Len(W) \in Nat /\ Len(B) \in Nat
    BY <1>1, ListedFacts DEF Units
<1>3. PICK m, e : \E c \in 0..m :
          /\ Entries(B, m, e)
          /\ e[c] <= Len(W) /\ (c < m => Len(W) < e[c + 1])
          /\ entries = Directory(B, e, c)
          /\ e[c] < Len(W) => header = Length(SubSeq(B, 1, e[c]))
    BY DEF Adding
<1>4. PICK c \in 0..m :
          /\ Entries(B, m, e)
          /\ e[c] <= Len(W) /\ (c < m => Len(W) < e[c + 1])
          /\ entries = Directory(B, e, c)
          /\ e[c] < Len(W) => header = Length(SubSeq(B, 1, e[c]))
    BY <1>3
<1>5. m \in Nat /\ e[m] = Len(B) /\ \A k \in 0..m : e[k] \in 0..Len(B)
    BY <1>4 DEF Entries
<1>6. /\ position' = position + UnitSize[u.kind]
      /\ header' = IF u.kind = "local" THEN position ELSE header
      /\ entries' = IF u.kind # "descriptor" THEN entries
                    ELSE Append(entries, [name |-> u.name, offset |-> header])
    BY DEF Counted
<1>7. position' = Length(V) /\ position = Length(W)
    BY <1>1, <1>6 DEF Adding
<1>8. SubSeq(B, 1, Len(W)) = W
    <2>1. /\ Listed(W) /\ Listed(todo) /\ 1 \in 1..Len(W) + 1 /\ Len(W) \in (1 - 1)..Len(W)
        BY <1>2 DEF Units
    <2>2. SubSeq(B, 1, Len(W)) = SubSeq(W, 1, Len(W))
        BY <2>1, CuttingJoined
    <2>3. PICK S : W \in Seq(S)
        BY <2>1 DEF Listed
    <2> QED BY <2>2, <2>3, SubSeqFull
<1> HIDE DEF u, B, p
<1>9. c < m /\ c + 1 \in 1..m /\ c + 1 \in 0..m
    <2>1. c # m
        BY <1>1, <1>2, <1>4, <1>5
    <2> QED BY <1>5, <2>1
<1> DEFINE a == e[c]
           b == e[c + 1]
<1>10. /\ WholeEntry(B, a, b) /\ a \in Nat /\ b \in Nat /\ a <= Len(W) /\ Len(W) < b
    <2>1. WholeEntry(B, e[(c + 1) - 1], e[c + 1])
        BY <1>4, <1>9 DEF Entries
    <2>2. (c + 1) - 1 = c
        BY <1>5
    <2> QED BY <1>4, <1>5, <1>9, <2>1, <2>2
<1>11. a + 2 <= b
    BY <1>10 DEF WholeEntry
<1> HIDE DEF a, b
<1> DEFINE Kept(d) == /\ e[d] <= p /\ (d < m => p < e[d + 1])
                      /\ entries' = Directory(B, e, d)
                      /\ e[d] < p => header' = Length(SubSeq(B, 1, e[d]))
<1>12. \E d \in 0..m : Kept(d)
    <2>1. CASE p = a + 1
        <3>1. u.kind = "local"
            <4>1. B[a + 1] = Local(B[a + 1].name, B[a + 1].src)
                BY <1>10 DEF WholeEntry
            <4> QED BY <1>1, <2>1, <4>1 DEF Local
        <3>2. Len(W) = a
            BY <1>1, <1>2, <1>10, <2>1
        <3>3. entries' = entries /\ header' = Length(SubSeq(B, 1, a))
            BY <1>6, <1>7, <1>8, <3>1, <3>2
        <3>4. a <= p /\ p < b
            BY <1>10, <1>11, <2>1
        <3>5. Kept(c)
            BY <1>4, <3>3, <3>4 DEF a, b
        <3> HIDE DEF Kept
        <3> QED BY <3>5
    <2>2. CASE p \in a + 2..b - 1
        <3>1. u = Data(B[a + 1].name)
            BY <1>1, <1>10, <2>2 DEF WholeEntry
        <3>2. u.kind = "data"
            BY <3>1 DEF Data
        <3>3. entries' = entries /\ header' = header
            BY <1>6, <3>2
        <3>4. a <= p /\ p < b /\ a < Len(W)
            BY <1>1, <1>2, <1>10, <2>2
        <3>5. Kept(c)
            BY <1>4, <3>3, <3>4 DEF a, b
        <3> HIDE DEF Kept
        <3> QED BY <3>5
    <2>3. CASE p = b
        <3>1. u = Descriptor(B[a + 1].name, b - a - 2)
            BY <1>1, <1>10, <2>3 DEF WholeEntry
        <3>2. u.kind = "descriptor" /\ u.name = B[a + 1].name
            BY <3>1 DEF Descriptor
        <3>3. a < Len(W)
            BY <1>1, <1>2, <1>10, <1>11, <2>3
        <3>4. entries' = Append(Directory(B, e, c), [name |-> B[a + 1].name, offset |-> Length(SubSeq(B, 1, a))])
            BY <1>4, <1>6, <3>2, <3>3 DEF a
        <3>5. entries' = Directory(B, e, c + 1)
            BY <1>5, <3>4, DirectoryGrows DEF a
        <3>6. c + 1 < m => p < e[(c + 1) + 1]
            <4>1. c + 1 < m => (c + 1) + 1 \in 0..m /\ c + 1 < (c + 1) + 1
                BY <1>5, <1>9
            <4>2. c + 1 < m => e[c + 1] < e[(c + 1) + 1]
                BY <1>4, <1>9, <4>1 DEF Entries
            <4> QED BY <2>3, <4>2 DEF b
        <3>7. Kept(c + 1)
            BY <1>10, <2>3, <3>5, <3>6 DEF b
        <3> HIDE DEF Kept
        <3> QED BY <1>9, <3>7
    <2>4. p = a + 1 \/ p \in a + 2..b - 1 \/ p = b
        BY <1>1, <1>2, <1>10
    <2> QED BY <2>1, <2>2, <2>3, <2>4
<1>13. PICK d \in 0..m : Kept(d)
    BY <1>12
<1>14. /\ position' = Length(V) /\ Entries(V \o todo', m, e)
       /\ e[d] <= Len(V) /\ (d < m => Len(V) < e[d + 1])
       /\ entries' = Directory(V \o todo', e, d)
       /\ e[d] < Len(V) => header' = Length(SubSeq(V \o todo', 1, e[d]))
    BY <1>1, <1>4, <1>7, <1>13 DEF p
<1>15. (position = Length(V))' <=> position' = Length(V)
    BY DEF Length
<1>16. \E d1 \in 0..m : /\ Entries(V \o todo', m, e)
                       /\ e[d1] <= Len(V) /\ (d1 < m => Len(V) < e[d1 + 1])
                       /\ entries' = Directory(V \o todo', e, d1)
                       /\ e[d1] < Len(V) => header' = Length(SubSeq(V \o todo', 1, e[d1]))
    BY <1>14
<1> QED BY <1>14, <1>16 DEF Adding

-----------------------------------------------------------------------------
(* What has been handed over.                                              *)

(* The client has the first cut[0] units of W, and the i-th item of the    *)
(* channel, unless it is an error, what follows up to cut[i].              *)
Chunks(W, items, have, cut) ==
    /\ Listed(items) /\ cut \in [0..Len(items) -> 0..Len(W)]
    /\ have = SubSeq(W, 1, cut[0])
    /\ \A i \in 1..Len(items) : items[i].ok =>
          /\ cut[i - 1] <= cut[i]
          /\ items[i].units = SubSeq(W, cut[i - 1] + 1, cut[i])

LEMMA LastCut ==
    ASSUME NEW W, NEW items, NEW have, NEW cut, Chunks(W, items, have, cut)
    PROVE  Listed(items) /\ Len(items) \in Nat /\ cut[Len(items)] \in 0..Len(W)
<1>1. Listed(items) /\ Len(items) \in Nat
    BY ListedFacts DEF Chunks
<1>2. Len(items) \in 0..Len(items)
    BY <1>1
<1> QED BY <1>1, <1>2 DEF Chunks

(* What is left of a sequence, when it gets one more element. *)
RestGrows(W, u, V) ==
    \A a \in 0..Len(W) : Append(SubSeq(W, a + 1, Len(W)), u) = SubSeq(V, a + 1, Len(V))

LEMMA CutGrows ==
    ASSUME NEW W, Listed(W), NEW u, NEW V, V = W \o <<u>>
    PROVE  RestGrows(W, u, V)
<1> SUFFICES ASSUME NEW a \in 0..Len(W)
             PROVE  Append(SubSeq(W, a + 1, Len(W)), u) = SubSeq(V, a + 1, Len(V))
    BY DEF RestGrows
<1> DEFINE n == Len(W)
           p == SubSeq(W, a + 1, n)
           q == SubSeq(V, a + 1, Len(V))
           b == p \o <<u>>
<1>1. n \in Nat /\ Listed(<<u>>) /\ Len(<<u>>) = 1 /\ <<u>>[1] = u
    BY ListedFacts, OneListed
<1>2. Joins(V, W, <<u>>)
    BY <1>1, Joining
<1>3. /\ Listed(V) /\ Len(V) = n + 1 /\ V[n + 1] = u /\ \A i \in 1..n : V[i] = W[i]
    <2>1. 1 \in 1..1
        OBVIOUS
    <2> QED BY <1>1, <1>2, <2>1 DEF Joins
<1>4. /\ a + 1 \in 1..n + 1 /\ n \in (a + 1 - 1)..n
      /\ a + 1 \in 1..Len(V) + 1 /\ Len(V) \in (a + 1 - 1)..Len(V)
    BY <1>1, <1>3
<1>5. Part(p, W, a + 1, n) /\ Part(q, V, a + 1, Len(V))
    <2> DEFINE first == a + 1
    <2>1. /\ first \in 1..Len(W) + 1 /\ n \in (first - 1)..Len(W)
          /\ first \in 1..Len(V) + 1 /\ Len(V) \in (first - 1)..Len(V)
        BY <1>3, <1>4
    <2> HIDE DEF first
    <2>2. Part(SubSeq(W, first, n), W, first, n)
        BY <2>1, Cutting
    <2>3. Part(SubSeq(V, first, Len(V)), V, first, Len(V))
        BY <1>3, <2>1, Cutting
    <2> QED BY <2>2, <2>3 DEF first
<1> HIDE DEF p, q
<1>6. Joins(b, p, <<u>>) /\ Append(p, u) = b
    BY <1>1, <1>5, Joining, Appending DEF Part
<1> HIDE DEF b
<1> DEFINE k == n - a
<1>7. /\ k \in Nat /\ n - (a + 1) + 1 = k /\ Len(V) - (a + 1) + 1 = k + 1
      /\ Len(p) = k /\ Len(q) = k + 1 /\ Len(b) = k + 1 /\ Listed(b) /\ Listed(q)
    BY <1>1, <1>3, <1>4, <1>5, <1>6 DEF Part, Joins
<1>8. ASSUME NEW i \in 1..k + 1 PROVE b[i] = q[i]
    <2> DEFINE j == a + 1 + i - 1
    <2>1. q[i] = V[j]
        BY <1>5, <1>7 DEF Part
    <2>2. ASSUME i \in 1..k PROVE b[i] = V[j]
        <3>1. b[i] = p[i] /\ p[i] = W[j]
            BY <1>5, <1>6, <1>7, <2>2 DEF Part, Joins
        <3>2. j \in 1..n
            BY <1>1, <1>7, <2>2
        <3> QED BY <1>3, <3>1, <3>2
    <2>3. ASSUME i = k + 1 PROVE b[i] = V[j]
        <3>1. j = n + 1 /\ 1 \in 1..1
            BY <1>1, <1>7, <2>3
        <3>2. b[k + 1] = u
            BY <1>1, <1>6, <1>7, <3>1 DEF Joins
        <3> QED BY <1>3, <2>3, <3>1, <3>2
    <2>4. i \in 1..k \/ i = k + 1
        BY <1>7
    <2> HIDE DEF j
    <2> QED BY <2>1, <2>2, <2>3, <2>4
<1> QED BY <1>6, <1>7, <1>8, SameList DEF p, q

LEMMA ChunksGrow ==
    ASSUME NEW W, NEW items, NEW have, NEW cut, Chunks(W, items, have, cut),
           Listed(W), NEW u, NEW V, V = W \o <<u>>
    PROVE  Chunks(V, items, have, cut)
<1>1. /\ Listed(<<u>>) /\ Len(<<u>>) = 1 /\ Len(W) \in Nat /\ Len(items) \in Nat
    BY ListedFacts, OneListed DEF Chunks
<1>2. Joins(V, W, <<u>>)
    BY <1>1, Joining
<1>3. Len(V) = Len(W) + 1
    BY <1>1, <1>2 DEF Joins
<1>4. cut \in [0..Len(items) -> 0..Len(V)]
    <2>1. 0..Len(W) \subseteq 0..Len(V)
        BY <1>1, <1>3
    <2> QED BY <2>1 DEF Chunks
<1>5. \A k \in 0..Len(items) : cut[k] \in 0..Len(W)
    BY DEF Chunks
<1>6. have = SubSeq(V, 1, cut[0])
    <2>1. 1 \in 1..Len(W) + 1 /\ cut[0] \in (1 - 1)..Len(W)
        BY <1>1, <1>5
    <2>2. SubSeq(V, 1, cut[0]) = SubSeq(W, 1, cut[0])
        BY <1>1, <2>1, CuttingJoined
    <2> QED BY <2>2 DEF Chunks
<1>7. ASSUME NEW i \in 1..Len(items), items[i].ok
      PROVE  cut[i - 1] <= cut[i] /\ items[i].units = SubSeq(V, cut[i - 1] + 1, cut[i])
    <2>1. cut[i - 1] <= cut[i] /\ items[i].units = SubSeq(W, cut[i - 1] + 1, cut[i])
        BY <1>7 DEF Chunks
    <2>2. i - 1 \in 0..Len(items) /\ i \in 0..Len(items)
        BY <1>1
    <2>3. cut[i - 1] \in 0..Len(W) /\ cut[i] \in 0..Len(W)
        BY <1>5, <2>2
    <2>4. PICK a : a = cut[i - 1] + 1
        OBVIOUS
    <2>5. PICK b : b = cut[i]
        OBVIOUS
    <2>6. a \in 1..Len(W) + 1 /\ b \in (a - 1)..Len(W)
        <3>1. Len(W) \in Nat
            BY <1>1
        <3> QED BY <2>1, <2>3, <2>4, <2>5, <3>1, SMTT(20)
    <2>7. SubSeq(V, a, b) = SubSeq(W, a, b)
        BY <1>1, <2>6, CuttingJoined
    <2> QED BY <2>1, <2>4, <2>5, <2>7
<1> QED BY <1>4, <1>6, <1>7 DEF Chunks

(* flush_buffer: an item follows those in the channel. *)
LEMMA ChunkSent ==
    ASSUME NEW W, NEW items, NEW have, NEW cut, Chunks(W, items, have, cut), Listed(W),
           NEW x, NEW b \in cut[Len(items)]..Len(W),
           x.ok => x.units = SubSeq(W, cut[Len(items)] + 1, b)
    PROVE  \E g : Chunks(W, Append(items, x), have, g) /\ g[Len(Append(items, x))] = b
<1> DEFINE n == Len(items)
           more == Append(items, x)
           g == [k \in 0..n + 1 |-> IF k = n + 1 THEN b ELSE cut[k]]
<1>1. /\ n \in Nat /\ Len(W) \in Nat /\ Listed(items) /\ \A k \in 0..n : cut[k] \in 0..Len(W)
    BY ListedFacts DEF Chunks
<1>2. /\ Listed(more) /\ Len(more) = n + 1 /\ more[n + 1] = x
      /\ \A i \in 1..n : more[i] = items[i]
    <2>1. PICK S : items \in Seq(S)
        BY <1>1 DEF Listed
    <2>2. items \in Seq(S \cup {x}) /\ x \in S \cup {x}
        BY <2>1
    <2>3. more \in Seq(S \cup {x})
        BY <2>2
    <2>4. Listed(more)
        BY <2>3 DEF Listed
    <2> QED BY <2>2, <2>4
<1> HIDE DEF more
<1>3. /\ g[n + 1] = b /\ \A k \in 0..n : g[k] = cut[k]
    BY <1>1
<1>4. g \in [0..n + 1 -> 0..Len(W)]
    <2>1. b \in 0..Len(W)
        BY <1>1
    <2> QED BY <1>1, <2>1
<1> HIDE DEF g
<1>5. have = SubSeq(W, 1, g[0])
    BY <1>1, <1>3 DEF Chunks
<1>6. ASSUME NEW i \in 1..n + 1, more[i].ok
      PROVE  g[i - 1] <= g[i] /\ more[i].units = SubSeq(W, g[i - 1] + 1, g[i])
    <2>1. CASE i = n + 1
        <3>1. i - 1 = n /\ n \in 0..n
            BY <1>1, <2>1
        <3>2. g[i - 1] = cut[n] /\ g[i] = b /\ more[i] = x
            BY <1>2, <1>3, <2>1, <3>1
        <3> QED BY <1>1, <1>6, <3>1, <3>2
    <2>2. CASE i # n + 1
        <3>1. i \in 1..n /\ i \in 0..n /\ i - 1 \in 0..n
            BY <1>1, <2>2
        <3>2. g[i - 1] = cut[i - 1] /\ g[i] = cut[i] /\ more[i] = items[i]
            BY <1>2, <1>3, <3>1
        <3> QED BY <1>6, <3>1, <3>2 DEF Chunks
    <2> QED BY <2>1, <2>2
<1>7. Chunks(W, more, have, g) /\ g[Len(more)] = b
    BY <1>2, <1>3, <1>4, <1>5, <1>6 DEF Chunks
<1> QED BY <1>7 DEF more

(* The body hands the first chunk to the client. *)
LEMMA ChunkReceived ==
    ASSUME NEW W, NEW items, NEW have, NEW cut, Chunks(W, items, have, cut), Listed(W),
           items # <<>>, Head(items).ok
    PROVE  \E g : /\ Chunks(W, Tail(items), have \o Head(items).units, g)
                  /\ g[Len(Tail(items))] = cut[Len(items)]
<1> DEFINE n == Len(items)
           rest == Tail(items)
           g == [k \in 0..n - 1 |-> cut[k + 1]]
<1>1. /\ n \in Nat \ {0} /\ Len(W) \in Nat /\ Listed(items) /\ \A k \in 0..n : cut[k] \in 0..Len(W)
    <2>1. Listed(items) /\ n \in Nat /\ \A k \in 0..n : cut[k] \in 0..Len(W)
        BY ListedFacts DEF Chunks
    <2> QED BY <2>1, Splitting, ListedFacts
<1>2. /\ Listed(rest) /\ Len(rest) = n - 1 /\ Head(items) = items[1]
      /\ \A i \in 1..n - 1 : rest[i] = items[i + 1]
    BY <1>1, Splitting
<1> HIDE DEF rest
<1>3. g \in [0..n - 1 -> 0..Len(W)] /\ \A k \in 0..n - 1 : g[k] = cut[k + 1]
    <2>1. \A k \in 0..n - 1 : k + 1 \in 0..n
        BY <1>1
    <2> QED BY <1>1, <2>1
<1> HIDE DEF g
<1>4. ASSUME NEW i \in 1..n - 1, rest[i].ok
      PROVE  g[i - 1] <= g[i] /\ rest[i].units = SubSeq(W, g[i - 1] + 1, g[i])
    <2>1. i + 1 \in 1..n /\ (i + 1) - 1 = i /\ i - 1 \in 0..n - 1 /\ (i - 1) + 1 = i /\ i \in 0..n - 1
        BY <1>1
    <2>2. g[i - 1] = cut[i] /\ g[i] = cut[i + 1] /\ rest[i] = items[i + 1]
        BY <1>2, <1>3, <2>1
    <2>3. /\ cut[(i + 1) - 1] <= cut[i + 1]
          /\ items[i + 1].units = SubSeq(W, cut[(i + 1) - 1] + 1, cut[i + 1])
        BY <1>4, <2>1, <2>2 DEF Chunks
    <2> QED BY <2>1, <2>2, <2>3
<1>5. have \o Head(items).units = SubSeq(W, 1, g[0])
    <2> DEFINE a == cut[0]
               b == cut[1]
    <2>1. 1 \in 1..n /\ 1 - 1 = 0 /\ 0 \in 0..n - 1 /\ 0 + 1 = 1 /\ 0 \in 0..n /\ 1 \in 0..n
        BY <1>1
    <2>2. /\ have = SubSeq(W, 1, a) /\ items[1].units = SubSeq(W, a + 1, b) /\ a <= b
        <3>1. items[1].ok
            BY <1>2
        <3>2. cut[1 - 1] <= cut[1] /\ items[1].units = SubSeq(W, cut[1 - 1] + 1, cut[1])
            BY <2>1, <3>1 DEF Chunks
        <3> QED BY <2>1, <3>2 DEF Chunks
    <2>3. g[0] = b /\ a \in 0..Len(W) /\ b \in 0..Len(W)
        BY <1>1, <1>3, <2>1
    <2> HIDE DEF a, b
    <2>4. SubSeq(W, 1, a) \o SubSeq(W, a + 1, b) = SubSeq(W, 1, b)
        <3> DEFINE p == SubSeq(W, 1, a)
                   q == SubSeq(W, a + 1, b)
                   r == SubSeq(W, 1, b)
        <3>1. Part(p, W, 1, a) /\ Part(q, W, a + 1, b) /\ Part(r, W, 1, b)
            <4>1. /\ 1 \in 1..Len(W) + 1 /\ a + 1 \in 1..Len(W) + 1
                  /\ a \in (1 - 1)..Len(W) /\ b \in (1 - 1)..Len(W) /\ b \in (a + 1 - 1)..Len(W)
                BY <1>1, <2>2, <2>3
            <4> QED BY <4>1, Cutting
        <3> HIDE DEF p, q, r
        <3>2. /\ Listed(p) /\ Listed(q) /\ Listed(r) /\ Len(p) = a /\ Len(q) = b - a /\ Len(r) = b
            BY <2>2, <2>3, <3>1 DEF Part
        <3>3. Joins(p \o q, p, q)
            BY <3>2, Joining
        <3> DEFINE d == p \o q
        <3> HIDE DEF d
        <3>4. Listed(d) /\ Len(d) = b
            BY <2>3, <3>2, <3>3 DEF Joins, d
        <3>5. ASSUME NEW i \in 1..b PROVE d[i] = r[i]
            <4>1. r[i] = W[i]
                <5>1. i \in 1..b - 1 + 1 /\ 1 + i - 1 = i
                    BY <2>3
                <5> QED BY <3>1, <5>1 DEF Part
            <4>2. CASE i <= a
                <5>1. i \in 1..a /\ i \in 1..a - 1 + 1 /\ 1 + i - 1 = i
                    BY <2>3, <4>2
                <5>2. d[i] = p[i]
                    BY <3>2, <3>3, <5>1 DEF Joins, d
                <5>3. p[i] = W[i]
                    BY <3>1, <5>1 DEF Part
                <5> QED BY <4>1, <5>2, <5>3
            <4>3. CASE ~ (i <= a)
                <5> DEFINE j == i - a
                <5>1. j \in 1..b - a /\ j \in 1..b - (a + 1) + 1 /\ a + 1 + j - 1 = i /\ a + j = i
                    BY <2>3, <4>3
                <5> HIDE DEF j
                <5>2. d[a + j] = q[j]
                    BY <3>2, <3>3, <5>1 DEF Joins, d
                <5>3. q[j] = W[a + 1 + j - 1]
                    BY <3>1, <5>1 DEF Part
                <5> QED BY <4>1, <5>1, <5>2, <5>3
            <4> QED BY <4>2, <4>3
        <3> QED BY <3>2, <3>4, <3>5, SameList DEF p, q, r, d
    <2> QED BY <1>2, <2>2, <2>3, <2>4
<1>6. g[n - 1] = cut[n]
    <2>1. n - 1 \in 0..n - 1 /\ (n - 1) + 1 = n
        BY <1>1
    <2> QED BY <1>3, <2>1
<1>7. Chunks(W, rest, have \o Head(items).units, g) /\ g[Len(rest)] = cut[n]
    BY <1>2, <1>3, <1>4, <1>5, <1>6 DEF Chunks
<1> QED BY <1>7 DEF rest

-----------------------------------------------------------------------------
(* The invariant of the stream.                                            *)

(* What the client has, the channel and the buffer are W, in this order.   *)
Delivered(W, cut) ==
    /\ Chunks(W, channel, received, cut)
    /\ thread \in {"adding", "finishing"} => buffer = SubSeq(W, cut[Len(channel)] + 1, Len(W))
    /\ thread = "ended" /\ AllSent => cut[Len(channel)] = Len(W)

StreamInv(want) ==
    /\ client = "none" <=> thread = "idle"
    /\ client = "none" => /\ todo = <<>> /\ position = 0 /\ entries = <<>>
                          /\ buffer = <<>> /\ channel = <<>> /\ received = <<>>
    /\ client = "reading" => \E W, cut : Delivered(W, cut) /\ Progress(W, want)
    /\ client = "complete" => thread = "ended" /\ IsArchive(received, want)

(* Once nobody reads, or nothing was requested, the thread only fails. *)
LEMMA UnreadStep ==
    ASSUME NEW want, StreamInv(want), client # "reading", Stream \/ FinishArchive
    PROVE  \A other : StreamInv(other)'
<1>1. thread \in {"adding", "finishing", "failing"} /\ client' = client
    BY DEF Stream, WriteUnit, WriteFails, FlushArchive, SendError, FinishArchive
<1>2. client # "none" /\ client # "complete"
    BY <1>1 DEF StreamInv
<1>3. thread' # "idle"
    BY <1>1 DEF Stream, WriteUnit, WriteFails, FlushArchive, SendError, FinishArchive, SendChunk
<1> QED BY <1>1, <1>2, <1>3 DEF StreamInv

LEMMA ProgressStep ==
    ASSUME NEW want, NEW W, NEW V, Progress(W, want), todo # <<>>, V = W \o <<Head(todo)>>,
           thread \in {"adding", "finishing"}, thread' = thread,
           Counted(Head(todo)), todo' = Tail(todo)
    PROVE  Progress(V, want)'
<1>1. Units(W) /\ Units(todo)
    BY DEF Progress
<1>2. Units(V) /\ Units(todo') /\ V \o todo' = W \o todo
    BY <1>1, Moving
<1>3. thread = "adding" => Adding(V)'
    BY <1>1, AddingStep DEF Progress
<1>4. thread = "adding" => NamesIn(V \o todo') = want /\ Distinct(V \o todo')
    BY <1>2 DEF Progress
<1>5. thread = "finishing" => IsArchive(V \o todo', want)
    BY <1>2 DEF Progress
<1>6. (Units(V) /\ Units(todo))' <=> Units(V) /\ Units(todo')
    BY DEF Units, Listed
<1> QED BY <1>2, <1>3, <1>4, <1>5, <1>6, Zenon DEF Progress

(* write_all of the channel's writer: the unit goes to the buffer, and the *)
(* buffer, when it is full, to the channel.                                *)
LEMMA WriteUnitStep ==
    ASSUME NEW want, StreamInv(want), client = "reading", WriteUnit
    PROVE  StreamInv(want)'
<1>1. PICK W, cut : Delivered(W, cut) /\ Progress(W, want)
    BY DEF StreamInv
<1> DEFINE u == Head(todo)
           n == Len(channel)
<1>2. /\ thread \in {"adding", "finishing"} /\ todo # <<>> /\ todo' = Tail(todo) /\ Counted(u)
      /\ client' = client /\ received' = received
      /\ \/ buffer' = Append(buffer, u) /\ UNCHANGED <<thread, channel>>
         \/ /\ channel' = Append(channel, [ok |-> TRUE, units |-> Append(buffer, u)])
            /\ buffer' = <<>> /\ thread' = thread
    BY DEF WriteUnit, SendChunk, Receiving
<1>3. PICK V : V = W \o <<Head(todo)>>
    OBVIOUS
<1>4. thread' = thread
    BY <1>2
<1>5. Progress(V, want)'
    BY <1>1, <1>2, <1>3, <1>4, ProgressStep
<1>6. Listed(W) /\ Listed(V) /\ Len(W) \in Nat /\ Len(V) = Len(W) + 1
    <2>1. Units(W) /\ Units(todo)
        BY <1>1 DEF Progress
    <2>2. Units(V) /\ Len(V) = Len(W) + 1
        BY <1>2, <1>3, <2>1, Moving
    <2> QED BY <2>1, <2>2, ListedFacts DEF Units
<1>7. Chunks(V, channel, received, cut)
    BY <1>1, <1>3, <1>6, ChunksGrow DEF Delivered
<1>8. n \in Nat /\ cut[n] \in 0..Len(W)
    BY <1>1, LastCut DEF Delivered
<1>9. Append(buffer, u) = SubSeq(V, cut[n] + 1, Len(V))
    <2>1. buffer = SubSeq(W, cut[n] + 1, Len(W))
        BY <1>1, <1>2 DEF Delivered
    <2>2. PICK a : a = cut[n]
        OBVIOUS
    <2>3. Append(SubSeq(W, a + 1, Len(W)), Head(todo)) = SubSeq(V, a + 1, Len(V))
        <3>1. Listed(W) /\ a \in 0..Len(W)
            BY <1>6, <1>8, <2>2
        <3>2. PICK v : v = Head(todo)
            OBVIOUS
        <3>3. V = W \o <<v>>
            BY <1>3, <3>2
        <3>4. RestGrows(W, v, V)
            BY <3>1, <3>3, CutGrows
        <3> QED BY <3>1, <3>2, <3>4 DEF RestGrows
    <2> QED BY <2>1, <2>2, <2>3
<1>10. \E g : Delivered(V, g)'
    <2>1. CASE buffer' = Append(buffer, u) /\ UNCHANGED <<thread, channel>>
        <3>1. Chunks(V, channel', received', cut)
            BY <1>2, <1>7, <2>1
        <3>2. buffer' = SubSeq(V, cut[Len(channel')] + 1, Len(V))
            BY <1>9, <2>1
        <3>3. Delivered(V, cut)'
            BY <1>2, <2>1, <3>1, <3>2 DEF Delivered
        <3> QED BY <3>3
    <2>2. CASE /\ channel' = Append(channel, [ok |-> TRUE, units |-> Append(buffer, u)])
               /\ buffer' = <<>> /\ thread' = thread
        <3>1. PICK x : x = [ok |-> TRUE, units |-> Append(buffer, u)]
            OBVIOUS
        <3>2. PICK b : b = Len(V)
            OBVIOUS
        <3>3. b \in cut[Len(channel)]..Len(V)
            BY <1>6, <1>8, <3>2
        <3>4. x.ok => x.units = SubSeq(V, cut[Len(channel)] + 1, b)
            BY <1>9, <3>1, <3>2
        <3>5. PICK g : Chunks(V, Append(channel, x), received, g) /\ g[Len(Append(channel, x))] = Len(V)
            <4> HIDE DEF n
            <4>1. \E g : Chunks(V, Append(channel, x), received, g) /\ g[Len(Append(channel, x))] = b
                BY <1>6, <1>7, <3>3, <3>4, ChunkSent
            <4> QED BY <3>2, <4>1
        <3>6. Chunks(V, channel', received', g) /\ g[Len(channel')] = Len(V)
            BY <1>2, <2>2, <3>1, <3>5
        <3>7. SubSeq(V, Len(V) + 1, Len(V)) = <<>>
            <4>1. PICK S : V \in Seq(S)
                BY <1>6 DEF Listed
            <4> QED BY <1>6, <4>1
        <3>8. Delivered(V, g)'
            BY <1>2, <2>2, <3>6, <3>7 DEF Delivered
        <3> QED BY <3>8
    <2> QED BY <1>2, <2>1, <2>2
<1>11. PICK g : Delivered(V, g)'
    BY <1>10
<1>12. client' = "reading" /\ thread' # "idle"
    BY <1>2, <1>4
<1> QED BY <1>5, <1>11, <1>12 DEF StreamInv

(* finish: the directory of what was added. *)
LEMMA FinishStep ==
    ASSUME NEW want, StreamInv(want), client = "reading", FinishArchive
    PROVE  StreamInv(want)'
<1>1. PICK W, cut : Delivered(W, cut) /\ Progress(W, want)
    BY DEF StreamInv
<1>2. /\ thread = "adding" /\ todo = <<>> /\ thread' \in {"finishing", "failing"}
      /\ thread' = "finishing" => todo' = DirectoryUnits
      /\ thread' = "failing" => todo' = <<>>
      /\ UNCHANGED <<position, header, entries, buffer, channel, client, received, lease>>
    BY DEF FinishArchive
<1>3. Units(W) /\ Adding(W) /\ NamesIn(W) = want /\ Distinct(W) /\ W \o <<>> = W
    <2>1. Units(W) /\ W \o <<>> = W
        BY <1>1, JoinLaws DEF Progress, Units
    <2> QED BY <1>1, <1>2, <2>1 DEF Progress
<1>4. IsArchive(W \o DirectoryUnits, want) /\ Units(DirectoryUnits)
    <2>1. PICK m, e : \E c \in 0..m :
              /\ Entries(W, m, e)
              /\ e[c] <= Len(W) /\ (c < m => Len(W) < e[c + 1])
              /\ entries = Directory(W, e, c)
        BY <1>2, <1>3 DEF Adding
    <2>2. PICK c \in 0..m :
              /\ Entries(W, m, e)
              /\ e[c] <= Len(W) /\ (c < m => Len(W) < e[c + 1])
              /\ entries = Directory(W, e, c)
        BY <2>1
    <2>3. m \in Nat /\ Len(W) \in Nat /\ \A k \in 0..m : e[k] \in 0..Len(W)
        BY <1>3, <2>2, ListedFacts DEF Entries, Units
    <2>4. c = m
        <3>1. c < m => c + 1 \in 0..m
            BY <2>3
        <3>2. c < m => e[c + 1] <= Len(W)
            BY <2>3, <3>1
        <3> QED BY <2>2, <2>3, <3>1, <3>2
    <2>5. Entries(W, m, e) /\ entries = Directory(W, e, m) /\ position = Length(W)
        BY <1>3, <2>2, <2>4 DEF Adding
    <2>6. DOMAIN entries = 1..m /\ Len(entries) = m
        BY <2>3, <2>5 DEF Directory
    <2> QED BY <1>3, <2>3, <2>5, <2>6, ArchiveWhole, DirectoryFacts
<1>5. Units(todo')
    BY <1>2, <1>4, OneUnit
<1>6. Progress(W, want)'
    <2>1. thread' = "finishing" => IsArchive(W \o todo', want)
        BY <1>2, <1>4
    <2>2. thread' # "adding" /\ thread' # "ended"
        BY <1>2
    <2>3. (Units(W) /\ Units(todo))' <=> Units(W) /\ Units(todo')
        BY DEF Units, Listed
    <2> QED BY <1>3, <1>5, <2>1, <2>2, <2>3, Zenon DEF Progress
<1>7. Delivered(W, cut)'
    BY <1>1, <1>2 DEF Delivered
<1> QED BY <1>2, <1>6, <1>7 DEF StreamInv

(* finish, flush and the end of the sender. *)
LEMMA FlushStep ==
    ASSUME NEW want, StreamInv(want), client = "reading", FlushArchive
    PROVE  StreamInv(want)'
<1>1. PICK W, cut : Delivered(W, cut) /\ Progress(W, want)
    BY DEF StreamInv
<1> DEFINE n == Len(channel)
<1>2. /\ thread = "finishing" /\ todo = <<>> /\ thread' = "ended"
      /\ UNCHANGED <<todo, client, received>>
      /\ \/ buffer = <<>> /\ channel' = channel
         \/ channel' = Append(channel, [ok |-> TRUE, units |-> buffer])
    BY DEF FlushArchive, SendChunk, Receiving
<1>3. Listed(W) /\ Units(W) /\ IsArchive(W, want) /\ Len(W) \in Nat
    <2>1. Listed(W) /\ Units(W) /\ Len(W) \in Nat
        BY <1>1, ListedFacts DEF Progress, Units
    <2> QED BY <1>1, <1>2, <2>1, JoinLaws DEF Progress
<1>4. Progress(W, want)'
    <2>1. (Units(W) /\ Units(todo))' <=> Units(W) /\ Units(todo')
        BY DEF Units, Listed
    <2>2. Units(W) /\ Units(todo')
        BY <1>2, <1>3, OneUnit
    <2> QED BY <1>2, <1>3, <2>1, <2>2, Zenon DEF Progress
<1>5. n \in Nat /\ cut[n] \in 0..Len(W) /\ Chunks(W, channel, received, cut)
    BY <1>1, LastCut DEF Delivered
<1>6. buffer = SubSeq(W, cut[n] + 1, Len(W))
    BY <1>1, <1>2 DEF Delivered
<1>7. \E g : Delivered(W, g)'
    <2>1. CASE buffer = <<>> /\ channel' = channel
        <3>1. cut[n] = Len(W)
            <4>1. PICK a : a = cut[n] + 1
                OBVIOUS
            <4>2. a \in 1..Len(W) + 1 /\ Len(W) \in (a - 1)..Len(W)
                BY <1>3, <1>5, <4>1
            <4>3. Part(SubSeq(W, a, Len(W)), W, a, Len(W))
                BY <1>3, <4>2, Cutting
            <4>4. Len(<<>>) = Len(W) - a + 1
                BY <1>6, <2>1, <4>1, <4>3 DEF Part
            <4> QED BY <1>3, <1>5, <4>1, <4>4, OneListed
        <3>2. Delivered(W, cut)'
            BY <1>2, <1>5, <2>1, <3>1 DEF Delivered
        <3> QED BY <3>2
    <2>2. CASE channel' = Append(channel, [ok |-> TRUE, units |-> buffer])
        <3>1. PICK x : x = [ok |-> TRUE, units |-> buffer]
            OBVIOUS
        <3>2. Len(W) \in cut[n]..Len(W)
            BY <1>3, <1>5
        <3>3. x.ok => x.units = SubSeq(W, cut[n] + 1, Len(W))
            BY <1>6, <3>1
        <3>4. PICK g : Chunks(W, Append(channel, x), received, g) /\ g[Len(Append(channel, x))] = Len(W)
            <4>1. Listed(W) /\ Chunks(W, channel, received, cut)
                BY <1>3, <1>5
            <4> QED BY <3>2, <3>3, <4>1, ChunkSent
        <3>5. Delivered(W, g)'
            BY <1>2, <2>2, <3>1, <3>4 DEF Delivered
        <3> QED BY <3>5
    <2> QED BY <1>2, <2>1, <2>2
<1>8. PICK g : Delivered(W, g)'
    BY <1>7
<1> QED BY <1>2, <1>4, <1>8 DEF StreamInv

(* An error ends the stream in the body too. *)
LEMMA FailingSteps ==
    ASSUME NEW want, StreamInv(want), client = "reading", WriteFails \/ SendError
    PROVE  \A other : StreamInv(other)'
<1> SUFFICES ASSUME NEW other PROVE StreamInv(other)'
    OBVIOUS
<1>1. PICK W, cut : Delivered(W, cut) /\ Progress(W, want)
    BY DEF StreamInv
<1> DEFINE n == Len(channel)
<1>2. /\ UNCHANGED <<todo, client, received>>
      /\ \/ thread' = "failing" /\ channel' = channel
         \/ thread' = "ended" /\ channel' = Append(channel, [ok |-> FALSE])
    BY DEF WriteFails, SendError, writerVars, Receiving
<1>3. Units(W) /\ Units(todo) /\ Listed(W) /\ Len(W) \in Nat
    BY <1>1, ListedFacts DEF Progress, Units
<1>4. n \in Nat /\ cut[n] \in 0..Len(W) /\ Chunks(W, channel, received, cut) /\ Listed(channel)
    BY <1>1, LastCut DEF Delivered
<1>5. CASE thread' = "failing" /\ channel' = channel
    <2>1. Delivered(W, cut)'
        BY <1>2, <1>4, <1>5 DEF Delivered
    <2>2. Progress(W, other)'
        BY <1>2, <1>3, <1>5, Zenon DEF Progress
    <2> QED BY <1>2, <1>5, <2>1, <2>2 DEF StreamInv
<1>6. CASE thread' = "ended" /\ channel' = Append(channel, [ok |-> FALSE])
    <2>1. PICK x : x = [ok |-> FALSE]
        OBVIOUS
    <2>2. PICK b : b = cut[Len(channel)]
        OBVIOUS
    <2>3. PICK g : Chunks(W, Append(channel, x), received, g) /\ g[Len(Append(channel, x))] = b
        <3>1. b \in cut[Len(channel)]..Len(W)
            BY <1>3, <1>4, <2>2
        <3>2. x.ok => x.units = SubSeq(W, cut[Len(channel)] + 1, b)
            BY <2>1
        <3> HIDE DEF n
        <3>3. \E h : Chunks(W, Append(channel, x), received, h) /\ h[Len(Append(channel, x))] = b
            BY <1>3, <1>4, <3>1, <3>2, ChunkSent
        <3> QED BY <3>3
    <2>4. ~ AllSent'
        <3>1. PICK S : channel \in Seq(S)
            BY <1>4 DEF Listed
        <3>2. channel \in Seq(S \cup {x}) /\ x \in S \cup {x}
            BY <3>1
        <3>3. Len(channel') = n + 1 /\ channel'[n + 1] = x
            BY <1>6, <2>1, <3>2
        <3>4. n + 1 \in 1..n + 1
            BY <1>4
        <3> QED BY <2>1, <3>3, <3>4 DEF AllSent
    <2>5. Delivered(W, g)'
        BY <1>2, <1>6, <2>1, <2>3, <2>4 DEF Delivered
    <2>6. Progress(W, other)'
        BY <1>2, <1>3, <1>6, <2>4, Zenon DEF Progress
    <2> QED BY <1>2, <1>6, <2>5, <2>6 DEF StreamInv
<1> QED BY <1>2, <1>5, <1>6

(* The client reads, sees the end, or leaves. *)
LEMMA ReaderStep ==
    ASSUME NEW want, StreamInv(want), Reader
    PROVE  StreamInv(want)'
<1>1. client = "reading"
    BY DEF Reader, ClientReceives, ClientSeesEnd, ClientLeaves, Receiving
<1>2. PICK W, cut : Delivered(W, cut) /\ Progress(W, want)
    BY <1>1 DEF StreamInv
<1>3. UNCHANGED <<thread, todo, position, header, entries, buffer>> /\ thread # "idle"
    BY <1>1 DEF Reader, ClientReceives, ClientSeesEnd, ClientLeaves, writerVars, StreamInv
<1>4. Units(W) /\ Listed(W) /\ Len(W) \in Nat /\ Chunks(W, channel, received, cut) /\ Listed(channel)
    BY <1>2, ListedFacts DEF Progress, Units, Delivered, Chunks
<1>5. CASE client' \in {"aborted", "left"}
    BY <1>3, <1>5 DEF StreamInv
<1>6. CASE ClientReceives /\ client' = client
    <2>1. /\ channel # <<>> /\ channel' = Tail(channel) /\ Head(channel).ok
          /\ received' = received \o Head(channel).units
        BY <1>1, <1>6 DEF ClientReceives
    <2>2. PICK g : /\ Chunks(W, Tail(channel), received \o Head(channel).units, g)
                   /\ g[Len(Tail(channel))] = cut[Len(channel)]
        BY <1>4, <2>1, ChunkReceived
    <2>3. AllSent' => AllSent
        <3>1. /\ Len(channel) \in Nat /\ Head(channel) = channel[1]
              /\ Len(channel') = Len(channel) - 1
              /\ \A i \in 1..Len(channel) - 1 : channel'[i] = channel[i + 1]
            BY <1>4, <2>1, Splitting, ListedFacts
        <3> SUFFICES ASSUME AllSent', NEW i \in 1..Len(channel) PROVE channel[i].ok
            BY DEF AllSent
        <3>2. CASE i = 1
            BY <2>1, <3>1, <3>2
        <3>3. CASE i # 1
            <4> DEFINE j == i - 1
            <4>1. j \in 1..Len(channel) - 1 /\ j + 1 = i
                BY <3>1, <3>3
            <4> HIDE DEF j
            <4>2. channel'[j].ok
                BY <3>1, <4>1 DEF AllSent
            <4> QED BY <3>1, <4>1, <4>2
        <3> QED BY <3>2, <3>3
    <2>4. Delivered(W, g)'
        BY <1>2, <1>3, <2>1, <2>2, <2>3 DEF Delivered
    <2>5. Progress(W, want)'
        <3>1. Adding(W)' <=> Adding(W)
            BY <1>3 DEF Adding
        <3> QED BY <1>2, <1>3, <2>3, <3>1 DEF Progress
    <2> QED BY <1>1, <1>3, <1>6, <2>4, <2>5 DEF StreamInv
<1>7. CASE ClientSeesEnd
    <2>1. channel = <<>> /\ thread = "ended" /\ client' = "complete" /\ received' = received
        BY <1>7 DEF ClientSeesEnd
    <2>2. Len(channel) = 0 /\ AllSent
        BY <2>1, OneListed DEF AllSent
    <2>3. cut[0] = Len(W) /\ received = SubSeq(W, 1, cut[0])
        BY <1>2, <2>1, <2>2 DEF Delivered, Chunks
    <2>4. received = W
        <3>1. PICK S : W \in Seq(S)
            BY <1>4 DEF Listed
        <3> QED BY <2>3, <3>1, SubSeqFull
    <2>5. IsArchive(W, want)
        BY <1>2, <2>1, <2>2 DEF Progress
    <2> QED BY <1>3, <2>1, <2>4, <2>5 DEF StreamInv
<1> QED BY <1>1, <1>5, <1>6, <1>7 DEF Reader, ClientReceives, ClientLeaves, Receiving

(* A requested stream has nothing yet. *)
LEMMA StreamStarts ==
    ASSUME NEW want, StreamInv(want), client = "none",
           thread' = "adding", client' = "reading", UNCHANGED <<writerVars, channel, received>>
    PROVE  StreamInv({})'
<1>1. /\ todo' = <<>> /\ position' = 0 /\ entries' = <<>> /\ buffer' = <<>>
      /\ channel' = <<>> /\ received' = <<>>
    BY DEF StreamInv, writerVars
<1>2. /\ Units(<<>>) /\ Length(<<>>) = 0 /\ Listed(<<>>) /\ Len(<<>>) = 0 /\ <<>> \o <<>> = <<>>
      /\ NamesIn(<<>>) = {} /\ Distinct(<<>>)
    BY OneUnit, OneListed, NoEntries
<1>3. PICK m, e : Entries(<<>>, m, e)
    BY NoEntries DEF Series
<1>4. m = 0
    <2>1. m \in Nat /\ e \in [0..m -> 0..0] /\ \A j, k \in 0..m : j < k => e[j] < e[k]
        BY <1>2, <1>3 DEF Entries
    <2>2. m # 0 => 0 \in 0..m /\ m \in 0..m /\ 0 < m
        BY <2>1
    <2>3. \A k \in 0..m : e[k] = 0
        BY <2>1
    <2> QED BY <2>1, <2>2, <2>3
<1>5. Adding(<<>>)'
    <2>1. (position = Length(<<>>))'
        <3>1. position' = Length(<<>>)
            BY <1>1, <1>2
        <3> QED BY <3>1 DEF Length
    <2>2. Directory(<<>> \o todo', e, 0) = <<>>
        BY DEF Directory
    <2>3. e[0] = 0
        BY <1>3 DEF Entries
    <2>4. \E c \in 0..m :
              /\ Entries(<<>> \o todo', m, e)
              /\ e[c] <= Len(<<>>) /\ (c < m => Len(<<>>) < e[c + 1])
              /\ entries' = Directory(<<>> \o todo', e, c)
              /\ e[c] < Len(<<>>) => header' = Length(SubSeq(<<>> \o todo', 1, e[c]))
        <3>1. 0 \in 0..m /\ ~ (0 < m)
            BY <1>4
        <3>2. Entries(<<>> \o todo', m, e) /\ entries' = Directory(<<>> \o todo', e, 0)
            BY <1>1, <1>2, <1>3, <2>2
        <3>3. e[0] <= Len(<<>>) /\ ~ (e[0] < Len(<<>>))
            BY <1>2, <2>3
        <3> QED BY <3>1, <3>2, <3>3
    <2> QED BY <2>1, <2>4 DEF Adding
<1>6. Progress(<<>>, {})'
    <2>1. /\ Units(<<>>) /\ Units(todo') /\ NamesIn(<<>> \o todo') = {} /\ Distinct(<<>> \o todo')
        BY <1>1, <1>2
    <2>2. (Units(<<>>) /\ Units(todo))' <=> Units(<<>>) /\ Units(todo')
        BY DEF Units, Listed
    <2> QED BY <1>5, <2>1, <2>2, Zenon DEF Progress
<1> DEFINE cut == [k \in 0..0 |-> 0]
<1>7. Chunks(<<>>, <<>>, <<>>, cut) /\ cut[0] = 0
    <2>1. cut \in [0..0 -> 0..0] /\ cut[0] = 0
        OBVIOUS
    <2>2. <<>> = SubSeq(<<>>, 1, 0)
        BY SubSeqEmpty
    <2> HIDE DEF cut
    <2> QED BY <1>2, <2>1, <2>2 DEF Chunks
<1> HIDE DEF cut
<1>8. SubSeq(<<>>, 0 + 1, 0) = <<>>
    BY SubSeqEmpty
<1>9. Delivered(<<>>, cut)'
    <2>1. Chunks(<<>>, channel', received', cut)
        BY <1>1, <1>7
    <2>2. buffer' = SubSeq(<<>>, cut[Len(channel')] + 1, Len(<<>>))
        BY <1>1, <1>2, <1>7, <1>8
    <2>3. thread' # "ended"
        OBVIOUS
    <2> QED BY <2>1, <2>2, <2>3 DEF Delivered
<1> QED BY <1>6, <1>9 DEF StreamInv

(* The entries of a document are put behind what is written. *)
LEMMA StreamGrows ==
    ASSUME NEW want, StreamInv(want), thread = "adding", todo = <<>>,
           NEW more, NEW D, Series(D), Distinct(D), NamesIn(D) = more, want \cap more = {},
           todo' = D, UNCHANGED <<thread, position, header, entries, buffer, channel, client, received>>
    PROVE  StreamInv(want \cup more)'
<1>1. CASE client # "reading"
    BY <1>1 DEF StreamInv
<1>2. CASE client = "reading"
    <2>1. PICK W, cut : Delivered(W, cut) /\ Progress(W, want)
        BY <1>2 DEF StreamInv
    <2>2. Units(W) /\ Listed(W) /\ W \o <<>> = W /\ Len(W) \in Nat
        BY <2>1, JoinLaws, ListedFacts DEF Progress, Units
    <2>3. Adding(W) /\ NamesIn(W) = want /\ Distinct(W)
        BY <2>1, <2>2 DEF Progress
    <2> DEFINE B == W \o D
    <2>4. PICK l, g : Entries(D, l, g)
        BY DEF Series
    <2>5. Units(D) /\ Listed(D)
        BY <2>4 DEF Entries, Units
    <2>6. NamesIn(B) = want \cup more /\ Distinct(B)
        BY <2>2, <2>3, <2>5, NamesJoin
    <2>7. PICK m, e : \E c \in 0..m :
              /\ Entries(W, m, e)
              /\ e[c] <= Len(W) /\ (c < m => Len(W) < e[c + 1])
              /\ entries = Directory(W, e, c)
        BY <2>2, <2>3 DEF Adding
    <2>8. PICK c \in 0..m :
              /\ Entries(W, m, e)
              /\ e[c] <= Len(W) /\ (c < m => Len(W) < e[c + 1])
              /\ entries = Directory(W, e, c)
        BY <2>7
    <2>9. m \in Nat /\ e[m] = Len(W) /\ \A k \in 0..m : e[k] \in 0..Len(W)
        BY <2>8 DEF Entries
    <2>10. c = m
        <3>1. c < m => c + 1 \in 0..m
            BY <2>9
        <3>2. c < m => e[c + 1] <= Len(W)
            BY <2>9, <3>1
        <3> QED BY <2>2, <2>8, <2>9, <3>1, <3>2
    <2>11. PICK h : Entries(B, m + l, h) /\ \A k \in 0..m : h[k] = e[k]
        BY <2>4, <2>8, EntriesJoin
    <2>12. Joins(B, W, D)
        BY <2>2, <2>5, UnitsJoin
    <2> HIDE DEF B
    <2>13. Directory(W, e, m) = Directory(B, h, m)
        <3>1. ASSUME NEW k \in 1..m
              PROVE  /\ B[h[k - 1] + 1].name = W[e[k - 1] + 1].name
                     /\ SubSeq(B, 1, h[k - 1]) = SubSeq(W, 1, e[k - 1])
            <4>1. k - 1 \in 0..m
                BY <2>9
            <4>2. h[k - 1] = e[k - 1]
                BY <2>11, <4>1
            <4>3. PICK a : a = e[k - 1]
                OBVIOUS
            <4>4. a \in 0..Len(W)
                BY <2>9, <4>1, <4>3
            <4>5. a + 1 \in 1..Len(W)
                <5>1. e[k - 1] + 1 \in 1..Len(W)
                    BY <2>8, LocalsOfEntries
                <5> QED BY <4>3, <5>1
            <4>6. B[a + 1] = W[a + 1]
                BY <2>12, <4>5 DEF Joins
            <4>7. SubSeq(B, 1, a) = SubSeq(W, 1, a)
                <5>1. 1 \in 1..Len(W) + 1 /\ a \in (1 - 1)..Len(W)
                    BY <2>2, <4>4
                <5>2. SubSeq(W \o D, 1, a) = SubSeq(W, 1, a)
                    BY <2>2, <2>5, <5>1, CuttingJoined
                <5> QED BY <5>2 DEF B
            <4> QED BY <4>2, <4>3, <4>6, <4>7
        <3> QED BY <3>1 DEF Directory
    <2>14. Adding(W)'
        <3>1. m \in 0..m + l /\ h[m] = Len(W) /\ (m < m + l => Len(W) < h[m + 1])
            <4>1. l \in Nat /\ m \in 0..m /\ m \in 0..m + l
                BY <2>4, <2>9 DEF Entries
            <4>2. h[m] = Len(W)
                BY <2>9, <2>11, <4>1
            <4>3. m < m + l => m + 1 \in 0..m + l /\ m < m + 1
                BY <2>9, <4>1
            <4>4. m < m + l => h[m] < h[m + 1]
                BY <2>11, <4>1, <4>3 DEF Entries
            <4> QED BY <4>1, <4>2, <4>4
        <3>2. Entries(W \o todo', m + l, h) /\ entries' = Directory(W \o todo', h, m)
            BY <2>8, <2>10, <2>11, <2>13 DEF B
        <3>3. h[m] <= Len(W) /\ ~ (h[m] < Len(W))
            BY <2>2, <3>1
        <3>4. \E d \in 0..m + l :
                  /\ Entries(W \o todo', m + l, h)
                  /\ h[d] <= Len(W) /\ (d < m + l => Len(W) < h[d + 1])
                  /\ entries' = Directory(W \o todo', h, d)
                  /\ h[d] < Len(W) => header' = Length(SubSeq(W \o todo', 1, h[d]))
            BY <3>1, <3>2, <3>3
        <3>5. (position = Length(W))'
            BY <2>3 DEF Adding, Length
        <3> QED BY <3>4, <3>5 DEF Adding
    <2>15. Progress(W, want \cup more)'
        <3>1. Units(todo') /\ NamesIn(W \o todo') = want \cup more /\ Distinct(W \o todo')
            BY <2>5, <2>6 DEF B
        <3>2. (Units(W) /\ Units(todo))' <=> Units(W) /\ Units(todo')
            BY DEF Units, Listed
        <3> QED BY <2>2, <2>14, <3>1, <3>2, Zenon DEF Progress
    <2>16. Delivered(W, cut)'
        BY <2>1 DEF Delivered
    <2> QED BY <1>2, <2>15, <2>16 DEF StreamInv
<1> QED BY <1>1, <1>2

=============================================================================
