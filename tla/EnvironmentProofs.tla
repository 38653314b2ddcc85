------------------------- MODULE EnvironmentProofs --------------------------
(***************************************************************************)
(* Proofs about Environment, for any names, values and directories: the    *)
(* array and the list keep their shape, behave as one store, and are       *)
(* printed in order by the sort of ExportPrint.  Proofs about Expansion,   *)
(* for any words: what is made of a word with their values, and the room   *)
(* it needs.                                                               *)
(***************************************************************************)
EXTENDS ExportPrint, Expansion, FiniteSetTheorems, WellFoundedInduction, TLAPS

-----------------------------------------------------------------------------
(***************************************************************************)
(* The array: what get_env finds, and what an update changes.              *)
(***************************************************************************)
LEMMA EntryFound ==
  ASSUME NEW e \in Seq(Entry), DistinctNames(e), NEW i \in DOMAIN e
  PROVE  /\ Has(e, e[i].name)
         /\ First(e, e[i].name) = i
         /\ GetEnv(e, e[i].name) = e[i].value
<1> DEFINE n == e[i].name
<1>1. DOMAIN e = 1 .. Len(e) /\ Len(e) \in Nat
  OBVIOUS
<1>2. \A k \in 1 .. i - 1 : e[k].name # n
  BY <1>1 DEF DistinctNames
<1>3. \A k \in DOMAIN e : e[k].name = n => k = i
  BY DEF DistinctNames
<1>4. First(e, n) = i
  BY <1>2, <1>3 DEF First
<1>5. QED
  BY <1>4 DEF Has, GetEnv

LEMMA FirstHolds ==
  ASSUME NEW e \in Seq(Entry), DistinctNames(e), NEW n, Has(e, n)
  PROVE  /\ First(e, n) \in DOMAIN e
         /\ e[First(e, n)].name = n
         /\ GetEnv(e, n) = e[First(e, n)].value
         /\ GetEnv(e, n) \in Values
<1>1. PICK i \in DOMAIN e : e[i].name = n
  BY DEF Has
<1>2. First(e, n) = i /\ GetEnv(e, n) = e[i].value
  BY <1>1, EntryFound
<1>3. e[i] \in Entry
  OBVIOUS
<1>4. QED
  BY <1>1, <1>2, <1>3 DEF Entry

(* Two arrays with the same entries give the same values. *)
LEMMA SameEntry ==
  ASSUME NEW e \in Seq(Entry), DistinctNames(e),
         NEW f \in Seq(Entry), DistinctNames(f),
         NEW m,
         \A i \in DOMAIN e : e[i].name = m => \E k \in DOMAIN f : f[k] = e[i],
         \A k \in DOMAIN f : f[k].name = m => \E i \in DOMAIN e : e[i] = f[k]
  PROVE  (Has(f, m) <=> Has(e, m)) /\ GetEnv(f, m) = GetEnv(e, m)
<1>1. Has(f, m) <=> Has(e, m)
  BY DEF Has
<1>2. CASE Has(e, m)
  <2>1. PICK i \in DOMAIN e : e[i].name = m
    BY <1>2 DEF Has
  <2>2. PICK k \in DOMAIN f : f[k] = e[i]
    BY <2>1
  <2>3. QED
    BY <1>1, <2>1, <2>2, EntryFound
<1>3. CASE ~Has(e, m)
  BY <1>1, <1>3 DEF GetEnv
<1>4. QED
  BY <1>2, <1>3

LEMMA SetVarFacts ==
  ASSUME NEW e \in Seq(Entry), DistinctNames(e), NEW n \in Names, NEW v \in Values
  PROVE  /\ SetVar(e, n, v) \in Seq(Entry)
         /\ DistinctNames(SetVar(e, n, v))
         /\ Has(SetVar(e, n, v), n) /\ GetEnv(SetVar(e, n, v), n) = v
         /\ \A m : m # n =>
              /\ Has(SetVar(e, n, v), m) <=> Has(e, m)
              /\ GetEnv(SetVar(e, n, v), m) = GetEnv(e, m)
<1> DEFINE x == [name |-> n, value |-> v]
           f == SetVar(e, n, v)
<1>1. x \in Entry /\ x.name = n /\ x.value = v
  BY DEF Entry
<1>2. CASE Has(e, n)
  <2>1. PICK p : p = First(e, n) /\ p \in DOMAIN e /\ e[p].name = n
    BY <1>2, FirstHolds
  <2>2. f = [e EXCEPT ![p] = x]
    BY <1>2, <2>1 DEF SetVar
  <2>3. f \in Seq(Entry) /\ DOMAIN f = DOMAIN e /\ f[p] = x
        /\ \A i \in DOMAIN e : i # p => f[i] = e[i]
    BY <1>1, <2>1, <2>2
  <2>4. \A i \in DOMAIN e : f[i].name = e[i].name
    BY <1>1, <2>1, <2>3
  <2>5. DistinctNames(f)
    BY <2>3, <2>4 DEF DistinctNames
  <2>6. Has(f, n) /\ GetEnv(f, n) = v
    BY <1>1, <2>1, <2>3, <2>5, EntryFound
  <2>7. \A m : m # n => (Has(f, m) <=> Has(e, m)) /\ GetEnv(f, m) = GetEnv(e, m)
    <3> SUFFICES ASSUME NEW m, m # n
                 PROVE  (Has(f, m) <=> Has(e, m)) /\ GetEnv(f, m) = GetEnv(e, m)
      OBVIOUS
    <3>1. \A i \in DOMAIN e : e[i].name = m => f[i] = e[i]
      BY <2>1, <2>3
    <3>2. \A i \in DOMAIN f : f[i].name = m => f[i] = e[i]
      BY <1>1, <2>1, <2>3
    <3> HIDE DEF f
    <3>3. QED
      BY <2>3, <2>5, <3>1, <3>2, SameEntry
  <2>8. QED
    BY <2>3, <2>5, <2>6, <2>7
<1>3. CASE ~Has(e, n)
  <2>1. f = Append(e, x)
    BY <1>3 DEF SetVar
  <2>2. /\ f \in Seq(Entry) /\ Len(f) = Len(e) + 1 /\ Len(e) \in Nat
        /\ DOMAIN f = 1 .. Len(e) + 1 /\ DOMAIN e = 1 .. Len(e)
        /\ f[Len(e) + 1] = x
        /\ \A i \in 1 .. Len(e) : f[i] = e[i]
    BY <1>1, <2>1
  <2> HIDE DEF f
  <2>3. \A i \in 1 .. Len(e) : e[i].name # n
    BY <1>3, <2>2 DEF Has
  <2>4. DistinctNames(f)
    BY <1>1, <2>2, <2>3 DEF DistinctNames
  <2>5. Has(f, n) /\ GetEnv(f, n) = v
    <3>1. Len(e) + 1 \in DOMAIN f
      BY <2>2
    <3>2. QED
      BY <1>1, <2>2, <2>4, <3>1, EntryFound
  <2>6. \A m : m # n => (Has(f, m) <=> Has(e, m)) /\ GetEnv(f, m) = GetEnv(e, m)
    <3> SUFFICES ASSUME NEW m, m # n
                 PROVE  (Has(f, m) <=> Has(e, m)) /\ GetEnv(f, m) = GetEnv(e, m)
      OBVIOUS
    <3>1. \A i \in DOMAIN e : i \in DOMAIN f /\ f[i] = e[i]
      BY <2>2
    <3>2. \A i \in DOMAIN f : f[i].name = m => i \in DOMAIN e /\ f[i] = e[i]
      BY <1>1, <2>2
    <3>3. QED
      BY <2>2, <2>4, <3>1, <3>2, SameEntry
  <2>7. QED
    BY <2>2, <2>4, <2>5, <2>6 DEF f
<1>4. QED
  BY <1>2, <1>3

-----------------------------------------------------------------------------
(***************************************************************************)
(* copy_env_without_var: the count of the entries kept, and the copy.      *)
(***************************************************************************)
LEMMA Lengths ==
  ASSUME NEW S, NEW e \in Seq(S)
  PROVE  Len(e) \in Nat /\ DOMAIN e = 1 .. Len(e) /\ DOMAIN e \subseteq Nat
OBVIOUS

LEMMA LeastNumber ==
  ASSUME NEW T, T \subseteq Nat, T # {}
  PROVE  \E x \in T : \A y \in T : x <= y
<1>1. IsWellFoundedOn(OpToRel(<, Nat), Nat)
  BY NatLessThanWellFounded
<1>2. \E x \in T : \A y \in T : <<y, x>> \notin OpToRel(<, Nat)
  BY <1>1, WFMin
<1>3. \A x, y \in Nat : y < x => <<y, x>> \in OpToRel(<, Nat)
  BY DEF OpToRel
<1>4. PICK x \in T : \A y \in T : <<y, x>> \notin OpToRel(<, Nat)
  BY <1>2
<1>5. \A y \in T : ~(y < x)
  BY <1>3, <1>4
<1>6. QED
  BY <1>5

KeptFacts(e, n) ==
  /\ Kept(e, n, 0) = 0
  /\ \A k \in Nat : Kept(e, n, k) \in Nat
  /\ \A k \in Nat : Kept(e, n, k + 1) =
       IF e[k + 1].name # n THEN Kept(e, n, k) + 1 ELSE Kept(e, n, k)
  /\ \A j, k \in Nat : j <= k => Kept(e, n, j) <= Kept(e, n, k)

LEMMA KeptSteps ==
  ASSUME NEW e, NEW n
  PROVE  KeptFacts(e, n)
<1> DEFINE K(k) == {i \in 1 .. k : e[i].name # n}
<1>1. K(0) = {}
  OBVIOUS
<1>2. \A k \in Nat : IsFiniteSet(K(k))
  <2>1. \A k \in Nat : K(k) \in SUBSET (1 .. k) /\ IsFiniteSet(1 .. k)
    BY FS_Interval
  <2>2. QED
    BY <2>1, FS_Subset
<1>3. \A k \in Nat : K(k + 1) = IF e[k + 1].name # n THEN K(k) \cup {k + 1} ELSE K(k)
  OBVIOUS
<1>4. \A k \in Nat : k + 1 \notin K(k)
  OBVIOUS
<1>5. \A j, k \in Nat : j <= k => K(j) \in SUBSET K(k)
  OBVIOUS
<1>6. \A k \in Nat : Kept(e, n, k) = Cardinality(K(k))
  BY DEF Kept
<1> HIDE DEF K
<1>7. \A k \in Nat : Cardinality(K(k)) \in Nat
  BY <1>2, FS_CardinalityType
<1>8. Cardinality(K(0)) = 0
  BY <1>1, FS_EmptySet
<1>9. \A k \in Nat : Cardinality(K(k + 1)) =
        IF e[k + 1].name # n THEN Cardinality(K(k)) + 1 ELSE Cardinality(K(k))
  <2> TAKE k \in Nat
  <2>1. Cardinality(K(k) \cup {k + 1}) = Cardinality(K(k)) + 1
    BY <1>2, <1>4, FS_AddElement
  <2>2. QED
    BY <2>1, <1>3
<1>10. \A j, k \in Nat : j <= k => Cardinality(K(j)) <= Cardinality(K(k))
  BY <1>2, <1>5, FS_Subset
<1>11. QED
  BY <1>6, <1>7, <1>8, <1>9, <1>10 DEF KeptFacts

(* Every place of the copy is filled by one entry of the array. *)
LEMMA KeptOnto ==
  ASSUME NEW e \in Seq(Entry), NEW n, NEW k \in 1 .. Kept(e, n, Len(e))
  PROVE  \E i \in DOMAIN e : e[i].name # n /\ Kept(e, n, i) = k
<1>0. KeptFacts(e, n)
  BY KeptSteps
<1> DEFINE T == {j \in Nat : j <= Len(e) /\ k <= Kept(e, n, j)}
<1>1. Len(e) \in Nat /\ DOMAIN e = 1 .. Len(e) /\ Kept(e, n, Len(e)) \in Nat
  BY <1>0 DEF KeptFacts
<1>2. Len(e) \in T
  BY <1>1
<1>3. PICK i \in T : \A j \in T : i <= j
  BY <1>2, LeastNumber
<1>4. i \in Nat /\ i # 0
  BY <1>0, <1>1, <1>3 DEF KeptFacts
<1>5. i - 1 \in Nat /\ i - 1 \notin T /\ i = (i - 1) + 1
  BY <1>3, <1>4
<1>6. Kept(e, n, i - 1) \in Nat /\ Kept(e, n, i) \in Nat /\ Kept(e, n, i - 1) < k
  <2>1. Kept(e, n, i - 1) \in Nat /\ Kept(e, n, i) \in Nat
    BY <1>0, <1>4, <1>5 DEF KeptFacts
  <2>2. i - 1 <= Len(e)
    BY <1>1, <1>3, <1>4
  <2>3. QED
    BY <1>1, <1>5, <2>1, <2>2
<1>7. Kept(e, n, i) = IF e[i].name # n THEN Kept(e, n, i - 1) + 1
                      ELSE Kept(e, n, i - 1)
  BY <1>0, <1>5 DEF KeptFacts
<1>8. QED
  BY <1>1, <1>3, <1>4, <1>6, <1>7

LEMMA KeptOneToOne ==
  ASSUME NEW e \in Seq(Entry), NEW n, NEW i \in DOMAIN e, NEW j \in DOMAIN e,
         e[i].name # n, e[j].name # n, Kept(e, n, i) = Kept(e, n, j)
  PROVE  i = j
<1>0. KeptFacts(e, n)
  BY KeptSteps
<1>1. \A a, b \in DOMAIN e : a < b /\ e[b].name # n => Kept(e, n, a) < Kept(e, n, b)
  <2> SUFFICES ASSUME NEW a \in DOMAIN e, NEW b \in DOMAIN e, a < b, e[b].name # n
               PROVE  Kept(e, n, a) < Kept(e, n, b)
    OBVIOUS
  <2>1. a \in Nat /\ b - 1 \in Nat /\ a <= b - 1 /\ b = (b - 1) + 1
    OBVIOUS
  <2>2. Kept(e, n, b) = Kept(e, n, b - 1) + 1
    BY <1>0, <2>1 DEF KeptFacts
  <2>3. Kept(e, n, a) <= Kept(e, n, b - 1)
    BY <1>0, <2>1 DEF KeptFacts
  <2>4. Kept(e, n, a) \in Nat /\ Kept(e, n, b - 1) \in Nat
    BY <1>0, <2>1 DEF KeptFacts
  <2>5. QED
    BY <2>2, <2>3, <2>4
<1>2. i \in Nat /\ j \in Nat
  BY Lengths
<1>3. Kept(e, n, i) \in Nat /\ Kept(e, n, j) \in Nat
  BY <1>0, <1>2 DEF KeptFacts
<1>4. QED
  BY <1>1, <1>2, <1>3

LEMMA WithoutVarFacts ==
  ASSUME NEW e \in Seq(Entry), DistinctNames(e), NEW n
  PROVE  /\ WithoutVar(e, n) \in Seq(Entry)
         /\ DistinctNames(WithoutVar(e, n))
         /\ ~Has(WithoutVar(e, n), n)
         /\ \A m : m # n =>
              /\ Has(WithoutVar(e, n), m) <=> Has(e, m)
              /\ GetEnv(WithoutVar(e, n), m) = GetEnv(e, m)
<1>0. KeptFacts(e, n)
  BY KeptSteps
<1> DEFINE f == WithoutVar(e, n)
           at(k) == CHOOSE i \in DOMAIN e : e[i].name # n /\ Kept(e, n, i) = k
           last == Kept(e, n, Len(e))
<1>1. last \in Nat /\ DOMAIN e = 1 .. Len(e) /\ Len(e) \in Nat
  BY <1>0 DEF KeptFacts
<1>2. \A k \in 1 .. last :
        at(k) \in DOMAIN e /\ e[at(k)].name # n /\ Kept(e, n, at(k)) = k
  BY KeptOnto
<1>3. f = [k \in 1 .. last |-> e[at(k)]]
  BY DEF WithoutVar
<1> HIDE DEF at, last, f
<1>4. f \in Seq(Entry) /\ DOMAIN f = 1 .. last /\ \A k \in 1 .. last : f[k] = e[at(k)]
  BY <1>1, <1>2, <1>3
<1>5. DistinctNames(f)
  <2> SUFFICES ASSUME NEW j \in 1 .. last, NEW k \in 1 .. last,
                      f[j].name = f[k].name
               PROVE  j = k
    BY <1>4 DEF DistinctNames
  <2>1. at(j) = at(k)
    BY <1>2, <1>4 DEF DistinctNames
  <2>2. QED
    BY <1>2, <2>1
<1>6. ~Has(f, n)
  BY <1>2, <1>4 DEF Has
<1>7. \A i \in DOMAIN e : e[i].name # n => \E k \in DOMAIN f : f[k] = e[i]
  <2> SUFFICES ASSUME NEW i \in DOMAIN e, e[i].name # n
               PROVE  \E k \in DOMAIN f : f[k] = e[i]
    OBVIOUS
  <2>1. i \in Nat /\ i - 1 \in Nat /\ i = (i - 1) + 1 /\ i <= Len(e)
    BY <1>1
  <2>2. Kept(e, n, i) = Kept(e, n, i - 1) + 1 /\ Kept(e, n, i - 1) \in Nat
    <3>1. Kept(e, n, i) = Kept(e, n, (i - 1) + 1)
      BY <2>1
    <3>2. e[(i - 1) + 1].name # n
      BY <2>1
    <3>3. QED
      BY <1>0, <2>1, <3>1, <3>2 DEF KeptFacts
  <2>3. Kept(e, n, i) <= last
    BY <1>0, <1>1, <2>1 DEF KeptFacts, last
  <2>4. Kept(e, n, i) \in 1 .. last
    BY <1>1, <2>2, <2>3
  <2>5. at(Kept(e, n, i)) = i
    BY <1>2, <2>4, KeptOneToOne
  <2>6. QED
    BY <1>4, <2>4, <2>5
<1>8. \A k \in DOMAIN f : \E i \in DOMAIN e : e[i] = f[k]
  BY <1>2, <1>4
<1>9. \A m : m # n => (Has(f, m) <=> Has(e, m)) /\ GetEnv(f, m) = GetEnv(e, m)
  <2> SUFFICES ASSUME NEW m, m # n
               PROVE  (Has(f, m) <=> Has(e, m)) /\ GetEnv(f, m) = GetEnv(e, m)
    OBVIOUS
  <2>1. \A i \in DOMAIN e : e[i].name = m => \E k \in DOMAIN f : f[k] = e[i]
    BY <1>7
  <2>2. \A k \in DOMAIN f : f[k].name = m => \E i \in DOMAIN e : e[i] = f[k]
    BY <1>8
  <2>3. QED
    BY <1>4, <1>5, <2>1, <2>2, SameEntry
<1>10. QED
  BY <1>4, <1>5, <1>6, <1>9 DEF f

-----------------------------------------------------------------------------
(***************************************************************************)
(* The list.                                                               *)
(***************************************************************************)
OnceEach(l) == \A i, k \in DOMAIN l : l[i] = l[k] => i = k

LEMMA AddExportedVarFacts ==
  ASSUME NEW l \in Seq(Valid), OnceEach(l), NEW n \in Valid
  PROVE  /\ AddExportedVar(l, n) \in Seq(Valid)
         /\ OnceEach(AddExportedVar(l, n))
         /\ \A m : Lists(AddExportedVar(l, n), m) <=> m = n \/ Lists(l, m)
<1>1. CASE Lists(l, n)
  BY <1>1 DEF AddExportedVar
<1>2. CASE ~Lists(l, n)
  <2> DEFINE f == Append(l, n)
  <2>1. /\ f \in Seq(Valid) /\ Len(l) \in Nat
        /\ DOMAIN f = 1 .. Len(l) + 1 /\ DOMAIN l = 1 .. Len(l)
        /\ f[Len(l) + 1] = n
        /\ \A i \in 1 .. Len(l) : f[i] = l[i]
    OBVIOUS
  <2>2. AddExportedVar(l, n) = f
    BY <1>2 DEF AddExportedVar
  <2> HIDE DEF f
  <2>3. OnceEach(f)
    BY <1>2, <2>1 DEF OnceEach, Lists
  <2>4. \A m : Lists(f, m) <=> m = n \/ Lists(l, m)
    BY <2>1 DEF Lists
  <2>5. QED
    BY <2>1, <2>2, <2>3, <2>4
<1>3. QED
  BY <1>1, <1>2

LEMMA RemoveExportedVarFacts ==
  ASSUME NEW l \in Seq(Valid), OnceEach(l), NEW n
  PROVE  /\ RemoveExportedVar(l, n) \in Seq(Valid)
         /\ OnceEach(RemoveExportedVar(l, n))
         /\ \A m : Lists(RemoveExportedVar(l, n), m) <=> m # n /\ Lists(l, m)
<1>1. CASE ~Lists(l, n)
  BY <1>1 DEF RemoveExportedVar, Lists
<1>2. CASE Lists(l, n)
  <2>1. PICK p \in DOMAIN l : l[p] = n
    BY <1>2 DEF Lists
  <2>2. DOMAIN l = 1 .. Len(l) /\ Len(l) \in Nat
    OBVIOUS
  <2>3. \A k \in DOMAIN l : l[k] = n => k = p
    BY <2>1 DEF OnceEach
  <2>4. (CHOOSE i \in DOMAIN l : l[i] = n /\ \A k \in 1 .. i - 1 : l[k] # n) = p
    <3>1. \A k \in 1 .. p - 1 : l[k] # n
      BY <2>2, <2>3
    <3>2. QED
      BY <2>1, <2>3, <3>1
  <2> DEFINE f == [k \in 1 .. Len(l) - 1 |-> IF k < p THEN l[k] ELSE l[k + 1]]
  <2>5. RemoveExportedVar(l, n) = f
    BY <1>2, <2>4 DEF RemoveExportedVar
  <2>6. /\ Len(l) - 1 \in Nat
        /\ DOMAIN f = 1 .. Len(l) - 1
        /\ \A k \in 1 .. Len(l) - 1 : f[k] = IF k < p THEN l[k] ELSE l[k + 1]
    BY <2>1, <2>2
  <2>7. f \in Seq(Valid)
    <3>1. \A k \in 1 .. Len(l) - 1 : (IF k < p THEN l[k] ELSE l[k + 1]) \in Valid
      BY <2>2
    <3>2. QED
      BY <2>6, <3>1
  <2> HIDE DEF f
  <2>8. OnceEach(f)
    <3> SUFFICES ASSUME NEW j \in DOMAIN f, NEW k \in DOMAIN f, f[j] = f[k]
                 PROVE  j = k
      BY DEF OnceEach
    <3> DEFINE old(i) == IF i < p THEN i ELSE i + 1
    <3>1. \A i \in DOMAIN f : old(i) \in DOMAIN l /\ f[i] = l[old(i)]
      BY <2>2, <2>6
    <3>2. old(j) = old(k)
      BY <3>1 DEF OnceEach
    <3>3. QED
      BY <2>1, <2>2, <2>6, <3>2
  <2>9. \A m : Lists(f, m) => m # n /\ Lists(l, m)
    BY <2>1, <2>2, <2>3, <2>6 DEF Lists
  <2>10. \A m : m # n /\ Lists(l, m) => Lists(f, m)
    <3> SUFFICES ASSUME NEW i \in DOMAIN l, l[i] # n
                 PROVE  Lists(f, l[i])
      BY DEF Lists
    <3>1. CASE i < p
      BY <2>1, <2>2, <2>6, <3>1 DEF Lists
    <3>2. CASE i > p
      <4>1. i - 1 \in DOMAIN f /\ f[i - 1] = l[i]
        BY <2>1, <2>2, <2>6, <3>2
      <4>2. QED
        BY <4>1 DEF Lists
    <3>3. QED
      BY <2>1, <2>2, <3>1, <3>2
  <2>11. QED
    BY <2>5, <2>7, <2>8, <2>9, <2>10
<1>3. QED
  BY <1>1, <1>2
-----------------------------------------------------------------------------
(***************************************************************************)
(* The invariant and its preservation, one step per action.                *)
(***************************************************************************)
EInv == TypeOK /\ OneEntryPerName /\ ListedOnce /\ OverlapOnlyByCd

LEMMA NamesFacts ==
  /\ Valid \subseteq Names
  /\ PWD \in Names /\ OLDPWD \in Names /\ HOME \in Names
  /\ PWD # OLDPWD /\ Dirs \subseteq Values
  /\ NoValue \notin Values /\ NoValue \notin Dirs
  /\ Declared \notin Values /\ Declared # NoValue
BY EnvironmentAssumption

LEMMA InitInv == Init => EInv
<1> SUFFICES ASSUME Init PROVE EInv
  OBVIOUS
<1>1. env \in Seq(Entry) /\ DistinctNames(env)
  BY EnvironmentAssumption DEF Init
<1>2. exported \in Seq(Valid) /\ DOMAIN exported = {}
  BY DEF Init
<1>3. status \in Nat
  BY EnvironmentAssumption DEF Init
<1>4. TypeOK
  BY <1>1, <1>2, <1>3 DEF Init, TypeOK
<1>5. QED
  BY <1>1, <1>2, <1>4 DEF EInv, OneEntryPerName, ListedOnce, OverlapOnlyByCd, Lists

LEMMA ExportWithValueInv ==
  ASSUME EInv, NEW n \in Names, NEW v \in Values, ExportWithValue(n, v)
  PROVE  EInv'
<1>1. /\ env \in Seq(Entry) /\ DistinctNames(env)
      /\ exported \in Seq(Valid) /\ OnceEach(exported)
  BY DEF EInv, TypeOK, OneEntryPerName, ListedOnce, OnceEach
<1>2. /\ env' = SetVar(env, n, v)
      /\ exported' = RemoveExportedVar(exported, n)
  BY DEF ExportWithValue
<1>3. env' \in Seq(Entry) /\ DistinctNames(env')
  BY <1>1, <1>2, SetVarFacts
<1>4. exported' \in Seq(Valid) /\ OnceEach(exported')
  BY <1>1, <1>2, RemoveExportedVarFacts
<1>5. TypeOK'
  BY <1>3, <1>4 DEF EInv, TypeOK, ExportWithValue
<1>6. \A m \in Names : Has(env', m) /\ Lists(exported', m) =>
        Has(env, m) /\ Lists(exported, m)
  BY <1>1, <1>2, SetVarFacts, RemoveExportedVarFacts
<1>7. OverlapOnlyByCd'
  BY <1>6 DEF EInv, OverlapOnlyByCd
<1>8. QED
  BY <1>3, <1>4, <1>5, <1>7 DEF EInv, OneEntryPerName, ListedOnce, OnceEach

LEMMA ExportWithoutValueInv ==
  ASSUME EInv, NEW n \in Names, ExportWithoutValue(n)
  PROVE  EInv'
<1>1. /\ exported \in Seq(Valid) /\ OnceEach(exported) /\ n \in Valid
      /\ env' = env
  BY DEF EInv, TypeOK, ListedOnce, OnceEach, ExportWithoutValue
<1>2. CASE Has(env, n)
  BY <1>2 DEF EInv, TypeOK, OneEntryPerName, ListedOnce, OverlapOnlyByCd,
     ExportWithoutValue
<1>3. CASE ~Has(env, n)
  <2>1. exported' = AddExportedVar(exported, n)
    BY <1>3 DEF ExportWithoutValue
  <2>2. /\ exported' \in Seq(Valid) /\ OnceEach(exported')
        /\ \A m : Lists(exported', m) <=> m = n \/ Lists(exported, m)
    BY <1>1, <2>1, AddExportedVarFacts
  <2>3. OverlapOnlyByCd'
    BY <1>1, <1>3, <2>2 DEF EInv, OverlapOnlyByCd
  <2>4. QED
    BY <1>1, <2>2, <2>3 DEF EInv, TypeOK, OneEntryPerName, ListedOnce, OnceEach,
       ExportWithoutValue
<1>4. QED
  BY <1>2, <1>3

LEMMA UnsetVarInv ==
  ASSUME EInv, NEW n \in Names, UnsetVar(n)
  PROVE  EInv'
<1>1. /\ env \in Seq(Entry) /\ DistinctNames(env)
      /\ exported \in Seq(Valid) /\ OnceEach(exported)
  BY DEF EInv, TypeOK, OneEntryPerName, ListedOnce, OnceEach
<1>2. /\ env' = WithoutVar(env, n)
      /\ exported' = RemoveExportedVar(exported, n)
  BY DEF UnsetVar
<1>3. env' \in Seq(Entry) /\ DistinctNames(env')
  BY <1>1, <1>2, WithoutVarFacts
<1>4. exported' \in Seq(Valid) /\ OnceEach(exported')
  BY <1>1, <1>2, RemoveExportedVarFacts
<1>5. TypeOK'
  BY <1>3, <1>4 DEF EInv, TypeOK, UnsetVar
<1>6. \A m \in Names : Has(env', m) /\ Lists(exported', m) =>
        Has(env, m) /\ Lists(exported, m)
  BY <1>1, <1>2, WithoutVarFacts, RemoveExportedVarFacts
<1>7. OverlapOnlyByCd'
  BY <1>6 DEF EInv, OverlapOnlyByCd
<1>8. QED
  BY <1>3, <1>4, <1>5, <1>7 DEF EInv, OneEntryPerName, ListedOnce, OnceEach

(* What update_oldpwd does to the array. *)
LEMMA UpdateOldpwdFacts ==
  ASSUME EInv
  PROVE  /\ UpdateOldpwd \in Seq(Entry) /\ DistinctNames(UpdateOldpwd)
         /\ \A m : m # OLDPWD =>
              /\ Has(UpdateOldpwd, m) <=> Has(env, m)
              /\ GetEnv(UpdateOldpwd, m) = GetEnv(env, m)
         /\ Has(env, PWD) => /\ Has(UpdateOldpwd, OLDPWD)
                             /\ GetEnv(UpdateOldpwd, OLDPWD) = GetEnv(env, PWD)
                             /\ GetEnv(env, PWD) \in Values
         /\ ~Has(env, PWD) => UpdateOldpwd = env
<1>1. env \in Seq(Entry) /\ DistinctNames(env)
  BY DEF EInv, TypeOK, OneEntryPerName
<1>2. CASE Has(env, PWD)
  <2>1. GetEnv(env, PWD) \in Values
    BY <1>1, <1>2, FirstHolds
  <2>2. UpdateOldpwd = SetVar(env, OLDPWD, GetEnv(env, PWD))
    BY <1>2 DEF UpdateOldpwd
  <2> DEFINE v == GetEnv(env, PWD)
  <2> HIDE DEF v
  <2>3. v \in Values /\ UpdateOldpwd = SetVar(env, OLDPWD, v) /\ OLDPWD \in Names
    BY <2>1, <2>2, NamesFacts DEF v
  <2>4. /\ UpdateOldpwd \in Seq(Entry) /\ DistinctNames(UpdateOldpwd)
        /\ Has(UpdateOldpwd, OLDPWD) /\ GetEnv(UpdateOldpwd, OLDPWD) = v
        /\ \A m : m # OLDPWD =>
             /\ Has(UpdateOldpwd, m) <=> Has(env, m)
             /\ GetEnv(UpdateOldpwd, m) = GetEnv(env, m)
    BY <1>1, <2>3, SetVarFacts
  <2>5. QED
    BY <1>2, <2>1, <2>4 DEF v
<1>3. CASE ~Has(env, PWD)
  BY <1>1, <1>3 DEF UpdateOldpwd
<1>4. QED
  BY <1>2, <1>3

LEMMA MovesInv ==
  ASSUME EInv, NEW d \in Dirs \cup {NoValue}, Moves(d)
  PROVE  EInv'
<1>1. env' = UpdateOldpwd /\ exported' = exported
  BY DEF Moves
<1>2. env' \in Seq(Entry) /\ DistinctNames(env')
  BY <1>1, UpdateOldpwdFacts
<1>3. TypeOK'
  BY <1>2 DEF EInv, TypeOK, Moves
<1>4. OverlapOnlyByCd'
  BY <1>1, UpdateOldpwdFacts DEF EInv, OverlapOnlyByCd
<1>5. QED
  BY <1>1, <1>2, <1>3, <1>4 DEF EInv, OneEntryPerName, ListedOnce

LEMMA UpdatePwdInv ==
  ASSUME EInv, UpdatePwd
  PROVE  EInv'
<1>1. env \in Seq(Entry) /\ DistinctNames(env) /\ exported' = exported
  BY DEF EInv, TypeOK, OneEntryPerName, UpdatePwd
<1>2. CASE cwd = NoValue
  BY <1>2 DEF EInv, TypeOK, OneEntryPerName, ListedOnce, OverlapOnlyByCd, UpdatePwd
<1>3. CASE cwd # NoValue
  <2>1. env' = SetVar(env, PWD, cwd) /\ cwd \in Values
    BY <1>3, NamesFacts DEF UpdatePwd, EInv, TypeOK
  <2>2. env' \in Seq(Entry) /\ DistinctNames(env')
        /\ \A m : m # PWD => (Has(env', m) <=> Has(env, m))
    BY <1>1, <2>1, SetVarFacts, NamesFacts
  <2>3. TypeOK'
    BY <2>2 DEF EInv, TypeOK, UpdatePwd
  <2>4. OverlapOnlyByCd'
    BY <1>1, <2>2 DEF EInv, OverlapOnlyByCd
  <2>5. QED
    BY <1>1, <2>2, <2>3, <2>4 DEF EInv, OneEntryPerName, ListedOnce
<1>4. QED
  BY <1>2, <1>3

(* The other steps leave the array and the list alone. *)
LEMMA SameVariables ==
  ASSUME EInv, env' = env, exported' = exported,
         cwd' \in Dirs \cup {NoValue}, dirs' \subseteq Dirs,
         pc' = pc, status' \in Nat
  PROVE  EInv'
BY DEF EInv, TypeOK, OneEntryPerName, ListedOnce, OverlapOnlyByCd

(***************************************************************************)
(* The steps by what they are: every one changes the variables as one of   *)
(* the lemmas above says, or moves, or leaves them alone.                  *)
(***************************************************************************)
Idle ==
  /\ env' = env /\ exported' = exported
  /\ cwd' \in {cwd, NoValue} /\ dirs' \subseteq Dirs
  /\ pc' = pc /\ status' \in Nat

LEMMA CdSteps ==
  ASSUME EInv, Cd
  PROVE  Idle \/ \E d \in Dirs \cup {cwd} : Moves(d)
<1>1. \A s \in Nat : CdFails(s) => Idle
  BY DEF CdFails, Idle, EInv, TypeOK
<1>2. \A d : CdTo(d) => Idle \/ (d \in Dirs /\ Moves(d))
  <2>1. dirs \subseteq Dirs /\ 200 \in Nat
    BY DEF EInv, TypeOK
  <2>2. QED
    BY <1>1, <2>1 DEF CdTo
<1>3. QED
  BY <1>1, <1>2 DEF Cd, CdDot, CdHome, CdTooManyArguments

LEMMA StepKinds ==
  ASSUME EInv, Next
  PROVE  \/ \E n \in Names : \/ \E v \in Values : ExportWithValue(n, v)
                             \/ ExportWithoutValue(n)
                             \/ UnsetVar(n)
         \/ \E d \in Dirs \cup {cwd} : Moves(d)
         \/ UpdatePwd
         \/ Idle
<1>1. \A n : ExportInvalid(n) => Idle
  BY DEF ExportInvalid, Idle, EInv, TypeOK
<1>2. PrintEnv => Idle
  BY DEF PrintEnv, Idle, EInv, TypeOK
<1>3. \A d \in Dirs : OthersRemove(d) \/ OthersCreate(d) => Idle
  BY DEF OthersRemove, OthersCreate, Idle, EInv, TypeOK
<1>4. QED
  BY <1>1, <1>2, <1>3, CdSteps DEF Next, Export

LEMMA NextInv == EInv /\ [Next]_vars => EInv'
<1> SUFFICES ASSUME EInv, [Next]_vars PROVE EInv'
  OBVIOUS
<1>0. cwd \in Dirs \cup {NoValue} /\ dirs \subseteq Dirs /\ status \in Nat
  BY DEF EInv, TypeOK
<1>1. CASE \E n \in Names : \E v \in Values : ExportWithValue(n, v)
  BY <1>1, ExportWithValueInv
<1>2. CASE \E n \in Names : ExportWithoutValue(n)
  BY <1>2, ExportWithoutValueInv
<1>3. CASE \E n \in Names : UnsetVar(n)
  BY <1>3, UnsetVarInv
<1>4. CASE \E d \in Dirs \cup {cwd} : Moves(d)
  BY <1>0, <1>4, MovesInv
<1>5. CASE UpdatePwd
  BY <1>5, UpdatePwdInv
<1>6. CASE Idle
  BY <1>0, <1>6, SameVariables DEF Idle
<1>7. CASE UNCHANGED vars
  BY <1>0, <1>7, SameVariables DEF vars
<1>8. QED
  BY <1>1, <1>2, <1>3, <1>4, <1>5, <1>6, <1>7, StepKinds

(***************************************************************************)
(* For every environment the shell is started with, every set of names and *)
(* values, and every sequence of export, unset and cd: no name is twice in *)
(* the array or in the list, and only cd's names are in both.              *)
(***************************************************************************)
THEOREM VariablesInvariance == Spec => []EInv
BY InitInv, NextInv, PTL DEF Spec

(* TypeOK, for every instance. *)
THEOREM VariablesTypes == Spec => []TypeOK
<1>1. EInv => TypeOK
  BY DEF EInv
<1>2. QED
  BY <1>1, VariablesInvariance, PTL

(* No name is twice in the environment a program is started with. *)
THEOREM EnvironmentIsAMap == Spec => []OneEntryPerName
<1>1. EInv => OneEntryPerName
  BY DEF EInv
<1>2. QED
  BY <1>1, VariablesInvariance, PTL

(* What unset removes from the list is gone: no name is in it twice. *)
THEOREM ListIsASet == Spec => []ListedOnce
<1>1. EInv => ListedOnce
  BY DEF EInv
<1>2. QED
  BY <1>1, VariablesInvariance, PTL

(* Only PWD and OLDPWD are ever in both structures. *)
THEOREM OverlapIsCds == Spec => []OverlapOnlyByCd
<1>1. EInv => OverlapOnlyByCd
  BY DEF EInv
<1>2. QED
  BY <1>1, VariablesInvariance, PTL

-----------------------------------------------------------------------------
(***************************************************************************)
(* The refinement of EnvStore.                                             *)
(***************************************************************************)
LEMMA InitStore == Init => Store!StoreInit
<1> SUFFICES ASSUME Init PROVE Store!StoreInit
  OBVIOUS
<1>1. env \in Seq(Entry) /\ DistinctNames(env) /\ DOMAIN exported = {}
  BY EnvironmentAssumption DEF Init
<1>2. \A n \in Names : Contents[n] \in Values \cup {NoValue}
  BY <1>1, FirstHolds DEF Contents, Lists
<1>3. Contents \in [Names -> Values \cup {NoValue}]
  BY <1>2 DEF Contents
<1>4. QED
  BY <1>3 DEF Store!StoreInit, Init

(* The store changes where the array and the list do. *)
LEMMA StoreAt ==
  ASSUME NEW n \in Names, NEW x,
         \A m \in Names : m # n => Contents'[m] = Contents[m],
         Contents'[n] = x
  PROVE  Contents' = [Contents EXCEPT ![n] = x]
<1>1. /\ Contents = [m \in Names |-> Contents[m]]
      /\ Contents' = [m \in Names |-> Contents'[m]]
  BY DEF Contents
<1>2. QED
  BY <1>1

LEMMA ExportWithValueAssigns ==
  ASSUME EInv, NEW n \in Names, NEW v \in Values, ExportWithValue(n, v)
  PROVE  Store!Assign(n, v)
<1>1. /\ env \in Seq(Entry) /\ DistinctNames(env)
      /\ exported \in Seq(Valid) /\ OnceEach(exported)
  BY DEF EInv, TypeOK, OneEntryPerName, ListedOnce, OnceEach
<1>2. /\ env' = SetVar(env, n, v)
      /\ exported' = RemoveExportedVar(exported, n)
      /\ pc = "ready" /\ UNCHANGED <<cwd, pc>>
  BY DEF ExportWithValue
<1>3. Contents'[n] = v
  BY <1>1, <1>2, SetVarFacts DEF Contents
<1>4. \A m \in Names : m # n => Contents'[m] = Contents[m]
  <2> SUFFICES ASSUME NEW m \in Names, m # n PROVE Contents'[m] = Contents[m]
    OBVIOUS
  <2>1. (Has(env', m) <=> Has(env, m)) /\ GetEnv(env', m) = GetEnv(env, m)
    BY <1>1, <1>2, SetVarFacts
  <2>2. Lists(exported', m) <=> Lists(exported, m)
    BY <1>1, <1>2, RemoveExportedVarFacts
  <2>3. QED
    BY <2>1, <2>2 DEF Contents
<1>5. Contents' = [Contents EXCEPT ![n] = v]
  BY <1>3, <1>4, StoreAt
<1>6. QED
  BY <1>2, <1>5 DEF Store!Assign

LEMMA ExportWithoutValueDeclares ==
  ASSUME EInv, NEW n \in Names, ExportWithoutValue(n)
  PROVE  Store!Declare(n) \/ UNCHANGED Store!storeVars
<1>1. exported \in Seq(Valid) /\ OnceEach(exported) /\ n \in Valid
      /\ pc = "ready" /\ UNCHANGED <<env, cwd, pc>>
  BY DEF EInv, TypeOK, ListedOnce, OnceEach, ExportWithoutValue
<1>2. CASE Has(env, n) \/ Lists(exported, n)
  <2>1. exported' = exported
    BY <1>2 DEF ExportWithoutValue, AddExportedVar
  <2>2. QED
    BY <1>1, <2>1 DEF Store!storeVars, Contents
<1>3. CASE ~Has(env, n) /\ ~Lists(exported, n)
  <2>1. \A m : Lists(exported', m) <=> m = n \/ Lists(exported, m)
    BY <1>1, <1>3, AddExportedVarFacts DEF ExportWithoutValue
  <2>2. Contents[n] = NoValue /\ Contents'[n] = Declared
    BY <1>1, <1>3, <2>1 DEF Contents
  <2>3. \A m \in Names : m # n => Contents'[m] = Contents[m]
    BY <1>1, <2>1 DEF Contents
  <2>4. Contents' = [Contents EXCEPT ![n] = Declared]
    BY <2>2, <2>3, StoreAt
  <2>5. QED
    BY <1>1, <2>2, <2>4 DEF Store!Declare
<1>4. QED
  BY <1>2, <1>3

LEMMA UnsetVarErases ==
  ASSUME EInv, NEW n \in Names, UnsetVar(n)
  PROVE  Store!Erase(n)
<1>1. /\ env \in Seq(Entry) /\ DistinctNames(env)
      /\ exported \in Seq(Valid) /\ OnceEach(exported)
  BY DEF EInv, TypeOK, OneEntryPerName, ListedOnce, OnceEach
<1>2. /\ env' = WithoutVar(env, n)
      /\ exported' = RemoveExportedVar(exported, n)
      /\ pc = "ready" /\ UNCHANGED <<cwd, pc>>
  BY DEF UnsetVar
<1>3. Contents'[n] = NoValue
  BY <1>1, <1>2, WithoutVarFacts, RemoveExportedVarFacts DEF Contents
<1>4. \A m \in Names : m # n => Contents'[m] = Contents[m]
  <2> SUFFICES ASSUME NEW m \in Names, m # n PROVE Contents'[m] = Contents[m]
    OBVIOUS
  <2>1. (Has(env', m) <=> Has(env, m)) /\ GetEnv(env', m) = GetEnv(env, m)
    BY <1>1, <1>2, WithoutVarFacts
  <2>2. Lists(exported', m) <=> Lists(exported, m)
    BY <1>1, <1>2, RemoveExportedVarFacts
  <2>3. QED
    BY <2>1, <2>2 DEF Contents
<1>5. Contents' = [Contents EXCEPT ![n] = NoValue]
  BY <1>3, <1>4, StoreAt
<1>6. QED
  BY <1>2, <1>5 DEF Store!Erase

LEMMA MovesLeaves ==
  ASSUME EInv, NEW d \in Dirs \cup {cwd}, Moves(d)
  PROVE  Store!Leave(d)
<1>1. env' = UpdateOldpwd /\ exported' = exported /\ pc = "ready"
      /\ pc' = "moved" /\ cwd' = d
  BY DEF Moves
<1>2. \A m \in Names : m # OLDPWD => Contents'[m] = Contents[m]
  BY <1>1, UpdateOldpwdFacts DEF Contents
<1>3. Contents[PWD] \in Values <=> Has(env, PWD)
  BY UpdateOldpwdFacts, NamesFacts DEF Contents
<1>4. CASE Has(env, PWD)
  <2>1. Contents'[OLDPWD] = GetEnv(env, PWD) /\ Contents[PWD] = GetEnv(env, PWD)
    BY <1>1, <1>4, UpdateOldpwdFacts, NamesFacts DEF Contents
  <2>2. Contents' = [Contents EXCEPT ![OLDPWD] = Contents[PWD]]
    BY <1>2, <2>1, StoreAt, NamesFacts
  <2>3. QED
    BY <1>1, <1>3, <1>4, <2>2 DEF Store!Leave
<1>5. CASE ~Has(env, PWD)
  <2>1. Contents' = Contents
    BY <1>1, <1>5, UpdateOldpwdFacts DEF Contents
  <2>2. [Contents EXCEPT ![OLDPWD] = Contents[OLDPWD]] = Contents
    BY NamesFacts DEF Contents
  <2>3. QED
    BY <1>1, <1>3, <1>5, <2>1, <2>2 DEF Store!Leave
<1>6. QED
  BY <1>4, <1>5

LEMMA UpdatePwdArrives ==
  ASSUME EInv, UpdatePwd
  PROVE  Store!Arrive
<1>1. /\ env \in Seq(Entry) /\ DistinctNames(env) /\ exported' = exported
      /\ pc = "moved" /\ pc' = "ready" /\ cwd' = cwd
      /\ cwd \in Dirs \cup {NoValue}
  BY DEF EInv, TypeOK, OneEntryPerName, UpdatePwd
<1>2. CASE cwd = NoValue
  <2>1. Contents' = Contents
    BY <1>1, <1>2 DEF UpdatePwd, Contents
  <2>2. [Contents EXCEPT ![PWD] = Contents[PWD]] = Contents
    BY NamesFacts DEF Contents
  <2>3. QED
    BY <1>1, <1>2, <2>1, <2>2, NamesFacts DEF Store!Arrive
<1>3. CASE cwd # NoValue
  <2>1. env' = SetVar(env, PWD, cwd) /\ cwd \in Values /\ cwd \in Dirs
    BY <1>1, <1>3, NamesFacts DEF UpdatePwd
  <2>2. /\ Has(env', PWD) /\ GetEnv(env', PWD) = cwd
        /\ \A m : m # PWD => /\ Has(env', m) <=> Has(env, m)
                             /\ GetEnv(env', m) = GetEnv(env, m)
    BY <1>1, <2>1, SetVarFacts, NamesFacts
  <2>3. Contents'[PWD] = cwd
    BY <2>2, NamesFacts DEF Contents
  <2>4. \A m \in Names : m # PWD => Contents'[m] = Contents[m]
    BY <1>1, <2>2 DEF Contents
  <2>5. Contents' = [Contents EXCEPT ![PWD] = cwd]
    BY <2>3, <2>4, StoreAt, NamesFacts
  <2>6. QED
    BY <1>1, <2>1, <2>5 DEF Store!Arrive
<1>4. QED
  BY <1>2, <1>3

LEMMA NextStore == EInv /\ [Next]_vars => [Store!StoreNext]_(Store!storeVars)
<1> SUFFICES ASSUME EInv, [Next]_vars
             PROVE  Store!StoreNext \/ UNCHANGED Store!storeVars
  OBVIOUS
<1>1. CASE \E n \in Names : \E v \in Values : ExportWithValue(n, v)
  BY <1>1, ExportWithValueAssigns DEF Store!StoreNext
<1>2. CASE \E n \in Names : ExportWithoutValue(n)
  BY <1>2, ExportWithoutValueDeclares DEF Store!StoreNext
<1>3. CASE \E n \in Names : UnsetVar(n)
  BY <1>3, UnsetVarErases DEF Store!StoreNext
<1>4. CASE \E d \in Dirs \cup {cwd} : Moves(d)
  BY <1>4, MovesLeaves DEF Store!StoreNext
<1>5. CASE UpdatePwd
  BY <1>5, UpdatePwdArrives DEF Store!StoreNext
<1>6. CASE Idle
  BY <1>6 DEF Idle, Contents, Store!StoreNext, Store!Removed, Store!storeVars
<1>7. CASE UNCHANGED vars
  BY <1>7 DEF vars, Contents, Store!storeVars
<1>8. QED
  BY <1>1, <1>2, <1>3, <1>4, <1>5, <1>6, <1>7, StepKinds

(***************************************************************************)
(* The array and the list together are one store: export, unset and cd do  *)
(* to each name what EnvStore says, whatever was done to it before, also   *)
(* where a name is in both.                                                *)
(***************************************************************************)
THEOREM VariablesAreAStore == Spec => BehavesAsStore
<1>1. Spec => Store!StoreInit
  BY InitStore DEF Spec
<1>2. Spec => [][Store!StoreNext]_(Store!storeVars)
  BY NextStore, VariablesInvariance, PTL DEF Spec
<1>3. QED
  BY <1>1, <1>2 DEF BehavesAsStore, Store!StoreSpec

-----------------------------------------------------------------------------
(***************************************************************************)
(* The sort: a pass and the sequence of passes are defined by recursion,   *)
(* over as many steps as the array has lines.                              *)
(***************************************************************************)
LEMMA Induction ==
  ASSUME NEW S, S \subseteq Nat, 0 \in S, \A n \in S : n + 1 \in S
  PROVE  Nat \subseteq S
<1> SUFFICES ASSUME Nat \ S # {} PROVE FALSE
  OBVIOUS
<1>1. PICK x \in Nat \ S : \A y \in Nat \ S : x <= y
  BY LeastNumber
<1>2. x - 1 \in Nat /\ x - 1 \notin Nat \ S
  BY <1>1
<1>3. (x - 1) + 1 \in S
  BY <1>2
<1>4. QED
  BY <1>1, <1>3

(* What is repeated n times, a step at a time, has a result every time. *)
Iterates(f, n, x0, G) ==
  f[0] = x0 /\ \A k \in 1 .. n : f[k] = G[<<k, f[k - 1]>>]

LEMMA Iteration ==
  ASSUME NEW X, NEW x0 \in X, NEW G \in [Nat \X X -> X], NEW n \in Nat
  PROVE  \E f \in [0 .. n -> X] : Iterates(f, n, x0, G)
<1> USE DEF Iterates
<1> DEFINE Good(m, f) == f \in [0 .. m -> X] /\ Iterates(f, m, x0, G)
           S == {m \in Nat : \E f : Good(m, f)}
<1>1. 0 \in S
  <2>1. Good(0, [k \in 0 .. 0 |-> x0])
    OBVIOUS
  <2>2. QED
    BY <2>1
<1>2. \A m \in S : m + 1 \in S
  <2> SUFFICES ASSUME NEW m \in Nat, NEW f, Good(m, f)
               PROVE  \E g : Good(m + 1, g)
    OBVIOUS
  <2> DEFINE y == G[<<m + 1, f[m]>>]
             g == [k \in 0 .. m + 1 |-> IF k = m + 1 THEN y ELSE f[k]]
  <2>1. y \in X
    <3>1. f[m] \in X
      OBVIOUS
    <3>2. QED
      BY <3>1
  <2>2. \A k \in 0 .. m : g[k] = f[k] /\ f[k] \in X
    OBVIOUS
  <2>3. g[m + 1] = y
    OBVIOUS
  <2>4. g \in [0 .. m + 1 -> X]
    <3>1. \A k \in 0 .. m + 1 : k = m + 1 \/ k \in 0 .. m
      OBVIOUS
    <3>2. QED
      BY <2>1, <2>2, <2>3, <3>1
  <2>5. g[0] = x0
    BY <2>2
  <2>6. \A k \in 1 .. m + 1 : g[k] = G[<<k, g[k - 1]>>]
    <3> SUFFICES ASSUME NEW k \in 1 .. m + 1
                 PROVE  g[k] = G[<<k, g[k - 1]>>]
      OBVIOUS
    <3>1. g[k - 1] = f[k - 1]
      <4>1. k - 1 \in 0 .. m
        OBVIOUS
      <4>2. QED
        BY <2>2, <4>1
    <3>2. CASE k = m + 1
      <4>1. k - 1 = m
        BY <3>2
      <4>2. g[k - 1] = f[m]
        BY <3>1, <4>1
      <4> HIDE DEF g
      <4>3. QED
        BY <2>3, <3>2, <4>2
    <3>3. CASE k \in 1 .. m
      BY <2>2, <3>1, <3>3
    <3>4. QED
      BY <3>2, <3>3
  <2>7. QED
    BY <2>4, <2>5, <2>6
<1>3. n \in S
  BY <1>1, <1>2, Induction
<1>4. QED
  BY <1>3

(* The arrays that have the lines of s, each as often, in another order. *)
OnceOnly(s) == \A i, k \in DOMAIN s : s[i] = s[k] => i = k

Arrays(s) == {t \in Seq(Printable) : Len(t) = Len(s)}

SameLines(t, s) ==
  /\ t \in Arrays(s)
  /\ OnceOnly(t)
  /\ \A i \in DOMAIN t : \E k \in DOMAIN s : s[k] = t[i]
  /\ \A k \in DOMAIN s : \E i \in DOMAIN t : t[i] = s[k]

LEMMA SwapIsTyped ==
  ASSUME NEW s \in Seq(Printable), NEW t \in Arrays(s), NEW k \in 1 .. Len(s) - 1
  PROVE  SwapIfGreater(t, k) \in Arrays(s)
<1>1. k \in 1 .. Len(t) /\ k + 1 \in 1 .. Len(t) /\ t \in Seq(Printable)
  BY DEF Arrays
<1>2. QED
  BY <1>1 DEF Arrays, SwapIfGreater

LEMMA PassSteps ==
  ASSUME NEW s \in Seq(Printable), Len(s) >= 2
  PROVE  /\ Pass(s)[0] = s
         /\ \A k \in 1 .. Len(s) - 1 :
              Pass(s)[k] = SwapIfGreater(Pass(s)[k - 1], k)
<1> DEFINE n == Len(s) - 1
           X == Arrays(s)
           G == [p \in Nat \X X |->
                   IF p[1] \in 1 .. n THEN SwapIfGreater(p[2], p[1]) ELSE s]
           Is(f) == f = [k \in 0 .. n |->
                           IF k = 0 THEN s ELSE SwapIfGreater(f[k - 1], k)]
<1>1. n \in Nat /\ s \in X
  BY DEF Arrays
<1>2. G \in [Nat \X X -> X]
  <2>1. \A p \in Nat \X X : p[2] \in X
    OBVIOUS
  <2>2. \A p \in Nat \X X : p[1] \in 1 .. n => SwapIfGreater(p[2], p[1]) \in X
    BY <2>1, SwapIsTyped
  <2> HIDE DEF X
  <2>3. QED
    BY <1>1, <2>2
<1>3. PICK f \in [0 .. n -> X] : Iterates(f, n, s, G)
  <2> HIDE DEF G, X, n
  <2>1. QED
    BY <1>1, <1>2, Iteration
<1>4. \A k \in 1 .. n : f[k] = SwapIfGreater(f[k - 1], k)
  <2> SUFFICES ASSUME NEW k \in 1 .. n PROVE f[k] = SwapIfGreater(f[k - 1], k)
    OBVIOUS
  <2>1. <<k, f[k - 1]>> \in Nat \X X
    <3>1. k \in Nat /\ k - 1 \in 0 .. n
      BY <1>1
    <3> HIDE DEF X, n
    <3>2. QED
      BY <3>1
  <2> DEFINE q == <<k, f[k - 1]>>
  <2>2. q[1] = k /\ q[2] = f[k - 1]
    OBVIOUS
  <2>3. G[q] = SwapIfGreater(q[2], q[1])
    <3> HIDE DEF X, n, q
    <3>1. QED
      BY <2>1, <2>2 DEF q
  <2>4. QED
    BY <1>3, <2>2, <2>3 DEF Iterates
<1>5. Is(f)
  <2>1. \A k \in 0 .. n : f[k] = IF k = 0 THEN s ELSE SwapIfGreater(f[k - 1], k)
    <3>1. \A k \in 0 .. n : k = 0 \/ k \in 1 .. n
      BY <1>1
    <3> HIDE DEF n
    <3>2. QED
      BY <1>3, <1>4, <3>1 DEF Iterates
  <2> HIDE DEF n
  <2>2. QED
    BY <2>1
<1>6. Is(CHOOSE g : Is(g))
  <2> HIDE DEF Is
  <2>1. QED
    BY <1>5
<1>7. Is(Pass(s))
  BY <1>6 DEF Pass
<1> DEFINE p == Pass(s)
<1> HIDE DEF p
<1>8. p = [k \in 0 .. n |-> IF k = 0 THEN s ELSE SwapIfGreater(p[k - 1], k)]
  BY <1>7 DEF p
<1>9. p[0] = s /\ \A k \in 1 .. n : p[k] = SwapIfGreater(p[k - 1], k)
  <2>1. 0 \in 0 .. n /\ \A k \in 1 .. n : k \in 0 .. n /\ k # 0
    BY <1>1
  <2> HIDE DEF n
  <2>2. QED
    BY <1>8, <2>1
<1>10. QED
  BY <1>9 DEF p

LEMMA RankFacts ==
  /\ \A a \in Printable : Rank[a] \in Nat
  /\ \A a, b \in Printable : Rank[a] = Rank[b] => a = b
BY RankAssumption

LEMMA ArrayFacts ==
  ASSUME NEW s \in Seq(Printable), NEW t \in Arrays(s)
  PROVE  /\ t \in Seq(Printable) /\ Len(t) = Len(s) /\ Len(s) \in Nat
         /\ DOMAIN t = 1 .. Len(s) /\ DOMAIN s = 1 .. Len(s)
         /\ \A j \in 1 .. Len(s) : t[j] \in Printable /\ Rank[t[j]] \in Nat
<1>1. t \in Seq(Printable) /\ Len(t) = Len(s)
  BY DEF Arrays
<1>2. Len(s) \in Nat /\ DOMAIN t = 1 .. Len(s) /\ DOMAIN s = 1 .. Len(s)
  BY <1>1
<1>3. \A j \in 1 .. Len(s) : t[j] \in Printable
  BY <1>1, <1>2
<1>4. QED
  BY <1>1, <1>2, <1>3, RankFacts

(* One comparison: the lines stay, and the greater of the two is second. *)
LEMMA SwapFacts ==
  ASSUME NEW s \in Seq(Printable), NEW t, SameLines(t, s),
         NEW k \in 1 .. Len(s) - 1
  PROVE  LET u == SwapIfGreater(t, k)
         IN  /\ SameLines(u, s)
             /\ \A j \in 1 .. Len(s) : j # k /\ j # k + 1 => u[j] = t[j]
             /\ Rank[u[k]] <= Rank[u[k + 1]]
             /\ Rank[t[k + 1]] <= Rank[u[k + 1]]
             /\ Rank[t[k]] <= Rank[u[k + 1]]
<1> DEFINE u == SwapIfGreater(t, k)
           M == Len(s)
<1>1. t \in Arrays(s)
  BY DEF SameLines
<1>2. /\ M \in Nat /\ k \in Nat /\ k \in 1 .. M /\ k + 1 \in 1 .. M /\ k # k + 1
      /\ DOMAIN t = 1 .. M /\ DOMAIN s = 1 .. M
      /\ \A j \in 1 .. M : t[j] \in Printable /\ Rank[t[j]] \in Nat
  BY <1>1, ArrayFacts
<1>3. u \in Arrays(s)
  BY <1>1, SwapIsTyped
<1>4. DOMAIN u = 1 .. M
  BY <1>3, ArrayFacts
<1>5. CASE Rank[t[k]] > Rank[t[k + 1]]
  <2>1. u = [t EXCEPT ![k] = t[k + 1], ![k + 1] = t[k]]
    BY <1>5 DEF SwapIfGreater
  <2>2. u[k] = t[k + 1] /\ u[k + 1] = t[k]
        /\ \A j \in 1 .. M : j # k /\ j # k + 1 => u[j] = t[j]
    <3> HIDE DEF u, M
    <3>1. k \in DOMAIN t /\ k + 1 \in DOMAIN t
      BY <1>2
    <3>2. u[k] = t[k + 1]
      BY <1>2, <2>1, <3>1
    <3>3. u[k + 1] = t[k]
      BY <1>2, <2>1, <3>1
    <3>4. \A j \in DOMAIN t : j # k /\ j # k + 1 => u[j] = t[j]
      BY <2>1
    <3>5. QED
      BY <1>2, <3>2, <3>3, <3>4
  <2> HIDE DEF u, M
  <2>3. OnceOnly(u)
    <3> DEFINE w(j) == IF j = k THEN k + 1 ELSE IF j = k + 1 THEN k ELSE j
    <3>1. \A j \in 1 .. M : w(j) \in 1 .. M /\ u[j] = t[w(j)]
      BY <1>2, <2>2
    <3>2. \A i, l \in 1 .. M : w(i) = w(l) => i = l
      BY <1>2
    <3>3. \A i, l \in 1 .. M : t[i] = t[l] => i = l
      BY <1>2 DEF SameLines, OnceOnly
    <3> HIDE DEF w
    <3>4. QED
      BY <1>4, <3>1, <3>2, <3>3 DEF OnceOnly
  <2>4. \A i \in DOMAIN u : \E l \in DOMAIN t : t[l] = u[i]
    BY <1>2, <1>4, <2>2
  <2>5. \A l \in DOMAIN t : \E i \in DOMAIN u : u[i] = t[l]
    BY <1>2, <1>4, <2>2
  <2>6. \A i \in DOMAIN u : \E l \in DOMAIN s : s[l] = u[i]
    <3>1. \A i \in DOMAIN t : \E l \in DOMAIN s : s[l] = t[i]
      BY DEF SameLines
    <3>2. QED
      BY <2>4, <3>1
  <2>7. \A l \in DOMAIN s : \E i \in DOMAIN u : u[i] = s[l]
    <3>1. \A l \in DOMAIN s : \E i \in DOMAIN t : t[i] = s[l]
      BY DEF SameLines
    <3>2. QED
      BY <2>5, <3>1
  <2>8. SameLines(u, s)
    BY <1>3, <2>3, <2>6, <2>7 DEF SameLines
  <2>9. QED
    BY <1>2, <1>5, <2>2, <2>8 DEF u, M
<1>6. CASE ~(Rank[t[k]] > Rank[t[k + 1]])
  <2>1. u = t
    BY <1>6 DEF SwapIfGreater
  <2>2. Rank[t[k]] <= Rank[t[k + 1]]
    BY <1>2, <1>6
  <2>3. QED
    BY <1>2, <2>1, <2>2
<1>7. QED
  BY <1>5, <1>6

(* After k comparisons the greatest of the first k + 1 lines is there. *)
Carried(t, s, k) ==
  /\ SameLines(t, s)
  /\ \A j \in k + 2 .. Len(s) : t[j] = s[j]
  /\ \A j \in 1 .. k : Rank[t[j]] <= Rank[t[k + 1]]

LEMMA SwapCarries ==
  ASSUME NEW s \in Seq(Printable), NEW t, NEW k \in 1 .. Len(s) - 1,
         Carried(t, s, k - 1)
  PROVE  Carried(SwapIfGreater(t, k), s, k)
<1> DEFINE u == SwapIfGreater(t, k)
           M == Len(s)
<1>1. /\ M \in Nat /\ k \in Nat /\ k \in 1 .. M - 1
      /\ (k - 1) + 1 = k /\ (k - 1) + 2 = k + 1
  OBVIOUS
<1>2. /\ SameLines(t, s)
      /\ \A j \in k + 1 .. M : t[j] = s[j]
      /\ \A j \in 1 .. k - 1 : Rank[t[j]] <= Rank[t[k]]
  BY <1>1 DEF Carried
<1>3. /\ SameLines(u, s)
      /\ \A j \in 1 .. M : j # k /\ j # k + 1 => u[j] = t[j]
      /\ Rank[u[k]] <= Rank[u[k + 1]]
      /\ Rank[t[k]] <= Rank[u[k + 1]]
  BY <1>2, SwapFacts
<1>4. \A j \in 1 .. M : Rank[t[j]] \in Nat /\ Rank[u[j]] \in Nat
  <2>1. t \in Arrays(s) /\ u \in Arrays(s)
    BY <1>2, <1>3 DEF SameLines
  <2>2. QED
    BY <2>1, ArrayFacts
<1> HIDE DEF u, M
<1>5. \A j \in k + 2 .. M : u[j] = s[j]
  <2> TAKE j \in k + 2 .. M
  <2>1. j \in k + 1 .. M /\ j \in 1 .. M /\ j # k /\ j # k + 1
    BY <1>1
  <2>2. QED
    BY <1>2, <1>3, <2>1
<1>6. \A j \in 1 .. k : Rank[u[j]] <= Rank[u[k + 1]]
  <2> TAKE j \in 1 .. k
  <2>1. CASE j = k
    BY <1>3, <2>1
  <2>2. CASE j # k
    <3>1. j \in 1 .. k - 1 /\ j \in 1 .. M /\ j # k + 1 /\ k \in 1 .. M
          /\ k + 1 \in 1 .. M
      BY <1>1, <2>2
    <3>2. u[j] = t[j] /\ Rank[t[j]] <= Rank[t[k]]
      BY <1>2, <1>3, <2>2, <3>1
    <3>3. QED
      BY <1>3, <1>4, <3>1, <3>2
  <2>3. QED
    BY <2>1, <2>2
<1>7. QED
  BY <1>3, <1>5, <1>6 DEF Carried, u, M

LEMMA PassCarries ==
  ASSUME NEW s \in Seq(Printable), Len(s) >= 2, OnceOnly(s)
  PROVE  \A k \in 0 .. Len(s) - 1 : Carried(Pass(s)[k], s, k)
<1> DEFINE p == Pass(s)
           S == {k \in Nat : k <= Len(s) - 1 => Carried(p[k], s, k)}
<1>1. Len(s) \in Nat
  OBVIOUS
<1>2. p[0] = s /\ \A k \in 1 .. Len(s) - 1 : p[k] = SwapIfGreater(p[k - 1], k)
  BY PassSteps
<1> HIDE DEF p
<1>3. 0 \in S
  <2>1. SameLines(s, s)
    BY DEF SameLines, Arrays
  <2>2. Carried(s, s, 0)
    BY <1>1, <2>1 DEF Carried
  <2>3. QED
    BY <1>2, <2>2
<1>4. \A k \in S : k + 1 \in S
  <2> SUFFICES ASSUME NEW k \in Nat, k <= Len(s) - 1 => Carried(p[k], s, k),
                      k + 1 <= Len(s) - 1
               PROVE  Carried(p[k + 1], s, k + 1)
    OBVIOUS
  <2>1. k + 1 \in 1 .. Len(s) - 1 /\ (k + 1) - 1 = k /\ Carried(p[k], s, k)
    BY <1>1
  <2>2. p[k + 1] = SwapIfGreater(p[k], k + 1)
    <3>1. p[k + 1] = SwapIfGreater(p[(k + 1) - 1], k + 1)
      BY <1>2, <2>1
    <3>2. QED
      BY <2>1, <3>1
  <2>3. Carried(SwapIfGreater(p[k], k + 1), s, k + 1)
    <3>1. Carried(p[k], s, (k + 1) - 1)
      BY <2>1
    <3>2. QED
      BY <2>1, <3>1, SwapCarries
  <2>4. QED
    BY <2>2, <2>3
<1>5. Nat \subseteq S
  BY <1>3, <1>4, Induction
<1>6. QED
  BY <1>1, <1>5 DEF p

-----------------------------------------------------------------------------
(***************************************************************************)
(* The passes: after i of them the last i lines are in their places.       *)
(***************************************************************************)
LEMMA SameLinesIsTransitive ==
  ASSUME NEW s, NEW t, NEW u, SameLines(t, s), SameLines(u, t)
  PROVE  SameLines(u, s)
<1>1. u \in Arrays(s)
  BY DEF SameLines, Arrays
<1>2. \A i \in DOMAIN u : \E k \in DOMAIN s : s[k] = u[i]
  <2> TAKE i \in DOMAIN u
  <2>1. PICK l \in DOMAIN t : t[l] = u[i]
    BY DEF SameLines
  <2>2. QED
    BY <2>1 DEF SameLines
<1>3. \A k \in DOMAIN s : \E i \in DOMAIN u : u[i] = s[k]
  <2> TAKE k \in DOMAIN s
  <2>1. PICK l \in DOMAIN t : t[l] = s[k]
    BY DEF SameLines
  <2>2. QED
    BY <2>1 DEF SameLines
<1>4. QED
  BY <1>1, <1>2, <1>3 DEF SameLines

LEMMA SortPassCarries ==
  ASSUME NEW s \in Seq(Printable), Len(s) >= 2, NEW t, SameLines(t, s),
         NEW i \in 1 .. Len(s) - 1
  PROVE  /\ Carried(SortPass(t, i), t, Len(s) - i)
         /\ SameLines(SortPass(t, i), s)
<1>1. t \in Seq(Printable) /\ Len(t) = Len(s) /\ OnceOnly(t)
  BY DEF SameLines, Arrays
<1>2. Len(t) - i \in 0 .. Len(t) - 1
  BY <1>1
<1>3. Carried(SortPass(t, i), t, Len(t) - i)
  BY <1>1, <1>2, PassCarries DEF SortPass
<1>4. QED
  BY <1>1, <1>3, SameLinesIsTransitive DEF Carried

LEMMA PassesSteps ==
  ASSUME NEW s \in Seq(Printable), Len(s) >= 2, OnceOnly(s)
  PROVE  /\ Passes(s)[0] = s
         /\ \A i \in 1 .. Len(s) - 1 :
              Passes(s)[i] = SortPass(Passes(s)[i - 1], i)
<1> DEFINE n == Len(s) - 1
           X == {t \in Arrays(s) : SameLines(t, s)}
           G == [p \in Nat \X X |->
                   IF p[1] \in 1 .. n THEN SortPass(p[2], p[1]) ELSE s]
           Is(f) == f = [i \in 0 .. n |->
                           IF i = 0 THEN s ELSE SortPass(f[i - 1], i)]
<1>1. n \in Nat /\ s \in X
  BY DEF Arrays, SameLines
<1>2. G \in [Nat \X X -> X]
  <2>1. \A p \in Nat \X X : p[2] \in X
    OBVIOUS
  <2>2. \A p \in Nat \X X : p[1] \in 1 .. n => SortPass(p[2], p[1]) \in X
    <3>1. \A t \in X : \A i \in 1 .. n : SortPass(t, i) \in X
      <4> TAKE t \in X
      <4> TAKE i \in 1 .. n
      <4>1. SameLines(SortPass(t, i), s)
        BY SortPassCarries
      <4>2. QED
        BY <4>1 DEF SameLines
    <3> HIDE DEF X, n
    <3>2. QED
      BY <2>1, <3>1
  <2> HIDE DEF X
  <2>3. QED
    BY <1>1, <2>2
<1>3. PICK f \in [0 .. n -> X] : Iterates(f, n, s, G)
  <2> HIDE DEF G, X, n
  <2>1. QED
    BY <1>1, <1>2, Iteration
<1>4. \A i \in 1 .. n : f[i] = SortPass(f[i - 1], i)
  <2> SUFFICES ASSUME NEW i \in 1 .. n PROVE f[i] = SortPass(f[i - 1], i)
    OBVIOUS
  <2> DEFINE q == <<i, f[i - 1]>>
  <2>1. q \in Nat \X X
    <3>1. i \in Nat /\ i - 1 \in 0 .. n
      BY <1>1
    <3> HIDE DEF X, n
    <3>2. QED
      BY <3>1
  <2>2. q[1] = i /\ q[2] = f[i - 1]
    OBVIOUS
  <2>3. G[q] = SortPass(q[2], q[1])
    <3> HIDE DEF X, n, q
    <3>1. QED
      BY <2>1, <2>2
  <2>4. QED
    BY <1>3, <2>2, <2>3 DEF Iterates
<1>5. Is(f)
  <2>1. \A i \in 0 .. n : f[i] = IF i = 0 THEN s ELSE SortPass(f[i - 1], i)
    <3>1. \A i \in 0 .. n : i = 0 \/ i \in 1 .. n
      BY <1>1
    <3> HIDE DEF n
    <3>2. QED
      BY <1>3, <1>4, <3>1 DEF Iterates
  <2> HIDE DEF n
  <2>2. QED
    BY <2>1
<1>6. Is(CHOOSE g : Is(g))
  <2> HIDE DEF Is
  <2>1. QED
    BY <1>5
<1>7. Is(Passes(s))
  BY <1>6 DEF Passes
<1> DEFINE p == Passes(s)
<1> HIDE DEF p
<1>8. p = [i \in 0 .. n |-> IF i = 0 THEN s ELSE SortPass(p[i - 1], i)]
  BY <1>7 DEF p
<1>9. p[0] = s /\ \A i \in 1 .. n : p[i] = SortPass(p[i - 1], i)
  <2>1. 0 \in 0 .. n /\ \A i \in 1 .. n : i \in 0 .. n /\ i # 0
    BY <1>1
  <2> HIDE DEF n
  <2>2. QED
    BY <1>8, <2>1
<1>10. QED
  BY <1>9 DEF p

(* The last i lines are in order, and above all the others. *)
Settled(t, s, i) ==
  /\ SameLines(t, s)
  /\ \A j \in Len(s) - i + 1 .. Len(s) :
       \A l \in 1 .. j - 1 : Rank[t[l]] < Rank[t[j]]

LEMMA PassSettles ==
  ASSUME NEW s \in Seq(Printable), Len(s) >= 2,
         NEW t, NEW i \in 1 .. Len(s) - 1, Settled(t, s, i - 1)
  PROVE  Settled(SortPass(t, i), s, i)
<1> DEFINE M == Len(s)
           u == SortPass(t, i)
           m == M - i
<1>1. M \in Nat /\ i \in Nat /\ m \in Nat /\ m \in 1 .. M - 1 /\ m + 1 \in 1 .. M
      /\ M - (i - 1) + 1 = m + 2 /\ M - i + 1 = m + 1
  OBVIOUS
<1>2. /\ SameLines(t, s)
      /\ \A j \in m + 2 .. M : \A l \in 1 .. j - 1 : Rank[t[l]] < Rank[t[j]]
  BY <1>1 DEF Settled
<1>3. /\ SameLines(u, t) /\ SameLines(u, s)
      /\ \A j \in m + 2 .. M : u[j] = t[j]
      /\ \A j \in 1 .. m : Rank[u[j]] <= Rank[u[m + 1]]
  <2>1. Len(t) = M
    BY <1>2 DEF SameLines, Arrays
  <2>2. Carried(u, t, m) /\ SameLines(u, s)
    BY <1>2, SortPassCarries
  <2>3. QED
    BY <2>1, <2>2 DEF Carried
<1>4. /\ DOMAIN t = 1 .. M /\ DOMAIN u = 1 .. M
      /\ \A j \in 1 .. M : t[j] \in Printable /\ Rank[t[j]] \in Nat
      /\ \A j \in 1 .. M : u[j] \in Printable /\ Rank[u[j]] \in Nat
      /\ \A j, l \in 1 .. M : u[j] = u[l] => j = l
  <2>1. t \in Arrays(s) /\ u \in Arrays(s) /\ OnceOnly(u)
    BY <1>2, <1>3 DEF SameLines
  <2>2. /\ DOMAIN t = 1 .. M /\ DOMAIN u = 1 .. M
        /\ \A j \in 1 .. M : t[j] \in Printable /\ Rank[t[j]] \in Nat
        /\ \A j \in 1 .. M : u[j] \in Printable /\ Rank[u[j]] \in Nat
    BY <2>1, ArrayFacts
  <2>3. QED
    BY <2>1, <2>2 DEF OnceOnly
<1> HIDE DEF M, u, m
<1>5. \A l \in 1 .. m : Rank[u[l]] < Rank[u[m + 1]]
  <2> TAKE l \in 1 .. m
  <2>1. l \in 1 .. M /\ l # m + 1 /\ m + 1 \in 1 .. M
    BY <1>1
  <2>2. Rank[u[l]] # Rank[u[m + 1]]
    BY <1>4, <2>1, RankFacts
  <2>3. QED
    BY <1>3, <1>4, <2>1, <2>2
<1>6. \A j \in m + 2 .. M : \A l \in 1 .. j - 1 : Rank[u[l]] < Rank[u[j]]
  <2> TAKE j \in m + 2 .. M
  <2> TAKE l \in 1 .. j - 1
  <2>1. j \in 1 .. M /\ l \in 1 .. M
    BY <1>1
  <2>2. PICK k \in 1 .. M : t[k] = u[l]
    BY <1>3, <1>4, <2>1 DEF SameLines
  <2>3. k < j
    <3>1. CASE k \in m + 2 .. M
      <4>1. u[k] = u[l]
        BY <1>3, <2>2, <3>1
      <4>2. k = l
        BY <1>4, <2>1, <2>2, <4>1
      <4>3. QED
        BY <4>2
    <3>2. CASE k \notin m + 2 .. M
      BY <1>1, <3>2
    <3>3. QED
      BY <3>1, <3>2
  <2>4. k \in 1 .. j - 1
    BY <1>1, <2>3
  <2>5. Rank[t[k]] < Rank[t[j]]
    BY <1>2, <2>4
  <2>6. QED
    BY <1>3, <2>2, <2>5
<1>7. \A j \in m + 1 .. M : \A l \in 1 .. j - 1 : Rank[u[l]] < Rank[u[j]]
  <2> TAKE j \in m + 1 .. M
  <2>1. CASE j = m + 1
    <3>1. j - 1 = m
      BY <1>1, <2>1
    <3>2. QED
      BY <1>5, <2>1, <3>1
  <2>2. CASE j # m + 1
    <3>1. j \in m + 2 .. M
      BY <1>1, <2>2
    <3>2. QED
      BY <1>6, <3>1
  <2>3. QED
    BY <2>1, <2>2
<1>8. QED
  BY <1>1, <1>3, <1>7 DEF Settled, M, u, m

LEMMA SortSettles ==
  ASSUME NEW s \in Seq(Printable), OnceOnly(s)
  PROVE  /\ SameLines(SortEnvArray(s), s)
         /\ \A k \in 1 .. Len(s) - 1 :
              Rank[SortEnvArray(s)[k]] < Rank[SortEnvArray(s)[k + 1]]
<1>1. Len(s) \in Nat /\ SameLines(s, s)
  BY DEF SameLines, Arrays
<1>2. CASE Len(s) < 2
  <2>1. SortEnvArray(s) = s /\ 1 .. Len(s) - 1 = {}
    BY <1>1, <1>2 DEF SortEnvArray
  <2>2. QED
    BY <1>1, <2>1
<1>3. CASE Len(s) >= 2
  <2> DEFINE p == Passes(s)
             S == {i \in Nat : i <= Len(s) - 1 => Settled(p[i], s, i)}
  <2>1. p[0] = s /\ \A i \in 1 .. Len(s) - 1 : p[i] = SortPass(p[i - 1], i)
    BY <1>3, PassesSteps
  <2>2. SortEnvArray(s) = p[Len(s) - 1]
    BY <1>1, <1>3 DEF SortEnvArray
  <2> HIDE DEF p
  <2>3. 0 \in S
    <3>1. Settled(s, s, 0)
      BY <1>1 DEF Settled
    <3>2. QED
      BY <2>1, <3>1
  <2>4. \A i \in S : i + 1 \in S
    <3> SUFFICES ASSUME NEW i \in Nat, i <= Len(s) - 1 => Settled(p[i], s, i),
                        i + 1 <= Len(s) - 1
                 PROVE  Settled(p[i + 1], s, i + 1)
      OBVIOUS
    <3>1. i + 1 \in 1 .. Len(s) - 1 /\ (i + 1) - 1 = i /\ Settled(p[i], s, i)
      BY <1>1
    <3>2. p[i + 1] = SortPass(p[i], i + 1)
      <4>1. p[i + 1] = SortPass(p[(i + 1) - 1], i + 1)
        BY <2>1, <3>1
      <4>2. QED
        BY <3>1, <4>1
    <3>3. Settled(p[i], s, (i + 1) - 1)
      BY <3>1
    <3>4. Settled(SortPass(p[i], i + 1), s, i + 1)
      BY <1>3, <3>1, <3>3, PassSettles
    <3>5. QED
      BY <3>2, <3>4
  <2>5. Nat \subseteq S
    BY <2>3, <2>4, Induction
  <2>6. Settled(SortEnvArray(s), s, Len(s) - 1)
    BY <1>1, <1>3, <2>2, <2>5
  <2> DEFINE r == SortEnvArray(s)
  <2> HIDE DEF r
  <2>7. SameLines(r, s)
        /\ \A j \in Len(s) - (Len(s) - 1) + 1 .. Len(s) :
             \A l \in 1 .. j - 1 : Rank[r[l]] < Rank[r[j]]
    BY <2>6 DEF Settled, r
  <2>8. \A k \in 1 .. Len(s) - 1 : Rank[r[k]] < Rank[r[k + 1]]
    <3> TAKE k \in 1 .. Len(s) - 1
    <3>1. /\ k + 1 \in Len(s) - (Len(s) - 1) + 1 .. Len(s)
          /\ k \in 1 .. (k + 1) - 1
      BY <1>1
    <3>2. QED
      BY <2>7, <3>1
  <2>9. QED
    BY <2>7, <2>8 DEF r
<1>4. QED
  BY <1>1, <1>2, <1>3

-----------------------------------------------------------------------------
(***************************************************************************)
(* What is sorted: the entries and the listed names, no line twice.        *)
(***************************************************************************)
Line(n, v) == [name |-> n, value |-> v]

LEMMA LineFacts ==
  \A n, v : Line(n, v).name = n /\ Line(n, v).value = v
BY DEF Line

LEMMA Concatenation ==
  ASSUME NEW S, NEW s \in Seq(S), NEW t \in Seq(S)
  PROVE  /\ s \o t \in Seq(S)
         /\ Len(s \o t) = Len(s) + Len(t)
         /\ \A k \in 1 .. Len(s) : (s \o t)[k] = s[k]
         /\ \A k \in Len(s) + 1 .. Len(s) + Len(t) : (s \o t)[k] = t[k - Len(s)]
<1>1. s \o t \in Seq(S) /\ Len(s \o t) = Len(s) + Len(t)
  OBVIOUS
<1>2. \A k \in 1 .. Len(s) : (s \o t)[k] = s[k]
  OBVIOUS
<1>3. \A k \in Len(s) + 1 .. Len(s) + Len(t) : (s \o t)[k] = t[k - Len(s)]
  OBVIOUS
<1>4. QED
  BY <1>1, <1>2, <1>3

LEMMA CombinedFacts ==
  ASSUME EInv
  PROVE  LET c == CreateCombinedList
         IN  /\ c \in Seq(Printable) /\ OnceOnly(c)
             /\ \A k \in DOMAIN c :
                  \/ \E i \in DOMAIN env : c[k] = env[i]
                  \/ \E i \in DOMAIN exported : c[k] = Line(exported[i], Declared)
             /\ \A i \in DOMAIN env : \E k \in DOMAIN c : c[k] = env[i]
             /\ \A i \in DOMAIN exported :
                  \E k \in DOMAIN c : c[k] = Line(exported[i], Declared)
<1> DEFINE c == CreateCombinedList
           x == [k \in DOMAIN exported |-> Line(exported[k], Declared)]
           A == Len(env)
           B == Len(exported)
<1>1. /\ env \in Seq(Entry) /\ exported \in Seq(Valid)
      /\ A \in Nat /\ B \in Nat /\ DOMAIN env = 1 .. A /\ DOMAIN exported = 1 .. B
  BY DEF EInv, TypeOK
<1>2. \A i \in 1 .. A : env[i] \in Entry /\ env[i] \in Printable /\ env[i].value \in Values
  <2>1. \A e \in Entry : e \in Printable /\ e.value \in Values
    BY DEF Entry, Printable
  <2>2. \A i \in 1 .. A : env[i] \in Entry
    BY <1>1
  <2>3. QED
    BY <2>1, <2>2
<1>3. \A i \in 1 .. B : exported[i] \in Names /\ Line(exported[i], Declared) \in Printable
  <2>1. \A i \in 1 .. B : exported[i] \in Names
    BY <1>1, NamesFacts
  <2>2. \A n \in Names : Line(n, Declared) \in Printable
    BY DEF Line, Printable
  <2>3. QED
    BY <2>1, <2>2
<1>4. /\ x \in Seq(Printable) /\ Len(x) = B
      /\ \A i \in 1 .. B : x[i] = Line(exported[i], Declared)
  <2>1. x \in [1 .. B -> Printable]
    BY <1>1, <1>3
  <2>2. \A i \in 1 .. B : x[i] = Line(exported[i], Declared)
    BY <1>1
  <2> HIDE DEF x, B
  <2>3. QED
    BY <1>1, <2>1, <2>2
<1>5. env \in Seq(Printable)
  BY <1>1, <1>2
<1>6. c = env \o x
  BY DEF CreateCombinedList, Line
<1>7. /\ c \in Seq(Printable) /\ Len(c) = A + B /\ DOMAIN c = 1 .. A + B
      /\ \A k \in 1 .. A : c[k] = env[k]
      /\ \A k \in A + 1 .. A + B : c[k] = x[k - A]
  <2>1. /\ c \in Seq(Printable) /\ Len(c) = Len(env) + Len(x)
        /\ \A k \in 1 .. Len(env) : c[k] = env[k]
        /\ \A k \in Len(env) + 1 .. Len(env) + Len(x) : c[k] = x[k - Len(env)]
    <3> HIDE DEF c, x
    <3>1. x \in Seq(Printable)
      BY <1>4
    <3>2. /\ env \o x \in Seq(Printable) /\ Len(env \o x) = Len(env) + Len(x)
          /\ \A k \in 1 .. Len(env) : (env \o x)[k] = env[k]
          /\ \A k \in Len(env) + 1 .. Len(env) + Len(x) :
               (env \o x)[k] = x[k - Len(env)]
      BY <1>5, <3>1, Concatenation, Zenon
    <3>3. QED
      BY <1>6, <3>2, Zenon
  <2>2. DOMAIN c = 1 .. Len(c)
    BY <2>1
  <2> HIDE DEF c, x
  <2>3. QED
    BY <1>4, <2>1, <2>2
<1> HIDE DEF c, x, A, B
<1>8. \A k \in 1 .. A + B : k \in 1 .. A \/ (k \in A + 1 .. A + B /\ k - A \in 1 .. B)
  BY <1>1
<1>9. \A i \in 1 .. B : i + A \in A + 1 .. A + B /\ i + A \in 1 .. A + B /\ (i + A) - A = i
  BY <1>1
<1>10. \A k \in A + 1 .. A + B : c[k] = Line(exported[k - A], Declared)
  BY <1>1, <1>4, <1>7, <1>8
<1>11. OnceOnly(c)
  <2> SUFFICES ASSUME NEW k \in 1 .. A + B, NEW l \in 1 .. A + B, c[k] = c[l]
               PROVE  k = l
    BY <1>7 DEF OnceOnly
  <2>1. CASE k \in 1 .. A /\ l \in 1 .. A
    BY <1>1, <1>7, <2>1 DEF EInv, OneEntryPerName, DistinctNames
  <2>2. \A j \in 1 .. A : c[j].value \in Values
    BY <1>2, <1>7
  <2>3. \A j \in A + 1 .. A + B : c[j].value \notin Values /\ c[j].name = exported[j - A]
    BY <1>10, LineFacts, NamesFacts
  <2>4. CASE k \in A + 1 .. A + B /\ l \in A + 1 .. A + B
    <3>1. exported[k - A] = exported[l - A] /\ k - A \in 1 .. B /\ l - A \in 1 .. B
      BY <1>1, <2>3, <2>4
    <3>2. k - A = l - A
      BY <1>1, <3>1 DEF EInv, ListedOnce
    <3>3. QED
      BY <1>1, <3>2
  <2>5. QED
    BY <1>8, <2>1, <2>2, <2>3, <2>4
<1>12. \A k \in DOMAIN c :
         \/ \E i \in DOMAIN env : c[k] = env[i]
         \/ \E i \in DOMAIN exported : c[k] = Line(exported[i], Declared)
  BY <1>1, <1>7, <1>8, <1>10
<1>13. \A i \in DOMAIN env : \E k \in DOMAIN c : c[k] = env[i]
  BY <1>1, <1>7
<1>14. \A i \in DOMAIN exported : \E k \in DOMAIN c : c[k] = Line(exported[i], Declared)
  <2> TAKE i \in DOMAIN exported
  <2>1. i + A \in A + 1 .. A + B /\ i + A \in DOMAIN c /\ (i + A) - A = i
    BY <1>1, <1>7, <1>9
  <2>2. c[i + A] = Line(exported[(i + A) - A], Declared)
    BY <1>10, <2>1
  <2>3. QED
    BY <2>1, <2>2
<1>15. QED
  BY <1>7, <1>11, <1>12, <1>13, <1>14 DEF c

(* The lines of one name: one for its value, one for its place in the list. *)
LEMMA PrintedFacts ==
  ASSUME EInv, NEW n \in Names
  PROVE  LET p == Printed
             v == Line(n, GetEnv(env, n))
             d == Line(n, Declared)
         IN  /\ v # d /\ OnceOnly(p)
             /\ \A k \in DOMAIN p : p[k].name = n =>
                  (Has(env, n) /\ p[k] = v) \/ (Lists(exported, n) /\ p[k] = d)
             /\ Has(env, n) => \E k \in DOMAIN p : p[k] = v
             /\ Lists(exported, n) => \E k \in DOMAIN p : p[k] = d
<1> DEFINE p == Printed
           c == CreateCombinedList
           v == Line(n, GetEnv(env, n))
           d == Line(n, Declared)
<1>1. /\ c \in Seq(Printable) /\ OnceOnly(c)
      /\ \A k \in DOMAIN c :
           \/ \E i \in DOMAIN env : c[k] = env[i]
           \/ \E i \in DOMAIN exported : c[k] = Line(exported[i], Declared)
      /\ \A i \in DOMAIN env : \E k \in DOMAIN c : c[k] = env[i]
      /\ \A i \in DOMAIN exported :
           \E k \in DOMAIN c : c[k] = Line(exported[i], Declared)
  BY CombinedFacts
<1>2. SameLines(p, c)
  BY <1>1, SortSettles DEF Printed
<1>3. env \in Seq(Entry) /\ DistinctNames(env)
  BY DEF EInv, TypeOK, OneEntryPerName
<1> HIDE DEF p, c
<1>4. v # d
  <2>1. GetEnv(env, n) # Declared
    <3>1. CASE Has(env, n)
      BY <1>3, <3>1, FirstHolds, NamesFacts
    <3>2. CASE ~Has(env, n)
      BY <3>2, NamesFacts DEF GetEnv
    <3>3. QED
      BY <3>1, <3>2
  <2>2. QED
    BY <2>1, LineFacts
<1>5. \A i \in DOMAIN env : env[i].name = n => Has(env, n) /\ env[i] = v
  <2> SUFFICES ASSUME NEW i \in DOMAIN env, env[i].name = n
               PROVE  Has(env, n) /\ env[i] = v
    OBVIOUS
  <2>1. Has(env, n) /\ GetEnv(env, n) = env[i].value
    BY <1>3, EntryFound
  <2>2. env[i] \in Entry
    BY <1>3
  <2>3. env[i] = [name |-> env[i].name, value |-> env[i].value]
    BY <2>2 DEF Entry
  <2>4. QED
    BY <2>1, <2>3 DEF Line
<1>6. \A k \in DOMAIN p : p[k].name = n =>
        (Has(env, n) /\ p[k] = v) \/ (Lists(exported, n) /\ p[k] = d)
  <2> SUFFICES ASSUME NEW k \in DOMAIN p, p[k].name = n
               PROVE  (Has(env, n) /\ p[k] = v) \/ (Lists(exported, n) /\ p[k] = d)
    OBVIOUS
  <2>1. PICK l \in DOMAIN c : c[l] = p[k]
    BY <1>2 DEF SameLines
  <2>2. CASE \E i \in DOMAIN env : c[l] = env[i]
    BY <1>5, <2>1, <2>2
  <2>3. CASE \E i \in DOMAIN exported : c[l] = Line(exported[i], Declared)
    BY <2>1, <2>3, LineFacts DEF Lists
  <2>4. QED
    BY <1>1, <2>2, <2>3
<1>7. Has(env, n) => \E k \in DOMAIN p : p[k] = v
  <2> SUFFICES ASSUME Has(env, n) PROVE \E k \in DOMAIN p : p[k] = v
    OBVIOUS
  <2>1. PICK i \in DOMAIN env : env[i].name = n
    BY DEF Has
  <2>2. PICK l \in DOMAIN c : c[l] = env[i]
    BY <1>1
  <2>3. env[i] = v
    BY <1>5, <2>1
  <2>4. QED
    BY <1>2, <2>2, <2>3 DEF SameLines
<1>8. Lists(exported, n) => \E k \in DOMAIN p : p[k] = d
  <2> SUFFICES ASSUME Lists(exported, n) PROVE \E k \in DOMAIN p : p[k] = d
    OBVIOUS
  <2>1. PICK i \in DOMAIN exported : exported[i] = n
    BY DEF Lists
  <2>2. PICK l \in DOMAIN c : c[l] = Line(exported[i], Declared)
    BY <1>1
  <2>3. QED
    BY <1>2, <2>1, <2>2 DEF SameLines
<1>9. QED
  BY <1>2, <1>4, <1>6, <1>7, <1>8 DEF SameLines, p

LEMMA TwoElements ==
  ASSUME NEW a, NEW b, a # b
  PROVE  Cardinality({a, b}) = 2
<1>1. IsFiniteSet({a}) /\ Cardinality({a}) = 1
  BY FS_Singleton
<1>2. Cardinality({a} \cup {b}) = 1 + 1
  BY <1>1, FS_AddElement
<1>3. {a} \cup {b} = {a, b}
  OBVIOUS
<1>4. QED
  BY <1>2, <1>3

LEMMA NameIsPrinted ==
  ASSUME EInv, NEW n \in Names
  PROVE  IF ~Has(env, n) /\ ~Lists(exported, n) THEN LinesOf(Printed, n) = {}
         ELSE /\ \E k \in LinesOf(Printed, n) : Printed[k].value =
                   IF Has(env, n) THEN GetEnv(env, n) ELSE Declared
              /\ \/ Cardinality(LinesOf(Printed, n)) = 1
                 \/ Cardinality(LinesOf(Printed, n)) = 2 /\ n \in {PWD, OLDPWD}
<1> DEFINE p == Printed
           v == Line(n, GetEnv(env, n))
           d == Line(n, Declared)
           L == LinesOf(p, n)
<1>1. /\ v # d /\ OnceOnly(p)
      /\ \A k \in DOMAIN p : p[k].name = n =>
           (Has(env, n) /\ p[k] = v) \/ (Lists(exported, n) /\ p[k] = d)
      /\ Has(env, n) => \E k \in DOMAIN p : p[k] = v
      /\ Lists(exported, n) => \E k \in DOMAIN p : p[k] = d
  BY PrintedFacts
<1> HIDE DEF p
<1>2. v.name = n /\ v.value = GetEnv(env, n) /\ d.name = n /\ d.value = Declared
  BY LineFacts
<1> HIDE DEF v, d
<1>3. \A k : k \in L <=> k \in DOMAIN p /\ p[k].name = n
  BY DEF LinesOf
<1>4. \A k, l \in DOMAIN p : p[k] = p[l] => k = l
  BY <1>1 DEF OnceOnly
<1> HIDE DEF L
<1>5. CASE ~Has(env, n) /\ ~Lists(exported, n)
  <2>1. L = {}
    BY <1>1, <1>3, <1>5
  <2>2. QED
    BY <1>5, <2>1 DEF L, p
<1>6. CASE Has(env, n) /\ ~Lists(exported, n)
  <2>1. PICK k \in DOMAIN p : p[k] = v
    BY <1>1, <1>6
  <2>2. L = {k}
    BY <1>1, <1>2, <1>3, <1>4, <1>6, <2>1
  <2>3. Cardinality(L) = 1
    BY <2>2, FS_Singleton
  <2>4. \E l \in L : p[l].value = GetEnv(env, n)
    BY <1>2, <2>1, <2>2
  <2>5. QED
    BY <1>6, <2>3, <2>4 DEF L, p
<1>7. CASE ~Has(env, n) /\ Lists(exported, n)
  <2>1. PICK k \in DOMAIN p : p[k] = d
    BY <1>1, <1>7
  <2>2. L = {k}
    BY <1>1, <1>2, <1>3, <1>4, <1>7, <2>1
  <2>3. Cardinality(L) = 1
    BY <2>2, FS_Singleton
  <2>4. \E l \in L : p[l].value = Declared
    BY <1>2, <2>1, <2>2
  <2>5. QED
    BY <1>7, <2>3, <2>4 DEF L, p
<1>8. CASE Has(env, n) /\ Lists(exported, n)
  <2>1. PICK k \in DOMAIN p : p[k] = v
    BY <1>1, <1>8
  <2>2. PICK l \in DOMAIN p : p[l] = d
    BY <1>1, <1>8
  <2>3. k # l
    BY <1>1, <2>1, <2>2
  <2>4. L = {k, l}
    BY <1>1, <1>2, <1>3, <1>4, <2>1, <2>2
  <2>5. Cardinality(L) = 2
    BY <2>3, <2>4, TwoElements
  <2>6. \E j \in L : p[j].value = GetEnv(env, n)
    BY <1>2, <2>1, <2>4
  <2>7. n \in {PWD, OLDPWD}
    BY <1>8 DEF EInv, OverlapOnlyByCd
  <2>8. QED
    BY <1>8, <2>5, <2>6, <2>7 DEF L, p
<1>9. QED
  BY <1>5, <1>6, <1>7, <1>8

(***************************************************************************)
(* Whatever the order of the lines, the environment and the commands: what *)
(* export prints is in order, and has every name that is set or listed     *)
(* once; twice only PWD and OLDPWD.                                        *)
(***************************************************************************)
THEOREM ExportPrintsEverything == Spec => []PrintsWhatIsExported
<1>1. EInv => PrintsWhatIsExported
  <2> SUFFICES ASSUME EInv PROVE PrintsWhatIsExported
    OBVIOUS
  <2>1. CreateCombinedList \in Seq(Printable) /\ OnceOnly(CreateCombinedList)
    BY CombinedFacts
  <2>2. /\ SameLines(Printed, CreateCombinedList)
        /\ \A k \in 1 .. Len(CreateCombinedList) - 1 :
             Rank[Printed[k]] < Rank[Printed[k + 1]]
    BY <2>1, SortSettles DEF Printed
  <2>3. Len(Printed) = Len(CreateCombinedList)
    BY <2>2 DEF SameLines, Arrays
  <2>4. \A k \in 1 .. Len(Printed) - 1 : Rank[Printed[k]] < Rank[Printed[k + 1]]
    BY <2>2, <2>3
  <2>5. QED
    BY <2>4, NameIsPrinted DEF PrintsWhatIsExported
<1>2. QED
  BY <1>1, VariablesInvariance, PTL

-----------------------------------------------------------------------------
(***************************************************************************)
(* Expansion.  What is joined of parts grows by a part at a time.          *)
(***************************************************************************)
Prefix(p, m) == [k \in 1 .. m |-> p[k]]

Joined(p, m) == FlattenSeq(Prefix(p, m))

LEMMA EmptyFirst ==
  ASSUME NEW S, NEW s \in Seq(S)
  PROVE  <<>> \o s = s
<1>1. <<>> \in Seq(S) /\ Len(<<>>) = 0
  OBVIOUS
<1>2. Len(s) \in Nat
  OBVIOUS
<1> DEFINE t == <<>> \o s
<1>3. t \in Seq(S) /\ Len(t) = Len(s) /\ \A k \in 1 .. Len(s) : t[k] = s[k]
  OBVIOUS
<1> HIDE DEF t
<1>4. t = s
  BY <1>2, <1>3
<1>5. QED
  BY <1>4 DEF t

LEMMA Joining ==
  ASSUME NEW S, NEW n \in Nat, NEW p \in [1 .. n -> Seq(S)]
  PROVE  /\ Joined(p, 0) = <<>>
         /\ \A m \in 0 .. n : Joined(p, m) \in Seq(S)
         /\ \A m \in 1 .. n : Joined(p, m) = Joined(p, m - 1) \o p[m]
<1> DEFINE X == Seq(S)
           G == [q \in Nat \X X |-> IF q[1] \in 1 .. n THEN q[2] \o p[q[1]]
                                                      ELSE q[2]]
<1>1. G \in [Nat \X X -> X]
  <2>1. \A k \in 1 .. n : p[k] \in X
    OBVIOUS
  <2>2. \A s, t \in X : s \o t \in X
    OBVIOUS
  <2>3. \A q \in Nat \X X : q[2] \in X
    OBVIOUS
  <2> HIDE DEF X
  <2>4. QED
    BY <2>1, <2>2, <2>3
<1>2. <<>> \in X
  OBVIOUS
<1>3. PICK g \in [0 .. n -> X] : Iterates(g, n, <<>>, G)
  <2> HIDE DEF G, X
  <2>1. QED
    BY <1>1, <1>2, Iteration
<1>4. g[0] = <<>> /\ \A k \in 1 .. n : g[k] = g[k - 1] \o p[k]
  <2>1. \A k \in 1 .. n : k \in Nat /\ k - 1 \in 0 .. n
    OBVIOUS
  <2>2. \A k \in 1 .. n : g[k - 1] \in X
    BY <2>1
  <2> HIDE DEF X
  <2>3. \A k \in 1 .. n : <<k, g[k - 1]>> \in Nat \X X
    BY <2>1, <2>2
  <2>4. \A k \in 1 .. n : G[<<k, g[k - 1]>>] = g[k - 1] \o p[k]
    BY <2>3
  <2> HIDE DEF G
  <2>5. QED
    BY <1>3, <2>4 DEF Iterates
<1>5. Joined(p, 0) = <<>>
  <2>1. Prefix(p, 0) = <<>> /\ Len(Prefix(p, 0)) = 0
    BY DEF Prefix
  <2>2. QED
    BY <2>1 DEF Joined, FlattenSeq
<1>6. ASSUME NEW m \in 1 .. n PROVE Joined(p, m) = g[m]
  <2> DEFINE seqs == Prefix(p, m)
             Is(f) == f = [i \in 1 .. Len(seqs) |->
                             IF i = 1 THEN seqs[i] ELSE f[i - 1] \o seqs[i]]
             h == [k \in 1 .. m |-> g[k]]
             f == CHOOSE e : Is(e)
  <2>1. Len(seqs) = m /\ m \in Nat /\ m # 0 /\ \A k \in 1 .. m : seqs[k] = p[k]
    BY DEF Prefix
  <2>2. \A k \in 1 .. m : k \in 1 .. n
    OBVIOUS
  <2>3. Is(h)
    <3>1. g[1] = p[1]
      <4>1. 1 \in 1 .. n /\ 1 - 1 = 0
        OBVIOUS
      <4>2. g[1] = <<>> \o p[1]
        BY <1>4, <4>1
      <4>3. p[1] \in Seq(S)
        BY <4>1
      <4>4. QED
        BY <4>2, <4>3, EmptyFirst
    <3>2. \A k \in 1 .. m : k # 1 => h[k - 1] = g[k - 1]
      OBVIOUS
    <3> DEFINE val(k) == IF k = 1 THEN seqs[k] ELSE h[k - 1] \o seqs[k]
    <3>3. \A k \in 1 .. m : g[k] = val(k)
      <4> HIDE DEF seqs, h
      <4>1. QED
        BY <1>4, <2>1, <2>2, <3>1, <3>2
    <3>4. h = [k \in 1 .. m |-> val(k)]
      BY <3>3
    <3> HIDE DEF h, seqs
    <3>5. QED
      BY <2>1, <3>4
  <2>4. Is(f)
    <3> HIDE DEF Is
    <3>1. QED
      BY <2>3
  <2>5. FlattenSeq(seqs) = f[Len(seqs)]
    BY <2>1 DEF FlattenSeq
  <2>6. \A i \in 1 .. m : f[i] = IF i = 1 THEN seqs[i] ELSE f[i - 1] \o seqs[i]
    <3> HIDE DEF seqs, f
    <3>1. QED
      BY <2>1, <2>4
  <2>7. \A i \in 1 .. m : h[i] = IF i = 1 THEN seqs[i] ELSE h[i - 1] \o seqs[i]
    <3> HIDE DEF seqs, h
    <3>1. QED
      BY <2>1, <2>3
  <2> DEFINE T == {i \in Nat : i \in 1 .. m => f[i] = h[i]}
  <2> HIDE DEF f, h, seqs
  <2>8. 0 \in T
    OBVIOUS
  <2>9. \A i \in T : i + 1 \in T
    <3> SUFFICES ASSUME NEW i \in T, i + 1 \in 1 .. m
                 PROVE  f[i + 1] = h[i + 1]
      OBVIOUS
    <3>1. CASE i = 0
      BY <2>6, <2>7, <3>1
    <3>2. CASE i # 0
      <4>1. i \in 1 .. m /\ (i + 1) - 1 = i /\ i + 1 # 1
        BY <3>2
      <4>2. f[i] = h[i]
        BY <4>1
      <4>3. f[i + 1] = f[i] \o seqs[i + 1] /\ h[i + 1] = h[i] \o seqs[i + 1]
        BY <2>6, <2>7, <4>1
      <4>4. QED
        BY <4>2, <4>3
    <3>3. QED
      BY <3>1, <3>2
  <2>10. Nat \subseteq T
    <3>1. T \subseteq Nat
      OBVIOUS
    <3> HIDE DEF T
    <3>2. QED
      BY <2>8, <2>9, <3>1, Induction
  <2>11. f[m] = h[m]
    <3>1. m \in T /\ m \in 1 .. m
      BY <2>10
    <3>2. QED
      BY <3>1
  <2>12. h[m] = g[m]
    BY DEF h
  <2>13. QED
    BY <2>1, <2>5, <2>11, <2>12 DEF seqs, Joined
<1>7. \A m \in 0 .. n : Joined(p, m) = g[m]
  <2>1. \A m \in 0 .. n : m = 0 \/ m \in 1 .. n
    OBVIOUS
  <2>2. QED
    BY <1>4, <1>5, <1>6, <2>1
<1>8. \A m \in 0 .. n : g[m] \in Seq(S)
  OBVIOUS
<1>9. \A m \in 1 .. n : m \in 0 .. n /\ m - 1 \in 0 .. n
  OBVIOUS
<1>10. QED
  BY <1>4, <1>5, <1>7, <1>8, <1>9

LEMMA JoinedGrows ==
  ASSUME NEW S, NEW n \in Nat, NEW p \in [1 .. n -> Seq(S)]
  PROVE  \A m \in 0 .. n : /\ Len(Joined(p, m)) \in Nat
                           /\ Len(Joined(p, m)) <= Len(Joined(p, n))
<1> DEFINE L(m) == Len(Joined(p, m))
           T == {j \in Nat : j <= n => L(n - j) <= L(n)}
<1>1. \A m \in 0 .. n : L(m) \in Nat
  <2>1. \A m \in 0 .. n : Joined(p, m) \in Seq(S)
    BY Joining
  <2>2. \A s \in Seq(S) : Len(s) \in Nat
    OBVIOUS
  <2>3. QED
    BY <2>1, <2>2
<1>2. \A m \in 1 .. n : L(m - 1) <= L(m)
  <2> SUFFICES ASSUME NEW m \in 1 .. n PROVE L(m - 1) <= L(m)
    OBVIOUS
  <2>1. m - 1 \in 0 .. n /\ p[m] \in Seq(S)
    OBVIOUS
  <2>2. Joined(p, m - 1) \in Seq(S) /\ Joined(p, m) = Joined(p, m - 1) \o p[m]
    BY <2>1, Joining
  <2>3. \A s, t \in Seq(S) : Len(s) <= Len(s \o t)
    OBVIOUS
  <2>4. QED
    BY <2>1, <2>2, <2>3
<1> HIDE DEF L
<1>3. 0 \in T
  <2>1. L(n - 0) = L(n) /\ L(n) \in Nat
    BY <1>1
  <2>2. QED
    BY <2>1
<1>4. \A j \in T : j + 1 \in T
  <2> SUFFICES ASSUME NEW j \in T, j + 1 <= n PROVE L(n - (j + 1)) <= L(n)
    OBVIOUS
  <2>1. n - j \in 1 .. n /\ (n - j) - 1 = n - (j + 1) /\ j <= n
    OBVIOUS
  <2>2. L(n - j) <= L(n)
    BY <2>1
  <2>3. n - j \in 0 .. n /\ n - (j + 1) \in 0 .. n /\ n \in 0 .. n
    BY <2>1
  <2>4. L(n - j) \in Nat /\ L(n - (j + 1)) \in Nat /\ L(n) \in Nat
    BY <1>1, <2>3
  <2>5. L(n - (j + 1)) <= L(n - j)
    BY <1>2, <2>1
  <2>6. QED
    BY <2>2, <2>4, <2>5
<1>5. Nat \subseteq T
  <2>1. T \subseteq Nat
    OBVIOUS
  <2> HIDE DEF T
  <2>2. QED
    BY <1>3, <1>4, <2>1, Induction
<1>6. \A m \in 0 .. n : L(m) <= L(n)
  <2> SUFFICES ASSUME NEW m \in 0 .. n PROVE L(m) <= L(n)
    OBVIOUS
  <2>1. n - m \in Nat /\ n - m <= n /\ n - (n - m) = m
    OBVIOUS
  <2>2. n - m \in T
    BY <1>5, <2>1
  <2>3. QED
    BY <2>1, <2>2
<1>7. QED
  BY <1>1, <1>6 DEF L

LEMMA JoinedIsShort ==
  ASSUME NEW S, NEW n \in Nat, NEW p \in [1 .. n -> Seq(S)],
         \A k \in 1 .. n : Len(p[k]) <= 1
  PROVE  Len(Joined(p, n)) <= n
<1> DEFINE T == {m \in Nat : m <= n => Len(Joined(p, m)) <= m}
<1>1. 0 \in T
  <2>1. Joined(p, 0) = <<>> /\ Len(<<>>) = 0
    BY Joining
  <2>2. QED
    BY <2>1
<1>2. \A m \in T : m + 1 \in T
  <2> SUFFICES ASSUME NEW m \in T, m + 1 <= n
               PROVE  Len(Joined(p, m + 1)) <= m + 1
    OBVIOUS
  <2>1. m + 1 \in 1 .. n /\ (m + 1) - 1 = m /\ m \in 0 .. n /\ m \in Nat
    OBVIOUS
  <2>2. Joined(p, m) \in Seq(S) /\ Joined(p, m + 1) = Joined(p, m) \o p[m + 1]
    BY <2>1, Joining
  <2>3. p[m + 1] \in Seq(S) /\ Len(p[m + 1]) <= 1
    BY <2>1
  <2>4. Len(Joined(p, m)) <= m
    BY <2>1
  <2>5. \A s, t \in Seq(S) : /\ Len(s \o t) = Len(s) + Len(t)
                            /\ Len(s) \in Nat /\ Len(t) \in Nat
    OBVIOUS
  <2>6. /\ Len(Joined(p, m + 1)) = Len(Joined(p, m)) + Len(p[m + 1])
        /\ Len(Joined(p, m)) \in Nat /\ Len(p[m + 1]) \in Nat
    BY <2>2, <2>3, <2>5
  <2>7. QED
    BY <2>1, <2>3, <2>4, <2>6
<1>3. Nat \subseteq T
  <2>1. T \subseteq Nat
    OBVIOUS
  <2> HIDE DEF T
  <2>2. QED
    BY <1>1, <1>2, <2>1, Induction
<1>4. QED
  BY <1>3

(***************************************************************************)
(* make_like_bash: blanks are left out, so the copy is no longer.          *)
(***************************************************************************)
LEMMA MakeLikeBashFacts ==
  ASSUME NEW s \in Seq(Chars)
  PROVE  MakeLikeBash(s) \in Seq(Chars) /\ Len(MakeLikeBash(s)) <= Len(s)
<1> DEFINE n == Len(s)
           Blank(k) == k > 1 /\ s[k] = " " /\ s[k - 1] = " "
           p == [k \in 1 .. n |-> IF Blank(k) THEN <<>> ELSE <<s[k]>>]
<1>1. n \in Nat /\ DOMAIN s = 1 .. n /\ \A k \in 1 .. n : s[k] \in Chars
  OBVIOUS
<1>2. MakeLikeBash(s) = FlattenSeq(p)
  BY <1>1 DEF MakeLikeBash
<1> HIDE DEF Blank, n
<1>3. /\ \A k \in 1 .. n : p[k] \in Seq(Chars) /\ Len(p[k]) <= 1
      /\ p \in [1 .. n -> Seq(Chars)]
  <2>1. \A t : t = <<>> => t \in Seq(Chars) /\ Len(t) <= 1
    OBVIOUS
  <2>2. \A t : \A c \in Chars : t = <<c>> => t \in Seq(Chars) /\ Len(t) <= 1
    OBVIOUS
  <2>3. \A k \in 1 .. n : s[k] \in Chars
    BY <1>1
  <2>4. \A k \in 1 .. n : p[k] = <<>> \/ p[k] = <<s[k]>>
    OBVIOUS
  <2>5. \A k \in 1 .. n : p[k] \in Seq(Chars) /\ Len(p[k]) <= 1
    <3> HIDE DEF p
    <3>1. QED
      BY <2>1, <2>2, <2>3, <2>4, Zenon
  <2>6. p = [k \in 1 .. n |-> p[k]]
    OBVIOUS
  <2> HIDE DEF p
  <2>7. p \in [1 .. n -> Seq(Chars)]
    BY <2>5, <2>6
  <2>8. QED
    BY <2>5, <2>7
<1>4. Prefix(p, n) = p
  BY DEF Prefix
<1> HIDE DEF p
<1>5. Joined(p, n) \in Seq(Chars) /\ Len(Joined(p, n)) <= n
  <2>1. n \in 0 .. n
    BY <1>1
  <2>2. QED
    BY <1>1, <1>3, <2>1, Joining, JoinedIsShort
<1>6. QED
  BY <1>2, <1>4, <1>5 DEF Joined, n

LEMMA NULIsNoCharacter == NUL \notin Chars
BY DEF NUL, Chars

-----------------------------------------------------------------------------
(***************************************************************************)
(* The word: what stands for its items, what they are worth, and what is   *)
(* written for them.                                                       *)
(***************************************************************************)
SourceParts == [k \in 1 .. Len(str) |-> str[k].source]

ValueParts ==
  [k \in 1 .. Len(str) |-> IF IsValue(k) THEN str[k].value ELSE <<>>]

Copied(k) ==
  IF ~IsReplaced(str[k]) THEN str[k].source
  ELSE IF InQuotes THEN str[k].value
  ELSE MakeLikeBash(str[k].value)

CopiedParts == [k \in 1 .. Len(str) |-> Copied(k)]

LEMMA ItemFacts ==
  ASSUME ExpansionTypeOK
  PROVE  /\ Len(str) \in Nat /\ DOMAIN str = 1 .. Len(str)
         /\ Margin \in Nat
         /\ \A k \in 1 .. Len(str) :
              /\ str[k].sort \in {"text", "var", "unset", "status"}
              /\ str[k].source \in Seq(Chars) /\ Len(str[k].source) \in Nat
              /\ Len(str[k].source) >= 1
              /\ str[k].sort # "text" => Len(str[k].source) >= 2
              /\ str[k].value \in Seq(Chars) /\ Len(str[k].value) \in Nat
<1>1. str \in Seq(Item) /\ Margin \in Nat
  BY ExpansionAssumption DEF ExpansionTypeOK
<1>2. Len(str) \in Nat /\ DOMAIN str = 1 .. Len(str)
  BY <1>1
<1>3. \A k \in 1 .. Len(str) : str[k] \in Item
  BY <1>1
<1>4. \A k \in 1 .. Len(str) : str[k].sort # "text" => Len(str[k].source) >= 2
  BY <1>2, ExpansionAssumption DEF ExpansionTypeOK
<1>5. \A x \in Item : /\ x.sort \in {"text", "var", "unset", "status"}
                      /\ x.source \in Seq(Chars) /\ x.source # <<>>
                      /\ x.value \in Seq(Chars)
  BY DEF Item
<1>6. \A s \in Seq(Chars) : Len(s) \in Nat /\ (s # <<>> => Len(s) >= 1)
  OBVIOUS
<1>7. QED
  BY <1>1, <1>2, <1>3, <1>4, <1>5, <1>6, Zenon

LEMMA PartsFacts ==
  ASSUME ExpansionTypeOK
  PROVE  /\ SourceParts \in [1 .. Len(str) -> Seq(Chars)]
         /\ ValueParts \in [1 .. Len(str) -> Seq(Chars)]
         /\ CopiedParts \in [1 .. Len(str) -> Seq(Chars)]
         /\ \A k \in 1 .. Len(str) :
              /\ SourceParts[k] = str[k].source
              /\ ValueParts[k] = IF IsValue(k) THEN str[k].value ELSE <<>>
              /\ CopiedParts[k] = Copied(k)
              /\ Copied(k) \in Seq(Chars)
<1>1. \A k \in 1 .. Len(str) : /\ str[k].source \in Seq(Chars)
                               /\ str[k].value \in Seq(Chars)
  BY ItemFacts
<1>2. \A k \in 1 .. Len(str) : MakeLikeBash(str[k].value) \in Seq(Chars)
  BY <1>1, MakeLikeBashFacts
<1>3. \A k \in 1 .. Len(str) : Copied(k) \in Seq(Chars)
  BY <1>1, <1>2, Zenon DEF Copied
<1>4. <<>> \in Seq(Chars)
  OBVIOUS
<1>5. SourceParts \in [1 .. Len(str) -> Seq(Chars)]
  BY <1>1 DEF SourceParts
<1>6. ValueParts \in [1 .. Len(str) -> Seq(Chars)]
  BY <1>1, <1>4 DEF ValueParts
<1>7. CopiedParts \in [1 .. Len(str) -> Seq(Chars)]
  BY <1>3 DEF CopiedParts
<1>8. \A k \in 1 .. Len(str) :
        /\ SourceParts[k] = str[k].source
        /\ ValueParts[k] = IF IsValue(k) THEN str[k].value ELSE <<>>
        /\ CopiedParts[k] = Copied(k)
  BY DEF SourceParts, ValueParts, CopiedParts
<1>9. QED
  BY <1>3, <1>5, <1>6, <1>7, <1>8

LEMMA JoinedParts ==
  ASSUME ExpansionTypeOK
  PROVE  /\ SourceOf(str) = Joined(SourceParts, Len(str))
         /\ ValuesRead = Joined(ValueParts, next - 1)
         /\ \A m \in 0 .. Len(str) : Expanded(m) = Joined(CopiedParts, m)
<1>1. Len(str) \in Nat /\ DOMAIN str = 1 .. Len(str) /\ next \in 1 .. Len(str) + 1
  BY ItemFacts DEF ExpansionTypeOK
<1>2. SourceOf(str) = Joined(SourceParts, Len(str))
  <2>1. Prefix(SourceParts, Len(str)) = [k \in 1 .. Len(str) |-> str[k].source]
    BY DEF Prefix, SourceParts
  <2>2. QED
    BY <1>1, <2>1 DEF SourceOf, Joined
<1>3. ValuesRead = Joined(ValueParts, next - 1)
  <2>1. \A k \in 1 .. next - 1 : k \in 1 .. Len(str)
    BY <1>1
  <2>2. Prefix(ValueParts, next - 1)
          = [k \in 1 .. next - 1 |-> IF IsValue(k) THEN str[k].value ELSE <<>>]
    BY <2>1 DEF Prefix, ValueParts
  <2>3. QED
    BY <2>2 DEF ValuesRead, Joined
<1>4. ASSUME NEW m \in 0 .. Len(str)
      PROVE  Expanded(m) = Joined(CopiedParts, m)
  <2>1. \A k \in 1 .. m : k \in 1 .. Len(str)
    BY <1>1
  <2>2. Prefix(CopiedParts, m) = [k \in 1 .. m |-> Copied(k)]
    BY <2>1 DEF Prefix, CopiedParts
  <2>3. Expanded(m) = FlattenSeq([k \in 1 .. m |-> Copied(k)])
    BY DEF Expanded, Copied
  <2>4. QED
    BY <2>2, <2>3 DEF Joined
<1>5. QED
  BY <1>2, <1>3, <1>4

PartsAreJoined ==
  /\ SourceOf(str) = Joined(SourceParts, Len(str))
  /\ ValuesRead = Joined(ValueParts, next - 1)
  /\ \A m \in 0 .. Len(str) : Expanded(m) = Joined(CopiedParts, m)

LEMMA PartsJoined == ExpansionTypeOK => PartsAreJoined
BY JoinedParts DEF PartsAreJoined

(***************************************************************************)
(* The part joined last adds its length.                                   *)
(***************************************************************************)
LEMMA JoinedLengths ==
  ASSUME NEW S, NEW n \in Nat, NEW p \in [1 .. n -> Seq(S)], NEW m \in 1 .. n
  PROVE  /\ Len(Joined(p, m - 1)) \in Nat /\ Len(p[m]) \in Nat
         /\ Len(Joined(p, m)) = Len(Joined(p, m - 1)) + Len(p[m])
<1>1. m - 1 \in 0 .. n /\ p[m] \in Seq(S)
  OBVIOUS
<1>2. Joined(p, m - 1) \in Seq(S) /\ Joined(p, m) = Joined(p, m - 1) \o p[m]
  BY <1>1, Joining
<1>3. \A s, t \in Seq(S) : Len(s \o t) = Len(s) + Len(t) /\ Len(s) \in Nat /\ Len(t) \in Nat
  OBVIOUS
<1>4. QED
  BY <1>1, <1>2, <1>3

-----------------------------------------------------------------------------
(***************************************************************************)
(* The invariant.  The copy is no longer than the items read and their     *)
(* values; it is what was read up to the first variable without a value,   *)
(* and what follows stands behind a NUL.                                   *)
(***************************************************************************)
IsFirstUnset(k) == IsUnset(k) /\ \A j \in 1 .. k - 1 : ~IsUnset(j)

StartsWith(s, t) == Len(t) <= Len(s) /\ \A j \in 1 .. Len(t) : s[j] = t[j]

RoomInv ==
  /\ old_size >= Len(SourceOf(str)) + 2 + Margin
  /\ Len(result) <= Len(Joined(SourceParts, next - 1)) + Len(ValuesRead)
     \/ outcome = "outside"

CopyInv ==
  outcome # "outside" =>
    /\ (\A k \in 1 .. next - 1 : ~IsUnset(k)) => result = Expanded(next - 1)
    /\ \A k \in 1 .. next - 1 :
         IsFirstUnset(k) => StartsWith(result, Expanded(k - 1) \o <<NUL>>)

EndInv == outcome = "done" => next = Len(str) + 1

XInv == ExpansionTypeOK /\ RoomInv /\ CopyInv /\ EndInv /\ StaysInside

LEMMA ExpansionStarts == ExpansionInit => XInv
<1> SUFFICES ASSUME ExpansionInit PROVE XInv
  OBVIOUS
<1>1. str \in Seq(Item) /\ Margin \in Nat /\ Len(str) \in Nat
  <2>1. str \in Seq(Item) /\ Margin \in Nat
    BY ExpansionAssumption DEF ExpansionInit
  <2>2. QED
    BY <2>1
<1>2. ExpansionTypeOK
  <2>1. SourceOf(str) \in Seq(Chars)
    <3>1. DOMAIN str = 1 .. Len(str) /\ \A k \in 1 .. Len(str) : str[k] \in Item
      BY <1>1
    <3>2. \A x \in Item : x.source \in Seq(Chars)
      BY DEF Item
    <3>3. SourceParts \in [1 .. Len(str) -> Seq(Chars)]
      BY <3>1, <3>2 DEF SourceParts
    <3>4. Prefix(SourceParts, Len(str)) = [k \in 1 .. Len(str) |-> str[k].source]
      BY DEF Prefix, SourceParts
    <3>5. SourceOf(str) = Joined(SourceParts, Len(str))
      BY <3>1, <3>4 DEF SourceOf, Joined
    <3>6. Len(str) \in 0 .. Len(str)
      BY <1>1
    <3>7. QED
      BY <1>1, <3>3, <3>5, <3>6, Joining
  <2>2. Len(SourceOf(str)) \in Nat
    BY <2>1
  <2>3. old_size \in Nat
    BY <1>1, <2>2 DEF ExpansionInit
  <2>4. <<>> \in Seq(Chars \cup {NUL})
    OBVIOUS
  <2>5. QED
    BY <1>1, <2>3, <2>4 DEF ExpansionInit, ExpansionTypeOK
<1>3. RoomInv
  <2>1. Len(Joined(SourceParts, 0)) = 0 /\ Joined(ValueParts, 0) = <<>>
    <3>1. Joined(SourceParts, 0) = <<>> /\ Joined(ValueParts, 0) = <<>>
      BY <1>1, <1>2, PartsFacts, Joining
    <3>2. QED
      BY <3>1
  <2>2. next - 1 = 0 /\ Len(result) = 0
    BY DEF ExpansionInit
  <2>3. ValuesRead = <<>>
    BY <1>2, <2>1, <2>2, JoinedParts
  <2>4. Len(ValuesRead) = 0
    BY <2>3
  <2>5. old_size >= Len(SourceOf(str)) + 2 + Margin
    <3>1. old_size \in Nat /\ old_size = Len(SourceOf(str)) + 2 + Margin
      BY <1>2 DEF ExpansionInit, ExpansionTypeOK
    <3>2. QED
      BY <3>1
  <2>6. QED
    BY <2>1, <2>2, <2>4, <2>5 DEF RoomInv
<1>4. CopyInv
  <2>1. next - 1 = 0 /\ result = <<>>
    BY DEF ExpansionInit
  <2>2. 0 \in 0 .. Len(str)
    BY <1>1
  <2>3. Expanded(0) = <<>>
    BY <1>1, <1>2, <2>2, PartsFacts, JoinedParts, Joining
  <2>4. ~ \E k \in 1 .. 0 : TRUE
    OBVIOUS
  <2>5. QED
    BY <2>1, <2>3, <2>4 DEF CopyInv
<1>5. QED
  BY <1>2, <1>3, <1>4 DEF XInv, EndInv, StaysInside, ExpansionInit

(***************************************************************************)
(* What a step copies: the item at hand, or a NUL for an unset variable.   *)
(***************************************************************************)
Copies(s) ==
  /\ next \in 1 .. Len(str)
  /\ IF IsUnset(next) THEN s = <<NUL>> ELSE s = Copied(next)
  /\ result' = result \o s
  /\ str' = str /\ expand_herdoc' = expand_herdoc
  /\ \/ outcome' = "open" /\ next' = next + 1
     \/ /\ outcome' = "outside" /\ next' = next
        /\ ~IsValue(next)
        /\ Len(result) + Len(s) > block
        /\ Len(s) <= Len(str[next].source)
  /\ Len(s) <= Len(SourceParts[next]) + Len(ValueParts[next])
  /\ old_size' \in Nat /\ old_size' >= old_size
  /\ block' \in {old_size', old_size' + 1}

LEMMA TextIsCopied ==
  ASSUME ExpansionTypeOK, CopyText
  PROVE  \E s \in Seq(Chars \cup {NUL}) : Copies(s)
<1> DEFINE s == str[next].source
<1>1. next \in 1 .. Len(str) /\ outcome = "open"
  BY ItemFacts DEF ExpansionTypeOK, CopyText, Reads
<1>2. /\ s \in Seq(Chars) /\ Len(s) \in Nat
      /\ SourceParts[next] = s
      /\ ~IsReplaced(str[next])
  BY <1>1, ItemFacts, PartsFacts DEF CopyText
<1>3. ~IsUnset(next) /\ ~IsValue(next) /\ Copied(next) = s
  BY <1>2 DEF IsUnset, IsValue, Copied
<1>4. Len(result) \in Nat /\ block \in Nat /\ old_size \in Nat
      /\ block \in {old_size, old_size + 1}
  <2>1. Len(result) \in Nat
    BY DEF ExpansionTypeOK
  <2>2. QED
    BY <2>1 DEF ExpansionTypeOK
<1>5. ValueParts[next] = <<>> /\ Len(<<>>) = 0
  BY <1>1, <1>3, PartsFacts
<1>6. Len(ValueParts[next]) = 0
  BY <1>5
<1>7. s \in Seq(Chars \cup {NUL})
  BY <1>2
<1>8. /\ result' = result \o s /\ str' = str /\ expand_herdoc' = expand_herdoc
      /\ old_size' = old_size /\ block' = block
      /\ \/ outcome' = "open" /\ next' = next + 1
         \/ outcome' = "outside" /\ next' = next /\ ~(Len(result) + Len(s) + 0 <= block)
  BY <1>1 DEF CopyText, Write
<1>9. Copies(s)
  <2>1. /\ Len(s) <= Len(SourceParts[next]) + Len(ValueParts[next])
        /\ old_size' >= old_size
        /\ \/ outcome' = "open" /\ next' = next + 1
           \/ /\ outcome' = "outside" /\ next' = next
              /\ Len(result) + Len(s) > block
    BY <1>2, <1>4, <1>6, <1>8
  <2> HIDE DEF s
  <2>2. Len(s) <= Len(str[next].source)
    BY <1>2 DEF s
  <2>3. QED
    BY <1>1, <1>3, <1>4, <1>8, <2>1, <2>2 DEF Copies
<1>10. QED
  BY <1>7, <1>9

LEMMA UnsetIsCopied ==
  ASSUME ExpansionTypeOK, CopyUnset
  PROVE  \E s \in Seq(Chars \cup {NUL}) : Copies(s)
<1> DEFINE s == <<NUL>>
<1>1. next \in 1 .. Len(str) /\ outcome = "open" /\ str[next].sort = "unset"
  BY ItemFacts DEF ExpansionTypeOK, CopyUnset, Reads
<1>2. IsUnset(next) /\ ~IsValue(next)
  BY <1>1 DEF CopyUnset, IsUnset, IsValue
<1>3. Len(s) = 1 /\ s \in Seq(Chars \cup {NUL})
  OBVIOUS
<1>4. Len(str[next].source) \in Nat /\ Len(str[next].source) >= 2
  BY <1>1, ItemFacts
<1>5. Len(result) \in Nat /\ block \in Nat /\ old_size \in Nat
      /\ block \in {old_size, old_size + 1}
  <2>1. Len(result) \in Nat
    BY DEF ExpansionTypeOK
  <2>2. QED
    BY <2>1 DEF ExpansionTypeOK
<1>6. SourceParts[next] = str[next].source /\ ValueParts[next] = <<>> /\ Len(<<>>) = 0
  BY <1>1, <1>2, PartsFacts
<1>7. Len(ValueParts[next]) = 0
  BY <1>6
<1>8. /\ result' = result \o s /\ str' = str /\ expand_herdoc' = expand_herdoc
      /\ old_size' = old_size /\ block' = block
      /\ \/ outcome' = "open" /\ next' = next + 1
         \/ outcome' = "outside" /\ next' = next /\ ~(Len(result) + Len(s) + 0 <= block)
  BY <1>1 DEF CopyUnset, Write
<1>9. Copies(s)
  <2> HIDE DEF s
  <2>1. /\ Len(s) <= Len(SourceParts[next]) + Len(ValueParts[next])
        /\ Len(s) <= Len(str[next].source)
        /\ old_size' >= old_size
        /\ \/ outcome' = "open" /\ next' = next + 1
           \/ /\ outcome' = "outside" /\ next' = next
              /\ Len(result) + Len(s) > block
    BY <1>3, <1>4, <1>5, <1>6, <1>7, <1>8
  <2>2. s = <<NUL>>
    BY DEF s
  <2>3. QED
    BY <1>1, <1>2, <1>5, <1>8, <2>1, <2>2 DEF Copies
<1>10. QED
  BY <1>3, <1>9

LEMMA ValueIsCopied ==
  ASSUME ExpansionTypeOK, CopyValue
  PROVE  \E s \in Seq(Chars \cup {NUL}) : Copies(s)
<1> DEFINE value == str[next].value
           len == Len(value)
           s == IF InQuotes THEN value ELSE MakeLikeBash(value)
           size == IF Grows(len) THEN Len(result) + len + 1 ELSE block
           more == IF InQuotes THEN 1 ELSE 0
<1>1. next \in 1 .. Len(str) /\ outcome = "open" /\ str[next].sort \in {"var", "status"}
  BY ItemFacts DEF ExpansionTypeOK, CopyValue, Reads
<1>2. ~IsUnset(next) /\ IsValue(next) /\ Copied(next) = s
  BY <1>1 DEF CopyValue, IsUnset, IsValue, Copied
<1>3. value \in Seq(Chars) /\ len \in Nat
  BY <1>1, ItemFacts
<1>4. s \in Seq(Chars) /\ Len(s) \in Nat /\ Len(s) <= len
  <2>1. MakeLikeBash(value) \in Seq(Chars) /\ Len(MakeLikeBash(value)) <= len
    BY <1>3, MakeLikeBashFacts
  <2>2. \A t \in Seq(Chars) : Len(t) \in Nat
    OBVIOUS
  <2> HIDE DEF value
  <2>3. QED
    BY <1>3, <2>1, <2>2
<1>5. s \in Seq(Chars \cup {NUL})
  <2> HIDE DEF s
  <2>1. QED
    BY <1>4
<1>6. Len(result) \in Nat /\ block \in Nat /\ old_size \in Nat
      /\ block \in {old_size, old_size + 1}
  <2>1. Len(result) \in Nat
    BY DEF ExpansionTypeOK
  <2>2. QED
    BY <2>1 DEF ExpansionTypeOK
<1>7. /\ ValueParts[next] = value /\ SourceParts[next] = str[next].source
      /\ Len(str[next].source) \in Nat
  BY <1>1, <1>2, PartsFacts, ItemFacts
<1>8. /\ old_size' = IF Grows(len) THEN Len(result) + len ELSE old_size
      /\ block' = size
      /\ result' = result \o s /\ str' = str /\ expand_herdoc' = expand_herdoc
      /\ outcome' = IF Len(result) + Len(s) + more <= size THEN outcome ELSE "outside"
      /\ next' = IF Len(result) + Len(s) + more <= size THEN next + 1 ELSE next
  BY Zenon DEF CopyValue, Write
<1>9. /\ Len(result) + Len(s) + more <= size
      /\ old_size' \in Nat /\ old_size' >= old_size
      /\ block' \in {old_size', old_size' + 1}
  <2>1. more \in {0, 1}
    OBVIOUS
  <2> HIDE DEF s, len, more
  <2>2. QED
    BY <1>3, <1>4, <1>6, <1>8, <2>1 DEF Grows
<1>10. Len(s) <= Len(SourceParts[next]) + Len(ValueParts[next])
  <2>1. Len(ValueParts[next]) = len
    BY <1>7
  <2> HIDE DEF s, len, value
  <2>2. QED
    BY <1>3, <1>4, <1>7, <2>1
<1>11. Copies(s)
  <2> HIDE DEF s, len, more, size
  <2>1. QED
    BY <1>1, <1>2, <1>8, <1>9, <1>10 DEF Copies
<1>12. QED
  <2> HIDE DEF s
  <2>1. QED
    BY <1>5, <1>11

LEMMA CopiesKeepTypes ==
  ASSUME ExpansionTypeOK, NEW s \in Seq(Chars \cup {NUL}), Copies(s)
  PROVE  ExpansionTypeOK'
<1>1. Len(str) \in Nat
  BY ItemFacts
<1>2. next' \in 1 .. Len(str') + 1
  BY <1>1 DEF Copies
<1>3. result' \in Seq(Chars \cup {NUL})
  <2>1. result \in Seq(Chars \cup {NUL})
    BY DEF ExpansionTypeOK
  <2>2. result' = result \o s
    BY DEF Copies
  <2>3. \A S : \A t, u \in Seq(S) : t \o u \in Seq(S)
    OBVIOUS
  <2>4. QED
    BY <2>1, <2>2, <2>3
<1>4. /\ str' \in Words /\ expand_herdoc' \in BOOLEAN
      /\ outcome' \in {"open", "done", "outside"}
      /\ old_size' \in Nat /\ block' \in {old_size', old_size' + 1}
  BY DEF Copies, ExpansionTypeOK
<1>5. QED
  BY <1>2, <1>3, <1>4 DEF ExpansionTypeOK

(* The word stays as it is, and so does all that is said of its items. *)
LEMMA WordStays ==
  ASSUME str' = str, expand_herdoc' = expand_herdoc
  PROVE  /\ SourceOf(str)' = SourceOf(str)
         /\ SourceParts' = SourceParts /\ ValueParts' = ValueParts
         /\ CopiedParts' = CopiedParts
         /\ \A k : /\ IsUnset(k)' <=> IsUnset(k)
                   /\ IsValue(k)' <=> IsValue(k)
                   /\ IsFirstUnset(k)' <=> IsFirstUnset(k)
         /\ \A m : Expanded(m)' = Expanded(m)
<1>1. SourceOf(str)' = SourceOf(str) /\ SourceParts' = SourceParts
  BY DEF SourceOf, SourceParts
<1>2. /\ FirstChar' = FirstChar /\ (InQuotes' <=> InQuotes)
      /\ \A item : IsReplaced(item)' <=> IsReplaced(item)
  BY DEF FirstChar, InQuotes, IsReplaced
<1>3. \A k : /\ IsUnset(k)' <=> IsUnset(k)
             /\ IsValue(k)' <=> IsValue(k)
  BY <1>2 DEF IsUnset, IsValue
<1>4. \A k : IsFirstUnset(k)' <=> IsFirstUnset(k)
  BY <1>3 DEF IsFirstUnset
<1>5. ValueParts' = ValueParts
  BY <1>3 DEF ValueParts
<1>6. \A k : Copied(k)' = Copied(k)
  BY <1>2 DEF Copied
<1>7. CopiedParts' = CopiedParts
  BY <1>6 DEF CopiedParts
<1>8. \A m : Expanded(m)' = Expanded(m)
  <2>1. \A m : Expanded(m) = FlattenSeq([k \in 1 .. m |-> Copied(k)])
    BY DEF Expanded, Copied
  <2>2. \A m : Expanded(m)' = FlattenSeq([k \in 1 .. m |-> Copied(k)'])
    BY DEF Expanded, Copied
  <2>3. QED
    BY <1>6, <2>1, <2>2
<1>9. QED
  BY <1>1, <1>3, <1>4, <1>5, <1>7, <1>8

LEMMA RoomHolds ==
  ASSUME XInv, NEW s \in Seq(Chars \cup {NUL}), Copies(s), outcome # "outside"
  PROVE  RoomInv' /\ StaysInside'
<1> DEFINE n == Len(str)
           R == Len(result)
           L == Len(s)
           Src(m) == Len(Joined(SourceParts, m))
           Val(m) == Len(Joined(ValueParts, m))
           a == Src(next - 1)
           b == Val(next - 1)
           c == Len(SourceParts[next])
           d == Len(ValueParts[next])
<1>1. ExpansionTypeOK /\ ExpansionTypeOK'
  BY CopiesKeepTypes DEF XInv
<1>2. n \in Nat /\ Margin \in Nat /\ next \in 1 .. n
  BY <1>1, ItemFacts DEF Copies
<1>3. /\ str' = str /\ SourceOf(str)' = SourceOf(str)
      /\ SourceParts' = SourceParts /\ ValueParts' = ValueParts
      /\ \A k : IsValue(k)' <=> IsValue(k)
  BY WordStays DEF Copies
<1>4. ValuesRead = Joined(ValueParts, next - 1) /\ SourceOf(str) = Joined(SourceParts, n)
  BY <1>1, JoinedParts
<1>5. ValuesRead' = Joined(ValueParts, next' - 1)
  <2>1. (ExpansionTypeOK => PartsAreJoined)'
    BY PartsJoined, PTL
  <2>2. QED
    BY <1>1, <1>3, <2>1 DEF PartsAreJoined
<1>6. R \in Nat /\ L \in Nat /\ Len(result') = R + L
  <2>1. result \in Seq(Chars \cup {NUL}) /\ result' = result \o s
    BY <1>1 DEF ExpansionTypeOK, Copies
  <2>2. QED
    BY <2>1
<1>7. /\ a \in Nat /\ b \in Nat /\ c \in Nat /\ d \in Nat
      /\ Src(next) = a + c /\ Val(next) = b + d
      /\ SourceParts[next] = str[next].source
  BY <1>1, <1>2, PartsFacts, JoinedLengths
<1>8. Src(next) <= Src(n) /\ Src(n) \in Nat
  <2>1. next \in 0 .. n /\ n \in 0 .. n
    BY <1>2
  <2>2. QED
    BY <1>1, <1>2, <2>1, PartsFacts, JoinedGrows
<1>9. /\ old_size >= Src(n) + 2 + Margin /\ R <= a + b
      /\ old_size \in Nat /\ block \in {old_size, old_size + 1}
  BY <1>1, <1>4 DEF XInv, RoomInv, ExpansionTypeOK
<1>10. /\ old_size' \in Nat /\ old_size' >= old_size
       /\ L <= c + d
  BY DEF Copies
<1>11. old_size' >= Src(n) + 2 + Margin
  BY <1>2, <1>8, <1>9, <1>10
<1>12. CASE outcome' = "open" /\ next' = next + 1
  <2>1. next' - 1 = next
    BY <1>2, <1>12
  <2>2. R + L <= Src(next) + Val(next)
    <3> HIDE DEF R, L, a, b, c, d, Src, Val
    <3>1. QED
      BY <1>6, <1>7, <1>9, <1>10
  <2>3. RoomInv'
    <3>1. /\ SourceOf(str)' = Joined(SourceParts, n) /\ ValuesRead' = Joined(ValueParts, next)
      BY <1>3, <1>4, <1>5, <2>1
    <3>2. Len(result') <= Len(Joined(SourceParts', next' - 1)) + Len(ValuesRead')
      BY <1>3, <1>6, <2>1, <2>2, <3>1
    <3>3. old_size' >= Len(SourceOf(str)') + 2 + Margin
      BY <1>11, <3>1
    <3>4. QED
      BY <3>2, <3>3 DEF RoomInv
  <2>4. QED
    BY <1>12, <2>3 DEF StaysInside
<1>13. CASE /\ outcome' = "outside" /\ next' = next
            /\ ~IsValue(next) /\ R + L > block /\ L <= Len(str[next].source)
  <2>1. b > Margin
    <3>1. L <= c
      BY <1>7, <1>13
    <3> HIDE DEF R, L, a, b, c, d, Src, Val
    <3>2. R + L <= a + b + c
      BY <1>6, <1>7, <1>9, <3>1
    <3>3. a + c <= Src(n)
      BY <1>7, <1>8
    <3>4. R + L > Src(n) + 2 + Margin
      BY <1>2, <1>6, <1>8, <1>9, <1>13
    <3>5. QED
      BY <1>2, <1>6, <1>7, <1>8, <3>2, <3>3, <3>4
  <2>2. ValuesRead' = Joined(ValueParts, next - 1) /\ ~IsValue(next)'
    BY <1>3, <1>5, <1>13
  <2>3. next' = next /\ outcome' = "outside"
    BY <1>13
  <2>4. StaysInside'
    <3>1. ~(IsValue(next)')
      BY <2>2
    <3>2. Len(ValuesRead') > Margin
      BY <2>1, <2>2
    <3>3. QED
      BY <3>1, <3>2 DEF StaysInside
  <2>5. RoomInv'
    <3>1. old_size' >= Len(SourceOf(str)') + 2 + Margin
      BY <1>3, <1>4, <1>11
    <3>2. QED
      BY <2>3, <3>1 DEF RoomInv
  <2>6. QED
    BY <2>4, <2>5
<1>14. QED
  BY <1>12, <1>13 DEF Copies

LEMMA StillStarts ==
  ASSUME NEW S, NEW r \in Seq(S), NEW s \in Seq(S), NEW t \in Seq(S),
         StartsWith(r, t)
  PROVE  StartsWith(r \o s, t)
<1>1. Len(r) \in Nat /\ Len(s) \in Nat /\ Len(t) \in Nat
  OBVIOUS
<1>2. Len(r \o s) = Len(r) + Len(s) /\ \A j \in 1 .. Len(r) : (r \o s)[j] = r[j]
  BY Concatenation
<1>3. Len(t) <= Len(r) /\ \A j \in 1 .. Len(t) : r[j] = t[j]
  BY DEF StartsWith
<1>4. \A j \in 1 .. Len(t) : j \in 1 .. Len(r)
  BY <1>1, <1>3
<1>5. Len(t) <= Len(r \o s)
  BY <1>1, <1>2, <1>3
<1>6. QED
  BY <1>2, <1>3, <1>4, <1>5 DEF StartsWith

LEMMA ExpandedFacts ==
  ASSUME ExpansionTypeOK
  PROVE  /\ \A m \in 0 .. Len(str) : Expanded(m) \in Seq(Chars)
         /\ \A m \in 1 .. Len(str) : Expanded(m) = Expanded(m - 1) \o Copied(m)
<1>1. Len(str) \in Nat
  BY ItemFacts
<1>2. \A m \in 1 .. Len(str) : m \in 0 .. Len(str) /\ m - 1 \in 0 .. Len(str)
  BY <1>1
<1>3. CopiedParts \in [1 .. Len(str) -> Seq(Chars)]
  BY PartsFacts
<1>4. /\ \A m \in 0 .. Len(str) : Joined(CopiedParts, m) \in Seq(Chars)
      /\ \A m \in 1 .. Len(str) :
           Joined(CopiedParts, m) = Joined(CopiedParts, m - 1) \o CopiedParts[m]
  BY <1>1, <1>3, Joining
<1>5. \A m \in 1 .. Len(str) : CopiedParts[m] = Copied(m)
  BY PartsFacts
<1>6. \A m \in 0 .. Len(str) : Expanded(m) = Joined(CopiedParts, m)
  BY JoinedParts
<1>7. QED
  BY <1>2, <1>4, <1>5, <1>6

LEMMA CopyHolds ==
  ASSUME XInv, NEW s \in Seq(Chars \cup {NUL}), Copies(s), outcome # "outside"
  PROVE  CopyInv'
<1> SUFFICES ASSUME outcome' # "outside" PROVE CopyInv'
  BY DEF CopyInv
<1>1. ExpansionTypeOK
  BY DEF XInv
<1>2. Len(str) \in Nat /\ next \in 1 .. Len(str) /\ next \in Nat
  BY <1>1, ItemFacts DEF Copies
<1>3. next' = next + 1 /\ next' - 1 = next
  BY <1>2 DEF Copies
<1>4. /\ \A k : IsUnset(k)' <=> IsUnset(k)
      /\ \A k : IsFirstUnset(k)' <=> IsFirstUnset(k)
      /\ \A m : Expanded(m)' = Expanded(m)
  BY WordStays DEF Copies
<1>5. result \in Seq(Chars \cup {NUL}) /\ result' = result \o s
  BY <1>1 DEF ExpansionTypeOK, Copies
<1>6. next - 1 \in 0 .. Len(str) /\ \A k \in 1 .. next - 1 : k \in 1 .. next
  BY <1>2
<1>7. /\ (\A k \in 1 .. next - 1 : ~IsUnset(k)) => result = Expanded(next - 1)
      /\ \A k \in 1 .. next - 1 :
           IsFirstUnset(k) => StartsWith(result, Expanded(k - 1) \o <<NUL>>)
  BY DEF XInv, CopyInv
<1>8. (\A k \in 1 .. next : ~IsUnset(k)) => result' = Expanded(next)
  <2> SUFFICES ASSUME \A k \in 1 .. next : ~IsUnset(k) PROVE result' = Expanded(next)
    OBVIOUS
  <2>1. ~IsUnset(next)
    BY <1>2
  <2>2. s = Copied(next)
    BY <2>1 DEF Copies
  <2>3. result = Expanded(next - 1)
    BY <1>6, <1>7
  <2>4. QED
    BY <1>1, <1>2, <1>5, <2>2, <2>3, ExpandedFacts
<1>9. ASSUME NEW k \in 1 .. next, IsFirstUnset(k)
      PROVE  StartsWith(result', Expanded(k - 1) \o <<NUL>>)
  <2> DEFINE t == Expanded(k - 1) \o <<NUL>>
  <2>1. k - 1 \in 0 .. Len(str)
    BY <1>2
  <2>2. Expanded(k - 1) \in Seq(Chars)
    BY <1>1, <2>1, ExpandedFacts
  <2>3. t \in Seq(Chars \cup {NUL})
    BY <2>2
  <2> HIDE DEF t
  <2>4. CASE k \in 1 .. next - 1
    <3>1. StartsWith(result, t)
      BY <1>7, <1>9, <2>4 DEF t
    <3>2. StartsWith(result \o s, t)
      BY <1>5, <2>3, <3>1, StillStarts
    <3>3. QED
      BY <1>5, <3>2 DEF t
  <2>5. CASE k = next
    <3>1. s = <<NUL>>
      BY <1>9, <2>5 DEF IsFirstUnset, Copies
    <3>2. result = Expanded(next - 1)
      BY <1>7, <1>9, <2>5 DEF IsFirstUnset
    <3>3. result' = t
      BY <1>5, <2>5, <3>1, <3>2 DEF t
    <3>4. Len(t) \in Nat
      BY <2>3
    <3>5. StartsWith(t, t)
      BY <3>4 DEF StartsWith
    <3>6. QED
      BY <3>3, <3>5 DEF t
  <2>6. QED
    BY <1>2, <2>4, <2>5
<1>10. QED
  BY <1>3, <1>4, <1>8, <1>9 DEF CopyInv

LEMMA ExpansionStep == XInv /\ [ExpansionNext]_expansionVars => XInv'
<1> SUFFICES ASSUME XInv, [ExpansionNext]_expansionVars PROVE XInv'
  OBVIOUS
<1>1. CASE UNCHANGED expansionVars
  <2>1. /\ str' = str /\ expand_herdoc' = expand_herdoc /\ next' = next
        /\ result' = result /\ old_size' = old_size /\ block' = block
        /\ outcome' = outcome
    BY <1>1 DEF expansionVars
  <2>2. ExpansionTypeOK'
    BY <2>1 DEF XInv, ExpansionTypeOK
  <2>3. ValuesRead' = ValuesRead
    BY <2>1, WordStays DEF ValuesRead
  <2>4. RoomInv' /\ CopyInv' /\ EndInv' /\ StaysInside'
    BY <2>1, <2>3, WordStays DEF XInv, RoomInv, CopyInv, EndInv, StaysInside
  <2>5. QED
    BY <2>2, <2>4 DEF XInv
<1>2. CASE CopyText \/ CopyUnset \/ CopyValue
  <2>1. PICK s \in Seq(Chars \cup {NUL}) : Copies(s)
    BY <1>2, TextIsCopied, UnsetIsCopied, ValueIsCopied DEF XInv
  <2>2. outcome # "outside"
    BY <1>2 DEF CopyText, CopyUnset, CopyValue, Reads
  <2>3. EndInv'
    BY <2>1 DEF Copies, EndInv
  <2>4. QED
    BY <2>1, <2>2, <2>3, CopiesKeepTypes, RoomHolds, CopyHolds DEF XInv
<1>3. CASE Finish
  <2>1. /\ str' = str /\ expand_herdoc' = expand_herdoc /\ next' = next
        /\ result' = result /\ old_size' = old_size /\ block' = block
        /\ outcome = "open" /\ next > Len(str)
        /\ outcome' = IF Len(result) + 1 > block THEN "outside" ELSE "done"
    BY <1>3 DEF Finish
  <2>2. ExpansionTypeOK'
    BY <2>1 DEF XInv, ExpansionTypeOK
  <2>3. ValuesRead' = ValuesRead
    BY <2>1, WordStays DEF ValuesRead
  <2>4. RoomInv' /\ CopyInv'
    BY <2>1, <2>3, WordStays DEF XInv, RoomInv, CopyInv
  <2>5. next = Len(str) + 1 /\ Len(str) \in Nat /\ Margin \in Nat
    BY <2>1, ItemFacts DEF XInv, ExpansionTypeOK
  <2>6. EndInv'
    BY <2>1, <2>5 DEF EndInv
  <2>7. StaysInside'
    <3> DEFINE a == Len(SourceOf(str))
               b == Len(ValuesRead)
               c == Len(Joined(SourceParts, next - 1))
               r == Len(result)
    <3>1. SourceOf(str) = Joined(SourceParts, next - 1)
      BY <2>5, JoinedParts DEF XInv
    <3>2. a \in Nat /\ b \in Nat /\ r \in Nat /\ a = c
      <4>1. Len(str) \in 0 .. Len(str) /\ next - 1 = Len(str)
        BY <2>5
      <4>2. a \in Nat /\ b \in Nat
        <5>1. /\ SourceParts \in [1 .. Len(str) -> Seq(Chars)]
              /\ ValueParts \in [1 .. Len(str) -> Seq(Chars)]
          BY PartsFacts DEF XInv
        <5>2. ValuesRead = Joined(ValueParts, Len(str))
          BY <4>1, JoinedParts DEF XInv
        <5>3. SourceOf(str) = Joined(SourceParts, Len(str))
          BY JoinedParts DEF XInv
        <5>4. QED
          BY <2>5, <4>1, <5>1, <5>2, <5>3, JoinedGrows
      <4>3. r \in Nat
        BY DEF XInv, ExpansionTypeOK
      <4>4. QED
        BY <3>1, <4>2, <4>3
    <3>3. old_size >= a + 2 + Margin /\ r <= c + b
      BY <2>1 DEF XInv, RoomInv
    <3>4. old_size \in Nat /\ block \in {old_size, old_size + 1}
      BY DEF XInv, ExpansionTypeOK
    <3> HIDE DEF a, b, c, r
    <3>5. r + 1 > block => b > Margin
      BY <2>5, <3>2, <3>3, <3>4
    <3>6. outcome' = "outside" => Len(ValuesRead') > Margin
      BY <2>1, <2>3, <3>5 DEF b, r
    <3>7. ~(next' <= Len(str'))
      BY <2>1, <2>5
    <3>8. QED
      BY <3>6, <3>7 DEF StaysInside
  <2>8. QED
    BY <2>2, <2>4, <2>6, <2>7 DEF XInv
<1>4. QED
  BY <1>1, <1>2, <1>3 DEF ExpansionNext, Stopped

LEMMA ExpansionInvariance == ExpansionSpec => []XInv
BY ExpansionStarts, ExpansionStep, PTL DEF ExpansionSpec

(***************************************************************************)
(* The types of expand_env: among them that what the function takes for    *)
(* the size of its block is at most a character behind it.                 *)
(***************************************************************************)
THEOREM ExpansionIsTyped == ExpansionSpec => []ExpansionTypeOK
<1>1. XInv => ExpansionTypeOK
  BY DEF XInv
<1>2. QED
  BY <1>1, ExpansionInvariance, PTL

(***************************************************************************)
(* make_the_envirement: a word whose values are together no longer than    *)
(* the margin is expanded inside of its block, and no value of any length  *)
(* lies outside; for every word, with any items, and every margin.         *)
(***************************************************************************)
THEOREM ExpansionStaysInside == ExpansionSpec => []StaysInside
<1>1. XInv => StaysInside
  BY DEF XInv
<1>2. QED
  BY <1>1, ExpansionInvariance, PTL

LEMMA CutAtNUL ==
  ASSUME NEW r \in Seq(Chars \cup {NUL}), NEW t \in Seq(Chars),
         StartsWith(r, t \o <<NUL>>)
  PROVE  LET ends == {k \in DOMAIN r : r[k] = NUL}
         IN  ends # {} /\ SubSeq(r, 1, Min(ends) - 1) = t
<1> DEFINE ends == {k \in DOMAIN r : r[k] = NUL}
           n == Len(t)
           u == t \o <<NUL>>
<1>1. n \in Nat /\ Len(r) \in Nat /\ DOMAIN r = 1 .. Len(r)
  OBVIOUS
<1>2. /\ Len(u) = n + 1 /\ u[n + 1] = NUL
      /\ \A j \in 1 .. n : u[j] = t[j] /\ t[j] \in Chars
  OBVIOUS
<1>3. Len(u) <= Len(r) /\ \A j \in 1 .. Len(u) : r[j] = u[j]
  BY DEF StartsWith
<1> HIDE DEF u
<1>4. /\ n + 1 <= Len(r) /\ r[n + 1] = NUL
      /\ \A j \in 1 .. n : r[j] = t[j]
  <2>1. n + 1 \in 1 .. Len(u) /\ \A j \in 1 .. n : j \in 1 .. Len(u)
    BY <1>1, <1>2
  <2>2. QED
    BY <1>2, <1>3, <2>1
<1>5. n + 1 \in ends /\ ends \subseteq Nat
  BY <1>1, <1>4
<1>6. \A k \in ends : n + 1 <= k
  <2>1. \A j \in 1 .. n : r[j] # NUL
    BY <1>2, <1>4, NULIsNoCharacter
  <2>2. \A k \in ends : k \in Nat /\ k >= 1 /\ k \notin 1 .. n
    BY <1>1, <2>1
  <2> HIDE DEF ends
  <2>3. QED
    BY <1>1, <2>2
<1>7. Min(ends) = n + 1
  <2> HIDE DEF ends
  <2>1. Min(ends) \in ends /\ \A k \in ends : Min(ends) <= k
    BY <1>5, <1>6 DEF Min
  <2>2. Min(ends) <= n + 1 /\ n + 1 <= Min(ends)
    BY <1>5, <1>6, <2>1, Zenon
  <2>3. Min(ends) \in Nat
    BY <1>5, <2>1
  <2>4. QED
    BY <1>1, <2>2, <2>3
<1>8. SubSeq(r, 1, n) = t
  <2> DEFINE v == SubSeq(r, 1, n)
  <2>1. v \in Seq(Chars \cup {NUL}) /\ Len(v) = n /\ \A j \in 1 .. n : v[j] = r[j]
    <3>1. \A S : \A w \in Seq(S) : \A m \in Nat : m <= Len(w) =>
            /\ SubSeq(w, 1, m) \in Seq(S) /\ Len(SubSeq(w, 1, m)) = m
            /\ \A j \in 1 .. m : SubSeq(w, 1, m)[j] = w[j]
      OBVIOUS
    <3>2. n <= Len(r)
      BY <1>1, <1>4
    <3>3. QED
      BY <1>1, <3>1, <3>2
  <2> HIDE DEF v
  <2>2. v = t
    BY <1>1, <1>4, <2>1
  <2>3. QED
    BY <2>2 DEF v
<1>9. Min(ends) - 1 = n
  BY <1>1, <1>7
<1>10. QED
  BY <1>5, <1>8, <1>9

(* The invariant says it of the copy when its last NUL is written. *)
LEMMA ReadUpToUnset == XInv => ExpandsUpToUnset
<1> SUFFICES ASSUME XInv, outcome = "done" PROVE ExpandsUpToUnset
  BY DEF ExpandsUpToUnset
<1> DEFINE cut == {k \in DOMAIN str : IsUnset(k)}
           ends == {k \in DOMAIN result : result[k] = NUL}
<1>1. ExpansionTypeOK
  BY DEF XInv
<1>2. /\ Len(str) \in Nat /\ DOMAIN str = 1 .. Len(str)
      /\ next - 1 = Len(str)
  BY <1>1, ItemFacts DEF XInv, EndInv
<1>3. result \in Seq(Chars \cup {NUL})
  BY <1>1 DEF ExpansionTypeOK
<1>4. CASE cut = {}
  <2>1. \A k \in 1 .. next - 1 : ~IsUnset(k)
    BY <1>2, <1>4
  <2>2. result = Expanded(Len(str))
    BY <1>2, <2>1 DEF XInv, CopyInv
  <2>3. result \in Seq(Chars)
    <3>1. Len(str) \in 0 .. Len(str)
      BY <1>2
    <3>2. QED
      BY <1>1, <2>2, <3>1, ExpandedFacts
  <2>4. \A k \in DOMAIN result : result[k] \in Chars
    BY <2>3
  <2>5. ends = {}
    BY <2>4, NULIsNoCharacter
  <2>6. QED
    BY <1>4, <2>2, <2>5 DEF ExpandsUpToUnset, ReadAsText
<1>5. CASE cut # {}
  <2>1. cut \subseteq Nat
    BY <1>2
  <2>2. PICK k \in cut : \A j \in cut : k <= j
    <3> HIDE DEF cut
    <3>1. QED
      BY <1>5, <2>1, LeastNumber
  <2>3. k \in 1 .. Len(str) /\ IsUnset(k)
    BY <1>2
  <2>4. \A j \in 1 .. k - 1 : ~IsUnset(j)
    <3> SUFFICES ASSUME NEW j \in 1 .. k - 1, IsUnset(j) PROVE FALSE
      OBVIOUS
    <3>1. j \in 1 .. Len(str) /\ j < k
      BY <1>2, <2>3
    <3>2. j \in cut
      BY <1>2, <3>1
    <3>3. k <= j
      BY <2>2, <3>2
    <3>4. QED
      BY <2>3, <3>1, <3>3
  <2>5. StartsWith(result, Expanded(k - 1) \o <<NUL>>)
    BY <1>2, <2>3, <2>4 DEF XInv, CopyInv, IsFirstUnset
  <2>6. Expanded(k - 1) \in Seq(Chars)
    <3>1. k - 1 \in 0 .. Len(str)
      BY <1>2, <2>3
    <3>2. QED
      BY <1>1, <3>1, ExpandedFacts
  <2>7. ends # {} /\ SubSeq(result, 1, Min(ends) - 1) = Expanded(k - 1)
    BY <1>3, <2>5, <2>6, CutAtNUL
  <2>8. Min(cut) = k
    <3> HIDE DEF cut
    <3>1. Min(cut) \in cut /\ \A j \in cut : Min(cut) <= j
      BY <2>2 DEF Min
    <3>2. Min(cut) <= k /\ k <= Min(cut)
      BY <2>2, <3>1
    <3>3. Min(cut) \in Nat /\ k \in Nat
      BY <2>1, <2>2, <3>1
    <3>4. QED
      BY <3>2, <3>3
  <2>9. ReadAsText = Expanded(Min(cut) - 1)
    <3>1. ReadAsText = SubSeq(result, 1, Min(ends) - 1)
      BY <2>7 DEF ReadAsText
    <3>2. QED
      BY <2>7, <2>8, <3>1
  <2>10. QED
    BY <1>5, <2>9 DEF ExpandsUpToUnset
<1>6. QED
  BY <1>4, <1>5

(***************************************************************************)
(* simple_condition: what is read of the copy is the word with its values  *)
(* up to the first variable that has none, where the copy has a NUL; for   *)
(* every word.                                                             *)
(***************************************************************************)
THEOREM WordIsExpanded == ExpansionSpec => []ExpandsUpToUnset
BY ReadUpToUnset, ExpansionInvariance, PTL

=============================================================================
