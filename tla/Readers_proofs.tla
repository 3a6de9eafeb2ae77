--------------------------- MODULE Readers_proofs ---------------------------
(***************************************************************************)
(* Proofs about Readers, for any tables, requests, series and policies.     *)
(*                                                                          *)
(* Rows are immutable and are inserted with the clock's time, so the rows   *)
(* that can be seen only grow, and those known by a settled instant stay as *)
(* they are (RevisionsKept, a lemma of every step of the tables).  On this  *)
(* rest the four parts of the invariant, one for each reader:               *)
(*  - ValuationsInv: a valuation under way has loaded what it would load    *)
(*    now, if its request is settled, and the paths of stored lines connect;*)
(*  - RunsInv: sealed entries rest on rows that their valuation may know;   *)
(*  - TimelineInv: what a walk owes is among its items or stands ahead of   *)
(*    its cursor, where a correction can replace it but not remove it;      *)
(*  - QualityInv: each answer so far is the one that would be given now.    *)
(* A part survives the steps of its reader by lemmas on the operators that  *)
(* read, and the steps of all others by RevisionsKept.                      *)
(*                                                                          *)
(* SealsInv adds that sealed runs verify: the evidence service repeats what *)
(* the scenario service computed, over rows that can only become more.      *)
(***************************************************************************)
EXTENDS Readers, FiniteSetTheorems, SequenceTheorems, TLAPS

-----------------------------------------------------------------------------
(* Orders.                                                                 *)

\* The keys of different rows differ, and compare as ORDER BY needs.
Ordered(key) ==
    /\ \A x \in DOMAIN key : ~Before(key[x], key[x])
    /\ \A x, y \in DOMAIN key : x = y \/ Before(key[x], key[y]) \/ Before(key[y], key[x])
    /\ \A x, y, z \in DOMAIN key :
          Before(key[x], key[y]) /\ Before(key[y], key[z]) => Before(key[x], key[z])

Below(key, x) == {y \in DOMAIN key : Before(key[y], key[x])}

\* A row that goes before another has fewer rows in front of it.
LEMMA BelowGrows ==
    ASSUME NEW key, IsFiniteSet(DOMAIN key), Ordered(key)
    PROVE  /\ \A x \in DOMAIN key : Cardinality(Below(key, x)) \in 0..(Cardinality(DOMAIN key) - 1)
           /\ \A x, y \in DOMAIN key :
                 Before(key[x], key[y]) => Cardinality(Below(key, x)) < Cardinality(Below(key, y))
<1>0. Cardinality(DOMAIN key) \in Nat
  BY FS_CardinalityType
<1>1. ASSUME NEW x \in DOMAIN key
      PROVE  /\ IsFiniteSet(Below(key, x))
             /\ Cardinality(Below(key, x)) \in Nat
             /\ Cardinality(Below(key, x)) < Cardinality(DOMAIN key)
  <2>1. Below(key, x) \in SUBSET DOMAIN key /\ Below(key, x) # DOMAIN key
    BY DEF Below, Ordered
  <2>2. /\ IsFiniteSet(Below(key, x))
        /\ Cardinality(Below(key, x)) <= Cardinality(DOMAIN key)
        /\ Cardinality(DOMAIN key) = Cardinality(Below(key, x)) => DOMAIN key = Below(key, x)
    BY <2>1, FS_Subset
  <2>3. Cardinality(Below(key, x)) \in Nat
    BY <2>2, FS_CardinalityType
  <2> QED BY <1>0, <2>1, <2>2, <2>3
<1>2. ASSUME NEW x \in DOMAIN key, NEW y \in DOMAIN key, Before(key[x], key[y])
      PROVE  Cardinality(Below(key, x)) < Cardinality(Below(key, y))
  <2>1. Below(key, x) \in SUBSET Below(key, y) /\ Below(key, x) # Below(key, y)
    BY <1>2 DEF Below, Ordered
  <2>2. /\ Cardinality(Below(key, x)) <= Cardinality(Below(key, y))
        /\ Cardinality(Below(key, y)) = Cardinality(Below(key, x)) => Below(key, y) = Below(key, x)
    BY <1>1, <2>1, FS_Subset
  <2> QED BY <1>1, <2>1, <2>2
<1> QED BY <1>0, <1>1, <1>2

\* InOrder lists every row once, in the order of the keys.
LEMMA InOrderSorts ==
    ASSUME NEW key, IsFiniteSet(DOMAIN key), Ordered(key)
    PROVE  /\ InOrder(key) \in Seq(DOMAIN key)
           /\ Len(InOrder(key)) = Cardinality(DOMAIN key)
           /\ DOMAIN InOrder(key) = 1..Cardinality(DOMAIN key)
           /\ \A n \in DOMAIN InOrder(key) :
                 /\ InOrder(key)[n] \in DOMAIN key
                 /\ Cardinality(Below(key, InOrder(key)[n])) = n - 1
           /\ \A x \in DOMAIN key : \E n \in DOMAIN InOrder(key) : InOrder(key)[n] = x
           /\ \A m, n \in DOMAIN InOrder(key) :
                 m < n => Before(key[InOrder(key)[m]], key[InOrder(key)[n]])
<1> DEFINE S == DOMAIN key
           c == Cardinality(S)
           s == InOrder(key)
           rank == [x \in S |-> Cardinality(Below(key, x)) + 1]
<1>0. c \in Nat
  BY FS_CardinalityType
<1>1. rank \in Injection(S, 1..c)
  <2>1. \A x \in S : Cardinality(Below(key, x)) \in 0..(c - 1)
    BY BelowGrows
  <2>2. \A x, y \in S : rank[x] = rank[y] => x = y
    <3>1. \A x, y \in S : Before(key[x], key[y]) => Cardinality(Below(key, x)) < Cardinality(Below(key, y))
      BY BelowGrows
    <3> SUFFICES ASSUME NEW x \in S, NEW y \in S, Cardinality(Below(key, x)) + 1 = Cardinality(Below(key, y)) + 1,
                        x # y
                 PROVE  FALSE
      OBVIOUS
    <3>2. Before(key[x], key[y]) \/ Before(key[y], key[x])
      BY DEF Ordered
    <3>3. Cardinality(Below(key, x)) \in Int /\ Cardinality(Below(key, y)) \in Int
      BY <2>1, <1>0
    <3>4. Cardinality(Below(key, x)) = Cardinality(Below(key, y))
      BY <3>3
    <3> QED BY <3>1, <3>2, <3>3, <3>4
  <2>3. rank \in [S -> 1..c]
    BY <2>1, <1>0
  <2> QED BY <2>2, <2>3 DEF Injection, IsInjective
<1>2. rank \in Surjection(S, 1..c)
  <2>1. IsFiniteSet(1..c) /\ Cardinality(1..c) = c
    BY <1>0, FS_Interval
  <2> HIDE DEF rank
  <2> QED BY <1>1, <2>1, FS_Injection
<1>3. \A n \in 1..c : \E x \in S : Cardinality(Below(key, x)) = n - 1
  <2> TAKE n \in 1..c
  <2>1. PICK x \in S : rank[x] = n
    BY <1>2 DEF Surjection
  <2>2. Cardinality(Below(key, x)) \in 0..(c - 1)
    BY BelowGrows
  <2> QED BY <1>0, <2>1, <2>2
<1>4. s = [n \in 1..c |-> CHOOSE x \in S : Cardinality(Below(key, x)) = n - 1]
  BY DEF InOrder, Below
<1>5. /\ s \in Seq(S) /\ Len(s) = c /\ DOMAIN s = 1..c
      /\ \A n \in 1..c : s[n] \in S /\ Cardinality(Below(key, s[n])) = n - 1
  <2> HIDE DEF s
  <2>1. \A n \in 1..c : s[n] \in S /\ Cardinality(Below(key, s[n])) = n - 1
    BY <1>3, <1>4
  <2>2. s \in [1..c -> S]
    BY <1>4, <2>1
  <2> QED BY <1>0, <2>1, <2>2
<1>6. ASSUME NEW m \in 1..c, NEW n \in 1..c, m < n
      PROVE  Before(key[s[m]], key[s[n]])
  <2>1. s[m] # s[n]
    BY <1>5, <1>6, <1>0
  <2>2. Before(key[s[m]], key[s[n]]) \/ Before(key[s[n]], key[s[m]])
    BY <1>5, <2>1 DEF Ordered
  <2>3. Before(key[s[n]], key[s[m]]) => n - 1 < m - 1
    BY <1>5, BelowGrows
  <2> QED BY <1>6, <1>0, <2>2, <2>3
<1>7. ASSUME NEW x \in S
      PROVE  \E n \in 1..c : s[n] = x
  <2>1. PICK n \in 1..c : n = Cardinality(Below(key, x)) + 1
    BY <1>0, BelowGrows
  <2>2. s[n] \in S /\ Cardinality(Below(key, s[n])) = Cardinality(Below(key, x))
    BY <1>0, <1>5, <2>1, BelowGrows
  <2>3. /\ Before(key[s[n]], key[x]) => Cardinality(Below(key, s[n])) < Cardinality(Below(key, x))
        /\ Before(key[x], key[s[n]]) => Cardinality(Below(key, x)) < Cardinality(Below(key, s[n]))
    BY <2>2, BelowGrows
  <2>4. Cardinality(Below(key, x)) \in 0..(c - 1)
    BY BelowGrows
  <2>5. s[n] = x
    BY <2>2, <2>3, <2>4, <1>0 DEF Ordered
  <2> QED BY <2>5
<1> QED BY <1>5, <1>6, <1>7

\* A list in the order of the keys with every row in it is InOrder.
LEMMA OnlyOneOrder ==
    ASSUME NEW key, IsFiniteSet(DOMAIN key), Ordered(key), NEW s \in Seq(DOMAIN key),
           \A m, n \in DOMAIN s : m < n => Before(key[s[m]], key[s[n]]),
           \A x \in DOMAIN key : \E n \in DOMAIN s : s[n] = x
    PROVE  s = InOrder(key)
<1> DEFINE S == DOMAIN key
           c == Cardinality(S)
<1>1. Len(s) \in Nat /\ DOMAIN s = 1..Len(s) /\ \A n \in 1..Len(s) : s[n] \in S
  OBVIOUS
<1>2. ASSUME NEW n \in 1..Len(s)
      PROVE  Cardinality(Below(key, s[n])) = n - 1
  <2> DEFINE front == [m \in 1..(n - 1) |-> s[m]]
  <2>1. \A m \in 1..(n - 1) : s[m] \in Below(key, s[n])
    BY <1>1 DEF Below
  <2>2. \A x \in Below(key, s[n]) : \E m \in 1..(n - 1) : s[m] = x
    <3> TAKE x \in Below(key, s[n])
    <3>1. x \in S /\ Before(key[x], key[s[n]])
      BY DEF Below
    <3>2. PICK m \in 1..Len(s) : s[m] = x
      BY <3>1, <1>1
    <3>3. m # n /\ ~(n < m)
      BY <3>1, <3>2, <1>1 DEF Ordered
    <3> QED BY <3>2, <3>3, <1>1
  <2>3. \A k, m \in 1..(n - 1) : s[k] = s[m] => k = m
    <3> SUFFICES ASSUME NEW k \in 1..(n - 1), NEW m \in 1..(n - 1), s[k] = s[m], k < m
                 PROVE  FALSE
      BY <1>1
    <3> QED BY <1>1 DEF Ordered
  <2>4. front \in Bijection(1..(n - 1), Below(key, s[n]))
    BY <2>1, <2>2, <2>3 DEF Bijection, Injection, Surjection, IsInjective
  <2> HIDE DEF front
  <2>5. ExistsBijection(1..(n - 1), Below(key, s[n]))
    BY <2>4 DEF ExistsBijection
  <2>6. n - 1 \in Nat
    BY <1>1
  <2> QED BY <2>5, <2>6, FS_CountingElements
<1>3. Len(s) = c
  <2>1. \A k, m \in 1..Len(s) : s[k] = s[m] => k = m
    BY <1>1, <1>2
  <2>2. s \in Bijection(1..Len(s), S)
    BY <1>1, <2>1 DEF Bijection, Injection, Surjection, IsInjective
  <2>3. ExistsBijection(1..Len(s), S)
    BY <2>2 DEF ExistsBijection
  <2> QED BY <1>1, <2>3, FS_CountingElements
<1>4. ASSUME NEW n \in 1..c
      PROVE  s[n] = InOrder(key)[n]
  <2>1. InOrder(key)[n] \in S /\ Cardinality(Below(key, InOrder(key)[n])) = n - 1
    BY InOrderSorts
  <2>2. PICK m \in 1..Len(s) : s[m] = InOrder(key)[n]
    BY <1>1, <2>1
  <2>3. m = n
    BY <1>2, <1>3, <2>1, <2>2
  <2> QED BY <2>2, <2>3
<1>5. InOrder(key) = [n \in 1..c |-> InOrder(key)[n]]
  <2>1. InOrder(key) \in Seq(S) /\ Len(InOrder(key)) = c
    BY InOrderSorts
  <2> QED BY <2>1
<1>6. s = [n \in 1..c |-> s[n]]
  BY <1>1, <1>3
<1> QED BY <1>4, <1>5, <1>6

\* The first of a set of rows.
LEMMA FirstExists ==
    ASSUME NEW key, IsFiniteSet(DOMAIN key), Ordered(key), DOMAIN key # {}
    PROVE  \E x \in DOMAIN key : \A y \in DOMAIN key : y = x \/ Before(key[x], key[y])
<1>1. Cardinality(DOMAIN key) \in Nat \ {0}
  BY FS_CardinalityType, FS_EmptySet
<1>2. InOrder(key)[1] \in DOMAIN key
  BY <1>1, InOrderSorts
<1>3. ASSUME NEW y \in DOMAIN key
      PROVE  y = InOrder(key)[1] \/ Before(key[InOrder(key)[1]], key[y])
  <2>1. PICK n \in 1..Cardinality(DOMAIN key) : InOrder(key)[n] = y
    BY InOrderSorts
  <2>2. n = 1 \/ 1 < n
    BY <1>1
  <2>3. 1 \in DOMAIN InOrder(key) /\ n \in DOMAIN InOrder(key)
    BY <1>1, InOrderSorts
  <2>4. 1 < n => Before(key[InOrder(key)[1]], key[InOrder(key)[n]])
    BY <2>3, InOrderSorts
  <2> QED BY <2>1, <2>2, <2>4
<1> QED BY <1>2, <1>3

\* A list of two, three or four ascending keys.
LEMMA Before2 ==
    \A a, b, e, f \in Int : Before(<<a, b>>, <<e, f>>) <=> a < e \/ (a = e /\ b < f)
<1> SUFFICES ASSUME NEW a \in Int, NEW b \in Int, NEW e \in Int, NEW f \in Int
             PROVE  Before(<<a, b>>, <<e, f>>) <=> a < e \/ (a = e /\ b < f)
  OBVIOUS
<1>1. Before(<<a, b>>, <<e, f>>) <=>
        \E i \in {1, 2} : <<a, b>>[i] < <<e, f>>[i] /\ \A j \in 1..(i - 1) : <<a, b>>[j] = <<e, f>>[j]
  BY DEF Before
<1>2. 1..(1 - 1) = {} /\ 1..(2 - 1) = {1}
  OBVIOUS
<1> QED BY <1>1, <1>2

LEMMA Before3 ==
    \A a, b, c, e, f, g \in Int :
        Before(<<a, b, c>>, <<e, f, g>>) <=> a < e \/ (a = e /\ b < f) \/ (a = e /\ b = f /\ c < g)
<1> SUFFICES ASSUME NEW a \in Int, NEW b \in Int, NEW c \in Int, NEW e \in Int, NEW f \in Int, NEW g \in Int
             PROVE  Before(<<a, b, c>>, <<e, f, g>>) <=>
                        a < e \/ (a = e /\ b < f) \/ (a = e /\ b = f /\ c < g)
  OBVIOUS
<1>1. Before(<<a, b, c>>, <<e, f, g>>) <=>
        \E i \in {1, 2, 3} : /\ <<a, b, c>>[i] < <<e, f, g>>[i]
                            /\ \A j \in 1..(i - 1) : <<a, b, c>>[j] = <<e, f, g>>[j]
  BY DEF Before
<1>2. 1..(1 - 1) = {} /\ 1..(2 - 1) = {1} /\ 1..(3 - 1) = {1, 2}
  OBVIOUS
<1> QED BY <1>1, <1>2

LEMMA Before4 ==
    ASSUME NEW x \in Int \X Int \X Int \X Int, NEW y \in Int \X Int \X Int \X Int
    PROVE  Before(x, y) <=>
             \/ x[1] < y[1] \/ (x[1] = y[1] /\ x[2] < y[2]) \/ (x[1] = y[1] /\ x[2] = y[2] /\ x[3] < y[3])
             \/ (x[1] = y[1] /\ x[2] = y[2] /\ x[3] = y[3] /\ x[4] < y[4])
<1>1. DOMAIN x = {1, 2, 3, 4}
  OBVIOUS
<1>2. Before(x, y) <=> \E i \in {1, 2, 3, 4} : x[i] < y[i] /\ \A j \in 1..(i - 1) : x[j] = y[j]
  BY <1>1 DEF Before
<1>3. 1..(1 - 1) = {} /\ 1..(2 - 1) = {1} /\ 1..(3 - 1) = {1, 2} /\ 1..(4 - 1) = {1, 2, 3}
  OBVIOUS
<1> QED BY <1>2, <1>3

\* The least and the greatest of a finite set of integers.
LEMMA MinMaxExist ==
    ASSUME NEW S \in SUBSET Int, IsFiniteSet(S), S # {}
    PROVE  /\ Min(S) \in S /\ \A y \in S : Min(S) <= y
           /\ Max(S) \in S /\ \A y \in S : Max(S) >= y
<1>1. PICK up : up = [x \in S |-> <<x, 0>>]
  OBVIOUS
<1>2. PICK down : down = [x \in S |-> <<-x, 0>>]
  OBVIOUS
<1>3. /\ DOMAIN up = S /\ \A x, y \in S : Before(up[x], up[y]) <=> x < y
      /\ DOMAIN down = S /\ \A x, y \in S : Before(down[x], down[y]) <=> y < x
  <2>1. \A x, y \in S : /\ Before(<<x, 0>>, <<y, 0>>) <=> x < y
                        /\ Before(<<-x, 0>>, <<-y, 0>>) <=> y < x
    <3> TAKE x, y \in S
    <3>1. x \in Int /\ y \in Int /\ -x \in Int /\ -y \in Int /\ 0 \in Int
      OBVIOUS
    <3>2. Before(<<x, 0>>, <<y, 0>>) <=> x < y \/ (x = y /\ 0 < 0)
      BY <3>1, Before2
    <3>3. Before(<<-x, 0>>, <<-y, 0>>) <=> -x < -y \/ (-x = -y /\ 0 < 0)
      BY <3>1, Before2
    <3> QED BY <3>1, <3>2, <3>3
  <2> QED BY <1>1, <1>2, <2>1
<1>4. Ordered(up) /\ Ordered(down)
  <2>1. \A x, y, z \in S : /\ ~(x < x) /\ (x = y \/ x < y \/ y < x) /\ (x < y /\ y < z => x < z)
    OBVIOUS
  <2>2. Ordered(up)
    BY <1>3, <2>1 DEF Ordered
  <2>3. Ordered(down)
    BY <1>3, <2>1 DEF Ordered
  <2> QED BY <2>2, <2>3
<1>5. PICK x \in S : \A y \in S : y = x \/ Before(up[x], up[y])
  BY <1>3, <1>4, FirstExists
<1>6. PICK z \in S : \A y \in S : y = z \/ Before(down[z], down[y])
  BY <1>3, <1>4, FirstExists
<1>7. \A y \in S : x <= y /\ z >= y
  BY <1>3, <1>5, <1>6
<1> QED BY <1>7 DEF Min, Max

-----------------------------------------------------------------------------
(* The tables.                                                             *)

\* A row is what a provider delivered, with the clock at its insert.
RowsInv ==
    /\ clock \in Int
    /\ IsFiniteSet(revisions)
    /\ \A r \in revisions : r.system \in Int /\ \E a \in Arrival : r = Stamped(a, r.system)
    /\ \A r, s \in revisions : r.id = s.id => r = s

LEMMA RowFields ==
    ASSUME RowsInv, NEW r \in revisions
    PROVE  r.id \in Int /\ r.obs \in Int /\ r.source \in Int /\ r.system \in Int
BY RevisionsAssumption DEF RowsInv, Stamped

LEMMA ObservationFields ==
    ASSUME RowsInv, NEW r \in revisions, r.kind = "observation"
    PROVE  r.of \in Int
BY TimelineAssumption DEF RowsInv, Stamped

LEMMA VisibleFinite ==
    ASSUME RowsInv
    PROVE  Visible \subseteq revisions /\ IsFiniteSet(Visible)
<1>1. Visible \in SUBSET revisions
  BY DEF Visible
<1> QED BY <1>1, FS_Subset DEF RowsInv

\* The start: rows with the ids of a finite set.
LEMMA RowsInit == RevisionInit => RowsInv
<1> SUFFICES ASSUME RevisionInit PROVE RowsInv
  OBVIOUS
<1>1. PICK S \in Earlier : revisions = {Stamped(a, 0) : a \in {b \in Arrival : b.id \in S}}
  BY DEF RevisionInit
<1>2. \A r \in revisions : r.system = 0 /\ r.id \in S /\ \E a \in Arrival : r = Stamped(a, 0) /\ a.id = r.id
  BY <1>1 DEF Stamped
<1>3. \A r, s \in revisions : r.id = s.id => r = s
  BY <1>2, RevisionsAssumption
<1>4. IsFiniteSet(revisions)
  <2>1. PICK f : f = [r \in revisions |-> r.id]
    OBVIOUS
  <2>2. f \in Injection(revisions, S)
    BY <1>2, <1>3, <2>1 DEF Injection, IsInjective
  <2>3. IsFiniteSet(S)
    BY RevisionsAssumption
  <2> QED BY <2>2, <2>3, FS_Injection
<1>5. clock \in Int
  BY DEF RevisionInit
<1> QED BY <1>2, <1>3, <1>4, <1>5 DEF RowsInv

KnownBy(t) == {r \in Visible : r.system <= t}

\* Rows that are settled stay, and nothing is added to them.
RevisionsKept ==
    /\ RowsInv'
    /\ Visible \subseteq Visible'
    /\ \A t \in Int : SettledBy(t) => SettledBy(t)' /\ KnownBy(t)' = KnownBy(t)

LEMMA InsertKeeps ==
    ASSUME RowsInv, NEW a \in Arrival, InsertRevision(a)
    PROVE  RevisionsKept
<1> DEFINE new == Stamped(a, clock)
<1>0. /\ revisions' = revisions \cup {new} /\ unsettled' = unsettled \cup {a.id} /\ clock' = clock
      /\ \A r \in revisions : r.id # a.id
  BY DEF InsertRevision
<1>1. new.id = a.id /\ new.system = clock /\ new = Stamped(a, new.system)
  BY DEF Stamped
<1> HIDE DEF new
<1>2. RowsInv'
  <2>1. IsFiniteSet(revisions')
    BY <1>0, FS_AddElement DEF RowsInv
  <2>2. \A r \in revisions' : r.system \in Int /\ \E b \in Arrival : r = Stamped(b, r.system)
    BY <1>0, <1>1 DEF RowsInv
  <2>3. \A r, s \in revisions' : r.id = s.id => r = s
    BY <1>0, <1>1 DEF RowsInv
  <2> QED BY <1>0, <2>1, <2>2, <2>3 DEF RowsInv
<1>3. Visible' = Visible
  BY <1>0, <1>1 DEF Visible
<1>4. ASSUME NEW t \in Int, SettledBy(t)
      PROVE  SettledBy(t)' /\ KnownBy(t)' = KnownBy(t)
  <2>1. SettledBy(t)'
    BY <1>0, <1>1, <1>4 DEF SettledBy, RowsInv
  <2>2. KnownBy(t)' = KnownBy(t)
    BY <1>3 DEF KnownBy
  <2> QED BY <2>1, <2>2
<1> QED BY <1>2, <1>3, <1>4 DEF RevisionsKept

LEMMA CommitKeeps ==
    ASSUME RowsInv, NEW a \in Arrival, CommitRevision(a)
    PROVE  RevisionsKept
<1>0. revisions' = revisions /\ unsettled' = unsettled \ {a.id} /\ clock' = clock /\ a.id \in unsettled
  BY DEF CommitRevision
<1>1. RowsInv'
  BY <1>0 DEF RowsInv
<1>2. Visible \subseteq Visible'
  BY <1>0 DEF Visible
<1>3. ASSUME NEW t \in Int, SettledBy(t)
      PROVE  SettledBy(t)' /\ KnownBy(t)' = KnownBy(t)
  <2>1. SettledBy(t)'
    BY <1>0, <1>3 DEF SettledBy
  <2>2. \A r \in revisions : r.id \in unsettled => ~(r.system <= t)
    BY <1>3 DEF SettledBy, RowsInv
  <2>3. KnownBy(t)' = KnownBy(t)
    BY <1>0, <2>2 DEF KnownBy, Visible
  <2> QED BY <2>1, <2>3
<1> QED BY <1>1, <1>2, <1>3 DEF RevisionsKept

LEMMA RollbackKeeps ==
    ASSUME RowsInv, NEW a \in Arrival, RollbackRevision(a)
    PROVE  RevisionsKept
<1>0. /\ revisions' = {r \in revisions : r.id # a.id} /\ unsettled' = unsettled \ {a.id}
      /\ clock' = clock /\ a.id \in unsettled
  BY DEF RollbackRevision
<1>1. RowsInv'
  <2>1. revisions' \in SUBSET revisions
    BY <1>0
  <2>2. IsFiniteSet(revisions')
    BY <2>1, FS_Subset DEF RowsInv
  <2> QED BY <1>0, <2>1, <2>2 DEF RowsInv
<1>2. Visible' = Visible
  BY <1>0 DEF Visible
<1>3. ASSUME NEW t \in Int, SettledBy(t)
      PROVE  SettledBy(t)' /\ KnownBy(t)' = KnownBy(t)
  <2>1. SettledBy(t)'
    BY <1>0, <1>3 DEF SettledBy
  <2>2. KnownBy(t)' = KnownBy(t)
    BY <1>2 DEF KnownBy
  <2> QED BY <2>1, <2>2
<1> QED BY <1>1, <1>2, <1>3 DEF RevisionsKept

LEMMA TickKeeps ==
    ASSUME RowsInv, Tick
    PROVE  RevisionsKept
<1>0. revisions' = revisions /\ unsettled' = unsettled /\ clock' = clock + 1
  BY DEF Tick
<1>1. RowsInv'
  BY <1>0 DEF RowsInv
<1>2. Visible' = Visible
  BY <1>0 DEF Visible
<1>3. ASSUME NEW t \in Int, SettledBy(t)
      PROVE  SettledBy(t)' /\ KnownBy(t)' = KnownBy(t)
  <2>1. SettledBy(t)'
    BY <1>0, <1>3 DEF SettledBy, RowsInv
  <2>2. KnownBy(t)' = KnownBy(t)
    BY <1>2 DEF KnownBy
  <2> QED BY <2>1, <2>2
<1> QED BY <1>1, <1>2, <1>3 DEF RevisionsKept

LEMMA RevisionStepKeeps ==
    ASSUME RowsInv, NEW A \in SUBSET Arrival, RevisionNext(A)
    PROVE  RevisionsKept
BY InsertKeeps, CommitKeeps, RollbackKeeps, TickKeeps DEF RevisionNext

LEMMA UnchangedKeeps ==
    ASSUME RowsInv, UNCHANGED revisionVars
    PROVE  RevisionsKept /\ Visible' = Visible
<1>0. revisions' = revisions /\ unsettled' = unsettled /\ clock' = clock
  BY DEF revisionVars
<1>1. RowsInv' /\ Visible' = Visible
  BY <1>0 DEF RowsInv, Visible
<1>2. ASSUME NEW t \in Int, SettledBy(t)
      PROVE  SettledBy(t)' /\ KnownBy(t)' = KnownBy(t)
  BY <1>0, <1>1, <1>2 DEF SettledBy, KnownBy
<1> QED BY <1>1, <1>2 DEF RevisionsKept

\* At a settled instant the visible rows are all there are.
LEMMA SettledMeansVisible ==
    ASSUME RowsInv, NEW t \in Int, SettledBy(t)
    PROVE  KnownBy(t) = {r \in revisions : r.system <= t}
BY DEF RowsInv, SettledBy, KnownBy, Visible

-----------------------------------------------------------------------------
(* Sequences that grow.                                                    *)

IsSeq(s) == s \in Seq(ToSet(s))

LEMMA AppendSeq ==
    ASSUME NEW s, NEW e, IsSeq(s)
    PROVE  /\ IsSeq(Append(s, e))
           /\ Len(s) \in Nat /\ DOMAIN s = 1..Len(s)
           /\ DOMAIN Append(s, e) = DOMAIN s \cup {Len(s) + 1}
           /\ Len(s) + 1 \notin DOMAIN s
           /\ Len(Append(s, e)) = Len(s) + 1
           /\ \A n \in DOMAIN s : Append(s, e)[n] = s[n]
           /\ Append(s, e)[Len(s) + 1] = e
<1>1. PICK T : T = ToSet(s) \cup {e}
  OBVIOUS
<1>2. s \in Seq(T) /\ e \in T
  <2>1. s \in Seq(ToSet(s))
    BY DEF IsSeq
  <2> QED BY <1>1, <2>1
<1>3. /\ Append(s, e) \in Seq(T) /\ Len(s) \in Nat /\ DOMAIN s = 1..Len(s)
      /\ Len(Append(s, e)) = Len(s) + 1
      /\ DOMAIN Append(s, e) = 1..(Len(s) + 1)
      /\ \A n \in 1..Len(s) : Append(s, e)[n] = s[n]
      /\ Append(s, e)[Len(s) + 1] = e
  BY <1>2
<1>4. Append(s, e) \in Seq(ToSet(Append(s, e)))
  <2>1. PICK a : a = Append(s, e)
    OBVIOUS
  <2>0. a \in Seq(T)
    BY <1>3, <2>1
  <2>2. Len(a) \in Nat /\ a = [n \in 1..Len(a) |-> a[n]]
    BY <2>0
  <2>3. \A n \in 1..Len(a) : a[n] \in ToSet(a)
    BY <2>2 DEF ToSet
  <2>4. a \in [1..Len(a) -> ToSet(a)]
    BY <2>2, <2>3
  <2>5. a \in Seq(ToSet(a))
    BY <2>2, <2>4
  <2> QED BY <2>1, <2>5
<1> QED BY <1>3, <1>4 DEF IsSeq

LEMMA NothingIsSeq == ASSUME NEW s, s = <<>> PROVE IsSeq(s)
<1>1. s \in Seq(ToSet(s))
  OBVIOUS
<1> QED BY <1>1 DEF IsSeq

LEMMA EmptyDomain == DOMAIN <<>> = {}
OBVIOUS

-----------------------------------------------------------------------------
(* Valuations can be repeated.                                             *)

\* The line of a valuation, as it would be now.
LineNow(l, q) ==
    LET line == SnapshotLine[l]
        p    == LoadPrice(line.instrument, q) IN
    IF IsCash(l) THEN PricedLine(line.quantity, <<>>, line.native, LoadFX(q))
    ELSE IF p = <<>> THEN UnpricedLine
    ELSE PricedLine(line.quantity * p[1].value, <<p[1].id>>, p[1].in, LoadFX(q))

LinesNow(q) == [l \in SnapshotLines(q) |-> LineNow(l, q)]

ValuationOf(q, lines) ==
    [request |-> q, settled |-> TRUE, lines |-> lines, state |-> RunState(lines),
     totals |-> <<TotalOf(lines, "try"), TotalOf(lines, "usd")>>]

SettledRequest(q) == q.mode = "system_as_of" /\ SettledBy(q.knownAt)

\* Queries of a settled request find the same rows again.
LEMMA LoadsStay ==
    ASSUME RevisionsKept, NEW q \in VRequest, SettledRequest(q)
    PROVE  /\ SettledRequest(q)' /\ LoadFX(q)' = LoadFX(q)
           /\ \A i : LoadPrice(i, q)' = LoadPrice(i, q)
<1>0. q.knownAt \in Int
  BY ValuationAssumption
<1>1. SettledBy(q.knownAt)' /\ KnownBy(q.knownAt)' = KnownBy(q.knownAt)
  BY <1>0 DEF RevisionsKept, SettledRequest
<1>2. ASSUME NEW kind, NEW maxAge
      PROVE  EligibleRows(kind, q, maxAge)' = EligibleRows(kind, q, maxAge)
  <2>1. /\ EligibleRows(kind, q, maxAge) =
              {r \in KnownBy(q.knownAt) : r.kind = kind /\ r.obs <= q.cutoff /\ q.cutoff - r.obs <= maxAge}
        /\ EligibleRows(kind, q, maxAge)' =
              {r \in KnownBy(q.knownAt)' : r.kind = kind /\ r.obs <= q.cutoff /\ q.cutoff - r.obs <= maxAge}
    BY DEF SettledRequest, EligibleRows, EligibleRevision, Known, KnownBy
  <2> QED BY <1>1, <2>1
<1>3. LoadFX(q)' = LoadFX(q)
  BY <1>2 DEF LoadFX
<1>4. \A i : LoadPrice(i, q)' = LoadPrice(i, q)
  BY <1>2 DEF LoadPrice
<1>5. SettledRequest(q)'
  BY <1>1 DEF SettledRequest
<1> QED BY <1>3, <1>4, <1>5

LEMMA LinesStay ==
    ASSUME RevisionsKept, NEW q \in VRequest, SettledRequest(q)
    PROVE  LinesNow(q)' = LinesNow(q)
<1>1. LoadFX(q)' = LoadFX(q) /\ \A i : LoadPrice(i, q)' = LoadPrice(i, q)
  BY LoadsStay
<1>2. \A l : LineNow(l, q)' = LineNow(l, q)
  BY <1>1 DEF LineNow
<1> QED BY <1>2 DEF LinesNow

-----------------------------------------------------------------------------
(* The rows that queries choose.                                           *)

SelectedBefore(r, s, q) ==
    \/ r.obs > s.obs
    \/ /\ r.obs = s.obs
       /\ IF q.mode = "source_as_of"
          THEN \/ r.source > s.source
               \/ /\ r.source = s.source
                  /\ r.system > s.system \/ (r.system = s.system /\ r.id < s.id)
          ELSE r.system > s.system \/ (r.system = s.system /\ r.id < s.id)

LEMMA SelectionBefore ==
    ASSUME RowsInv, NEW r \in revisions, NEW s \in revisions, NEW q
    PROVE  Before(SelectionKey(r, q), SelectionKey(s, q)) <=> SelectedBefore(r, s, q)
<1>1. /\ r.id \in Int /\ r.obs \in Int /\ r.source \in Int /\ r.system \in Int
      /\ s.id \in Int /\ s.obs \in Int /\ s.source \in Int /\ s.system \in Int
  BY RowFields
<1>2. /\ -r.obs \in Int /\ -r.source \in Int /\ -r.system \in Int
      /\ -s.obs \in Int /\ -s.source \in Int /\ -s.system \in Int
  BY <1>1
<1>3. PICK a \in Int, b \in Int, c \in Int, e \in Int, f \in Int, g \in Int :
          /\ a = -r.obs /\ b = -r.source /\ c = -r.system
          /\ e = -s.obs /\ f = -s.source /\ g = -s.system
  BY <1>2
<1>4. /\ (a < e <=> r.obs > s.obs) /\ (a = e <=> r.obs = s.obs)
      /\ (b < f <=> r.source > s.source) /\ (b = f <=> r.source = s.source)
      /\ (c < g <=> r.system > s.system) /\ (c = g <=> r.system = s.system)
  BY <1>1, <1>3
<1>5. Before(<<a, b, c, r.id>>, <<e, f, g, s.id>>) <=>
          \/ a < e \/ (a = e /\ b < f) \/ (a = e /\ b = f /\ c < g)
          \/ (a = e /\ b = f /\ c = g /\ r.id < s.id)
  <2>1. PICK x \in Int \X Int \X Int \X Int, y \in Int \X Int \X Int \X Int :
            x = <<a, b, c, r.id>> /\ y = <<e, f, g, s.id>>
    BY <1>1
  <2>2. /\ x[1] = a /\ x[2] = b /\ x[3] = c /\ x[4] = r.id
        /\ y[1] = e /\ y[2] = f /\ y[3] = g /\ y[4] = s.id
    BY <2>1
  <2>3. Before(x, y) <=>
             \/ x[1] < y[1] \/ (x[1] = y[1] /\ x[2] < y[2]) \/ (x[1] = y[1] /\ x[2] = y[2] /\ x[3] < y[3])
             \/ (x[1] = y[1] /\ x[2] = y[2] /\ x[3] = y[3] /\ x[4] < y[4])
    BY Before4
  <2> QED BY <2>1, <2>2, <2>3
<1>6. Before(<<a, c, r.id>>, <<e, g, s.id>>) <=>
          a < e \/ (a = e /\ c < g) \/ (a = e /\ c = g /\ r.id < s.id)
  BY <1>1, Before3
<1>7. CASE q.mode = "source_as_of"
  <2>1. SelectionKey(r, q) = <<a, b, c, r.id>> /\ SelectionKey(s, q) = <<e, f, g, s.id>>
    BY <1>3, <1>7 DEF SelectionKey
  <2> QED BY <1>4, <1>5, <1>7, <2>1 DEF SelectedBefore
<1>8. CASE q.mode # "source_as_of"
  <2>1. SelectionKey(r, q) = <<a, c, r.id>> /\ SelectionKey(s, q) = <<e, g, s.id>>
    BY <1>3, <1>8 DEF SelectionKey
  <2> QED BY <1>4, <1>6, <1>8, <2>1 DEF SelectedBefore
<1> QED BY <1>7, <1>8

LEMMA SelectedBeforeOrders ==
    ASSUME RowsInv, NEW q
    PROVE  /\ \A x \in revisions : ~SelectedBefore(x, x, q)
           /\ \A x, y \in revisions : x = y \/ SelectedBefore(x, y, q) \/ SelectedBefore(y, x, q)
           /\ \A x, y, z \in revisions :
                 SelectedBefore(x, y, q) /\ SelectedBefore(y, z, q) => SelectedBefore(x, z, q)
<1>1. \A r \in revisions : r.id \in Int /\ r.obs \in Int /\ r.source \in Int /\ r.system \in Int
  BY RowFields
<1>2. \A x, y \in revisions : x.id = y.id => x = y
  BY DEF RowsInv
<1>3. \A x \in revisions : ~SelectedBefore(x, x, q)
  BY <1>1 DEF SelectedBefore
<1>4. \A x, y \in revisions : x = y \/ SelectedBefore(x, y, q) \/ SelectedBefore(y, x, q)
  BY <1>1, <1>2 DEF SelectedBefore
<1>5. ASSUME NEW x \in revisions, NEW y \in revisions, NEW z \in revisions,
             SelectedBefore(x, y, q), SelectedBefore(y, z, q)
      PROVE  SelectedBefore(x, z, q)
  <2>1. CASE q.mode = "source_as_of"
    BY <1>1, <1>5, <2>1 DEF SelectedBefore
  <2>2. CASE q.mode # "source_as_of"
    BY <1>1, <1>5, <2>2 DEF SelectedBefore
  <2> QED BY <2>1, <2>2
<1> QED BY <1>3, <1>4, <1>5

\* The first row is one of the rows, and none was observed later.
LEMMA FirstRowIs ==
    ASSUME RowsInv, NEW S, S \subseteq revisions, S # {}, NEW q
    PROVE  /\ FirstRow(S, q) \in S
           /\ \A s \in S : s = FirstRow(S, q) \/ SelectedBefore(FirstRow(S, q), s, q)
           /\ \A s \in S : s.obs <= FirstRow(S, q).obs
<1>1. PICK key : key = [r \in S |-> SelectionKey(r, q)]
  OBVIOUS
<1>2. DOMAIN key = S /\ \A x, y \in S : Before(key[x], key[y]) <=> SelectedBefore(x, y, q)
  BY <1>1, SelectionBefore
<1>3. Ordered(key)
  BY <1>2, SelectedBeforeOrders DEF Ordered
<1>4. IsFiniteSet(S)
  BY FS_Subset DEF RowsInv
<1>5. \E x \in S : \A y \in S : y = x \/ Before(key[x], key[y])
  BY <1>2, <1>3, <1>4, FirstExists
<1>6. PICK f : f = FirstRow(S, q)
  OBVIOUS
<1>7. f \in S /\ \A s \in S : s = f \/ Before(key[f], key[s])
  <2>1. \E x \in S : \A y \in S : y = x \/ Before(SelectionKey(x, q), SelectionKey(y, q))
    BY <1>1, <1>5
  <2>2. f \in S /\ \A s \in S : s = f \/ Before(SelectionKey(f, q), SelectionKey(s, q))
    BY <1>6, <2>1 DEF FirstRow
  <2> QED BY <1>1, <2>2
<1>8. \A s \in S : s = f \/ SelectedBefore(f, s, q)
  BY <1>2, <1>7
<1>9. \A s \in S : s.obs <= f.obs
  <2>1. \A s \in S : s.obs \in Int
    BY RowFields
  <2> QED BY <1>7, <1>8, <2>1 DEF SelectedBefore
<1> QED BY <1>6, <1>7, <1>8, <1>9

\* The quotes of a request: one of each pair that has any, and the newest.
LEMMA LoadedQuotes ==
    ASSUME RowsInv, NEW q
    PROVE  LET E == EligibleRows("fx", q, q.fxMaxAge) IN
           /\ LoadFX(q) \subseteq E
           /\ \A x, y \in LoadFX(q) : Pair(x) = Pair(y) => x = y
           /\ \A r \in E : \E x \in LoadFX(q) : Pair(x) = Pair(r) /\ r.obs <= x.obs
<1>1. PICK E : E = EligibleRows("fx", q, q.fxMaxAge)
  OBVIOUS
<1>2. E \subseteq revisions
  BY <1>1 DEF EligibleRows, Visible
<1>3. PICK first : first = [p \in {Pair(r) : r \in E} |-> FirstRow({r \in E : Pair(r) = p}, q)]
  OBVIOUS
<1>4. LoadFX(q) = {first[p] : p \in {Pair(r) : r \in E}}
  BY <1>1, <1>3 DEF LoadFX
<1>5. ASSUME NEW p \in {Pair(r) : r \in E}
      PROVE  /\ first[p] \in E /\ Pair(first[p]) = p
             /\ \A r \in E : Pair(r) = p => r.obs <= first[p].obs
  <2>1. PICK S : S = {r \in E : Pair(r) = p}
    OBVIOUS
  <2>2. S \subseteq revisions /\ S # {}
    BY <1>2, <2>1
  <2>3. first[p] = FirstRow(S, q)
    BY <1>3, <2>1
  <2>4. first[p] \in S /\ \A s \in S : s.obs <= first[p].obs
    BY <2>2, <2>3, FirstRowIs
  <2> QED BY <2>1, <2>4
<1>6. LoadFX(q) \subseteq E
  BY <1>4, <1>5
<1>7. \A x, y \in LoadFX(q) : Pair(x) = Pair(y) => x = y
  BY <1>4, <1>5
<1>8. \A r \in E : \E x \in LoadFX(q) : Pair(x) = Pair(r) /\ r.obs <= x.obs
  BY <1>4, <1>5
<1> QED BY <1>1, <1>6, <1>7, <1>8

-----------------------------------------------------------------------------
(* Conversion paths.                                                       *)

\* Edges over rows that everybody can see, hanging together.
PathStands(p, c, t) ==
    \/ p = <<>> /\ c = t
    \/ /\ c # t
       /\ \E x \in Visible : p = <<Edge(x, c)>> /\ {x.of, x.in} = {c, t}
    \/ /\ c # "USD" /\ t # "USD"
       /\ \E x, y \in Visible : /\ p = <<Edge(x, c), Edge(y, "USD")>>
                                /\ {x.of, x.in} = {c, "USD"} /\ {y.of, y.in} = {"USD", t}

QuotesStand(quotes) ==
    /\ quotes \subseteq Visible
    /\ \A x, y \in quotes : Pair(x) = Pair(y) => x = y

\* Of two quotes one goes first, and it was not observed before the other.
LEMMA PreferredIsTotal ==
    ASSUME RowsInv, NEW x \in revisions, NEW y \in revisions
    PROVE  /\ x = y \/ Preferred(x, y) \/ Preferred(y, x)
           /\ Preferred(x, y) => y.obs <= x.obs
<1>1. /\ x.id \in Int /\ x.obs \in Int /\ x.source \in Int /\ x.system \in Int
      /\ y.id \in Int /\ y.obs \in Int /\ y.source \in Int /\ y.system \in Int
  BY RowFields
<1>2. x.id = y.id => x = y
  BY DEF RowsInv
<1> QED BY <1>1, <1>2 DEF Preferred

\* At most two quotes lead from one currency to the other.
LEMMA TwoQuotes ==
    ASSUME NEW quotes, \A x, y \in quotes : Pair(x) = Pair(y) => x = y, NEW a, NEW b, a # b,
           NEW u \in Between(quotes, a, b), NEW v \in Between(quotes, a, b), u # v
    PROVE  Between(quotes, a, b) = {u, v}
<1>1. \A x \in Between(quotes, a, b) : x \in quotes /\ (Pair(x) = <<a, b>> \/ Pair(x) = <<b, a>>)
  <2> TAKE x \in Between(quotes, a, b)
  <2>1. x \in quotes /\ {x.of, x.in} = {a, b}
    BY DEF Between
  <2>2. (x.of = a /\ x.in = b) \/ (x.of = b /\ x.in = a)
    BY <2>1
  <2> QED BY <2>1, <2>2 DEF Pair
<1>2. ASSUME NEW x \in Between(quotes, a, b)
      PROVE  x = u \/ x = v
  BY <1>1
<1> QED BY <1>2

LEMMA DirectQuote ==
    ASSUME RowsInv, NEW quotes, QuotesStand(quotes), NEW a, NEW b, a # b, Between(quotes, a, b) # {}
    PROVE  \E x \in Between(quotes, a, b) :
              /\ x = CHOOSE y \in Between(quotes, a, b) : \A z \in Between(quotes, a, b) : z = y \/ Preferred(y, z)
              /\ \A z \in Between(quotes, a, b) : z.obs <= x.obs
<1>1. PICK C : C = Between(quotes, a, b)
  OBVIOUS
<1>2. C \subseteq revisions
  BY <1>1 DEF QuotesStand, Between, Visible
<1>3. PICK u \in C : TRUE
  BY <1>1
<1>4. \E y \in C : \A z \in C : z = y \/ Preferred(y, z)
  <2>1. CASE C = {u}
    BY <2>1
  <2>2. CASE C # {u}
    <3>1. PICK v \in C : u # v
      BY <2>2
    <3>2. C = {u, v}
      BY <1>1, <3>1, TwoQuotes DEF QuotesStand
    <3>3. Preferred(u, v) \/ Preferred(v, u)
      BY <1>2, <3>1, PreferredIsTotal
    <3> QED BY <3>2, <3>3
  <2> QED BY <2>1, <2>2
<1>5. PICK x : x = CHOOSE y \in C : \A z \in C : z = y \/ Preferred(y, z)
  OBVIOUS
<1>6. x \in C /\ \A z \in C : z = x \/ Preferred(x, z)
  BY <1>4, <1>5
<1>7. \A z \in C : z.obs <= x.obs
  <2> TAKE z \in C
  <2>1. z.obs \in Int
    BY <1>2, RowFields
  <2>2. Preferred(x, z) => z.obs <= x.obs
    BY <1>2, <1>6, PreferredIsTotal
  <2> QED BY <1>6, <2>1, <2>2
<1> QED BY <1>1, <1>5, <1>6, <1>7

LEMMA BridgeQuoteIs ==
    ASSUME NEW quotes, QuotesStand(quotes), NEW a \in Fiat, NEW b \in Fiat, a # b,
           BridgeQuote(a, b, quotes) # <<>>
    PROVE  \E x \in Visible : /\ BridgeQuote(a, b, quotes) = <<x>> /\ {x.of, x.in} = {a, b}
                              /\ x \in Between(quotes, a, b)
<1>1. PICK C : C = Between(quotes, a, b)
  OBVIOUS
<1>2. C # {}
  BY <1>1 DEF BridgeQuote
<1>3. \A x \in C : {x.of, x.in} = {a, b} /\ x \in Visible /\ x.of \in Fiat
  BY <1>1 DEF Between, QuotesStand
<1>4. \A x \in C : Alphabet[x.of] \in Int
  BY <1>3, ValuationAssumption
<1>5. PICK u \in C : TRUE
  BY <1>2
<1>6. \E x \in C : \A y \in C : Alphabet[x.of] <= Alphabet[y.of]
  <2>1. CASE C = {u}
    BY <1>4, <2>1
  <2>2. CASE C # {u}
    <3>1. PICK v \in C : u # v
      BY <2>2
    <3>2. C = {u, v}
      BY <1>1, <3>1, TwoQuotes DEF QuotesStand
    <3>3. Alphabet[u.of] <= Alphabet[v.of] \/ Alphabet[v.of] <= Alphabet[u.of]
      BY <1>4
    <3>4. Alphabet[u.of] <= Alphabet[u.of] /\ Alphabet[v.of] <= Alphabet[v.of]
      BY <1>4
    <3> QED BY <3>2, <3>3, <3>4
  <2> QED BY <2>1, <2>2
<1>7. PICK x : x = CHOOSE y \in C : \A z \in C : Alphabet[y.of] <= Alphabet[z.of]
  OBVIOUS
<1>8. x \in C
  BY <1>6, <1>7
<1>9. BridgeQuote(a, b, quotes) = <<x>>
  BY <1>1, <1>2, <1>7 DEF BridgeQuote
<1> QED BY <1>1, <1>3, <1>8, <1>9

LEMMA PathForStands ==
    ASSUME RowsInv, NEW quotes, QuotesStand(quotes), NEW c, NEW t, PathFor(c, t, quotes).found
    PROVE  PathStands(PathFor(c, t, quotes).edges, c, t)
<1>1. c \in Fiat /\ t \in Fiat /\ "USD" \in Fiat
  BY ValuationAssumption DEF PathFor, NoPath
<1>2. CASE c = t
  BY <1>1, <1>2 DEF PathFor, NoPath, PathStands
<1>3. CASE c # t /\ Between(quotes, c, t) # {}
  <2>1. PICK x \in Between(quotes, c, t) :
            x = CHOOSE y \in Between(quotes, c, t) : \A z \in Between(quotes, c, t) : z = y \/ Preferred(y, z)
    BY <1>3, DirectQuote
  <2>2. PathFor(c, t, quotes).edges = <<Edge(x, c)>>
    BY <1>1, <1>3, <2>1 DEF PathFor, DirectPath
  <2>3. x \in Visible /\ {x.of, x.in} = {c, t}
    BY <2>1 DEF Between, QuotesStand
  <2> QED BY <1>3, <2>2, <2>3 DEF PathStands
<1>4. CASE c # t /\ Between(quotes, c, t) = {}
  <2>1. /\ c # "USD" /\ t # "USD"
        /\ PathFor(c, t, quotes) = Bridge(c, t, quotes)
    BY <1>1, <1>4 DEF PathFor, NoPath
  <2>2. BridgeQuote(c, "USD", quotes) # <<>> /\ BridgeQuote("USD", t, quotes) # <<>>
    BY <2>1 DEF Bridge, NoPath
  <2>3. PICK x \in Visible : BridgeQuote(c, "USD", quotes) = <<x>> /\ {x.of, x.in} = {c, "USD"}
    BY <1>1, <2>1, <2>2, BridgeQuoteIs
  <2>4. PICK y \in Visible : BridgeQuote("USD", t, quotes) = <<y>> /\ {y.of, y.in} = {"USD", t}
    BY <1>1, <2>1, <2>2, BridgeQuoteIs
  <2>5. PathFor(c, t, quotes).edges = <<Edge(x, c), Edge(y, "USD")>>
    BY <2>1, <2>2, <2>3, <2>4 DEF Bridge
  <2> QED BY <2>1, <2>3, <2>4, <2>5 DEF PathStands
<1> QED BY <1>2, <1>3, <1>4

LEMMA RowOfIs ==
    ASSUME RowsInv, NEW x \in Visible
    PROVE  RowOf(x.id) = x
<1>1. x \in revisions
  BY DEF Visible
<1> QED BY <1>1 DEF RowOf, RowsInv

\* An edge leads from the currency it was taken for to the other one.
LEMMA EdgeLeads ==
    ASSUME RowsInv, NEW x \in Visible, NEW c, NEW t, c # t, {x.of, x.in} = {c, t}
    PROVE  From(Edge(x, c)) = c /\ To(Edge(x, c)) = t
<1>1. RowOf(Edge(x, c).id) = x
  BY RowOfIs DEF Edge
<1>2. (x.of = c /\ x.in = t) \/ (x.of = t /\ x.in = c)
  OBVIOUS
<1> QED BY <1>1, <1>2 DEF From, To, Edge, Direction

LEMMA PathLeads ==
    ASSUME RowsInv, NEW p, NEW c, NEW t, PathStands(p, c, t)
    PROVE  Leads(p, c, t)
<1>1. CASE p = <<>> /\ c = t
  BY <1>1 DEF Leads
<1>2. CASE c # t /\ \E x \in Visible : p = <<Edge(x, c)>> /\ {x.of, x.in} = {c, t}
  <2>1. PICK x \in Visible : p = <<Edge(x, c)>> /\ {x.of, x.in} = {c, t}
    BY <1>2
  <2>2. Len(p) = 1 /\ p[1] = Edge(x, c) /\ p # <<>>
    BY <2>1
  <2>3. From(Edge(x, c)) = c /\ To(Edge(x, c)) = t
    BY <1>2, <2>1, EdgeLeads
  <2> QED BY <2>2, <2>3 DEF Leads
<1>3. CASE /\ c # "USD" /\ t # "USD"
           /\ \E x, y \in Visible : /\ p = <<Edge(x, c), Edge(y, "USD")>>
                                    /\ {x.of, x.in} = {c, "USD"} /\ {y.of, y.in} = {"USD", t}
  <2>1. PICK x \in Visible, y \in Visible :
            /\ p = <<Edge(x, c), Edge(y, "USD")>>
            /\ {x.of, x.in} = {c, "USD"} /\ {y.of, y.in} = {"USD", t}
    BY <1>3
  <2>2. Len(p) = 2 /\ p[1] = Edge(x, c) /\ p[2] = Edge(y, "USD") /\ p # <<>>
    BY <2>1
  <2>3. From(Edge(x, c)) = c /\ To(Edge(x, c)) = "USD"
    BY <1>3, <2>1, EdgeLeads
  <2>4. From(Edge(y, "USD")) = "USD" /\ To(Edge(y, "USD")) = t
    BY <1>3, <2>1, EdgeLeads
  <2> QED BY <2>2, <2>3, <2>4 DEF Leads
<1> QED BY <1>1, <1>2, <1>3 DEF PathStands

\* The same in the worker's words.
Worded(e) ==
    [id |-> e.id, pair |-> Pair(RowOf(e.id)), direction |-> IF e.direction = "forward" THEN "direct" ELSE "inverse"]

LEMMA WordedLeads ==
    ASSUME RowsInv, NEW x \in Visible, NEW c, NEW t, c # t, {x.of, x.in} = {c, t}
    PROVE  FXFrom(Worded(Edge(x, c))) = c /\ FXTo(Worded(Edge(x, c))) = t
<1>1. RowOf(x.id) = x
  BY RowOfIs
<1>2. (x.of = c /\ x.in = t) \/ (x.of = t /\ x.in = c)
  OBVIOUS
<1>3. CASE x.of = c /\ x.in = t
  <2>1. Worded(Edge(x, c)) = [id |-> x.id, pair |-> <<c, t>>, direction |-> "direct"]
    BY <1>1, <1>3 DEF Worded, Edge, Direction, Pair
  <2> QED BY <2>1 DEF FXFrom, FXTo
<1>4. CASE x.of = t /\ x.in = c
  <2>1. Worded(Edge(x, c)) = [id |-> x.id, pair |-> <<t, c>>, direction |-> "inverse"]
    BY <1>1, <1>4 DEF Worded, Edge, Direction, Pair
  <2> QED BY <2>1 DEF FXFrom, FXTo
<1> QED BY <1>2, <1>3, <1>4

LEMMA FunctionIsSeq ==
    ASSUME NEW w, NEW k \in Nat, w = [n \in 1..k |-> w[n]]
    PROVE  Len(w) = k
<1>1. PICK T : T = {w[n] : n \in 1..k}
  OBVIOUS
<1>2. w \in [1..k -> T]
  BY <1>1
<1>3. w \in Seq(T)
  BY <1>2
<1> QED BY <1>2, <1>3

LEMMA PathWordsLead ==
    ASSUME RowsInv, NEW p, NEW c, NEW t, PathStands(p, c, t)
    PROVE  FXLeads(FXPathMaps(p), c, t)
<1>0. PICK w : w = FXPathMaps(p)
  OBVIOUS
<1>1. w = [n \in DOMAIN p |-> Worded(p[n])]
  BY <1>0 DEF FXPathMaps, Worded
<1>2. CASE p = <<>> /\ c = t
  <2>1. DOMAIN p = {}
    BY <1>2, EmptyDomain
  <2>2. w = <<>>
    BY <1>1, <2>1
  <2> QED BY <1>0, <1>2, <2>2 DEF FXLeads
<1>3. CASE c # t /\ \E x \in Visible : p = <<Edge(x, c)>> /\ {x.of, x.in} = {c, t}
  <2>1. PICK x \in Visible : p = <<Edge(x, c)>> /\ {x.of, x.in} = {c, t}
    BY <1>3
  <2>2. DOMAIN p = 1..1 /\ p[1] = Edge(x, c)
    BY <2>1
  <2>3. w = [n \in 1..1 |-> w[n]] /\ w[1] = Worded(Edge(x, c))
    BY <1>1, <2>2
  <2>4. Len(w) = 1 /\ w # <<>>
    BY <2>3, FunctionIsSeq
  <2>5. FXFrom(w[1]) = c /\ FXTo(w[1]) = t
    BY <1>3, <2>1, <2>3, WordedLeads
  <2>6. 1..(1 - 1) = {}
    OBVIOUS
  <2> QED BY <1>0, <2>4, <2>5, <2>6 DEF FXLeads
<1>4. CASE /\ c # "USD" /\ t # "USD"
           /\ \E x, y \in Visible : /\ p = <<Edge(x, c), Edge(y, "USD")>>
                                    /\ {x.of, x.in} = {c, "USD"} /\ {y.of, y.in} = {"USD", t}
  <2>1. PICK x \in Visible, y \in Visible :
            /\ p = <<Edge(x, c), Edge(y, "USD")>>
            /\ {x.of, x.in} = {c, "USD"} /\ {y.of, y.in} = {"USD", t}
    BY <1>4
  <2>2. DOMAIN p = 1..2 /\ p[1] = Edge(x, c) /\ p[2] = Edge(y, "USD")
    BY <2>1
  <2>3. w = [n \in 1..2 |-> w[n]] /\ w[1] = Worded(Edge(x, c)) /\ w[2] = Worded(Edge(y, "USD"))
    BY <1>1, <2>2
  <2>4. Len(w) = 2 /\ w # <<>>
    BY <2>3, FunctionIsSeq
  <2>5. FXFrom(w[1]) = c /\ FXTo(w[1]) = "USD"
    BY <1>4, <2>1, <2>3, WordedLeads
  <2>6. FXFrom(w[2]) = "USD" /\ FXTo(w[2]) = t
    <3>1. PICK u : u = "USD"
      OBVIOUS
    <3>2. u # t /\ {y.of, y.in} = {u, t}
      BY <1>4, <2>1, <3>1
    <3>3. FXFrom(Worded(Edge(y, u))) = u /\ FXTo(Worded(Edge(y, u))) = t
      BY <3>2, WordedLeads
    <3> QED BY <2>3, <3>1, <3>3
  <2>7. \A k \in 1..(2 - 1) : k = 1 /\ k + 1 = 2
    OBVIOUS
  <2> QED BY <1>0, <2>4, <2>5, <2>6, <2>7 DEF FXLeads
<1> QED BY <1>2, <1>3, <1>4 DEF PathStands

LEMMA PathStays ==
    ASSUME Visible \subseteq Visible', NEW p, NEW c, NEW t, PathStands(p, c, t)
    PROVE  PathStands(p, c, t)'
BY DEF PathStands

-----------------------------------------------------------------------------
(* Valuations.                                                             *)

LineStands(x) ==
    /\ x.try # <<>> => PathStands(x.tryPath, x.quote, "TRY")
    /\ x.usd # <<>> => PathStands(x.usdPath, x.quote, "USD")
    /\ x.state # "blocked" => x.try # <<>> /\ x.usd # <<>>

\* A Create call under way: its quotes, and what it has loaded if the request
\* is settled.
ValuerStands(u) ==
    /\ u = [phase |-> "loading", request |-> u.request, fx |-> u.fx,
            prices |-> u.prices, settled |-> u.settled]
    /\ u.request \in VRequest
    /\ u.settled \in BOOLEAN
    /\ QuotesStand(u.fx)
    /\ u.settled => /\ SettledRequest(u.request)
                    /\ u.fx = LoadFX(u.request)
                    /\ \A i \in DOMAIN u.prices : u.prices[i] = LoadPrice(i, u.request)

\* A stored run: its lines, and that it would come out the same now.
ValuationStands(v) ==
    /\ v.request \in VRequest
    /\ v.settled \in BOOLEAN
    /\ v.state = RunState(v.lines)
    /\ \A l \in DOMAIN v.lines : LineStands(v.lines[l])
    /\ v.settled => SettledRequest(v.request) /\ v = ValuationOf(v.request, LinesNow(v.request))

ValuationsInv ==
    /\ valuer = NoValuer \/ ValuerStands(valuer)
    /\ IsSeq(valuations)
    /\ \A n \in DOMAIN valuations : ValuationStands(valuations[n])

LEMMA ValuationsReplay == ValuationsInv => ReplayIsStable
<1> SUFFICES ASSUME ValuationsInv, NEW i \in DOMAIN valuations, NEW j \in DOMAIN valuations,
                    valuations[i].request = valuations[j].request,
                    valuations[i].settled, valuations[j].settled
             PROVE  valuations[i] = valuations[j]
  BY DEF ReplayIsStable
<1>1. /\ valuations[i] = ValuationOf(valuations[i].request, LinesNow(valuations[i].request))
      /\ valuations[j] = ValuationOf(valuations[j].request, LinesNow(valuations[j].request))
  BY DEF ValuationsInv, ValuationStands
<1> QED BY <1>1

LEMMA ValuerStays ==
    ASSUME RevisionsKept, NEW u, ValuerStands(u)
    PROVE  ValuerStands(u)'
<1>1. QuotesStand(u.fx)'
  BY DEF ValuerStands, QuotesStand, RevisionsKept
<1>2. CASE u.settled
  <2>1. PICK q \in VRequest : q = u.request
    BY DEF ValuerStands
  <2>2. SettledRequest(q) /\ u.fx = LoadFX(q) /\ \A i \in DOMAIN u.prices : u.prices[i] = LoadPrice(i, q)
    BY <1>2, <2>1 DEF ValuerStands
  <2>3. SettledRequest(q)' /\ u.fx = LoadFX(q)' /\ \A i \in DOMAIN u.prices : u.prices[i] = LoadPrice(i, q)'
    BY <2>2, LoadsStay
  <2> QED BY <1>1, <2>1, <2>3 DEF ValuerStands
<1>3. CASE ~u.settled
  BY <1>1, <1>3 DEF ValuerStands
<1> QED BY <1>2, <1>3 DEF ValuerStands

LEMMA LineStays ==
    ASSUME RevisionsKept, NEW x, LineStands(x)
    PROVE  LineStands(x)'
<1>1. Visible \subseteq Visible'
  BY DEF RevisionsKept
<1>2. x.try # <<>> => PathStands(x.tryPath, x.quote, "TRY")'
  BY <1>1, PathStays DEF LineStands
<1>3. x.usd # <<>> => PathStands(x.usdPath, x.quote, "USD")'
  BY <1>1, PathStays DEF LineStands
<1> QED BY <1>2, <1>3 DEF LineStands

LEMMA ValuationStays ==
    ASSUME RevisionsKept, NEW v, ValuationStands(v)
    PROVE  ValuationStands(v)'
<1>1. \A l \in DOMAIN v.lines : LineStands(v.lines[l])'
  <2> TAKE l \in DOMAIN v.lines
  <2>1. PICK x : x = v.lines[l]
    OBVIOUS
  <2>2. LineStands(x)'
    BY <2>1, LineStays DEF ValuationStands
  <2> QED BY <2>1, <2>2
<1>2. CASE v.settled
  <2>1. PICK q \in VRequest : q = v.request
    BY DEF ValuationStands
  <2>2. SettledRequest(q) /\ v = ValuationOf(q, LinesNow(q))
    BY <1>2, <2>1 DEF ValuationStands
  <2>3. SettledRequest(q)' /\ v = ValuationOf(q, LinesNow(q)')
    BY <2>2, LoadsStay, LinesStay
  <2>4. SettledRequest(q)' /\ v = ValuationOf(q, LinesNow(q))'
    BY <2>3 DEF ValuationOf
  <2> QED BY <1>1, <2>1, <2>4 DEF ValuationStands
<1>3. CASE ~v.settled
  BY <1>1, <1>3 DEF ValuationStands
<1> QED BY <1>2, <1>3 DEF ValuationStands

\* Stored valuations, when no row is added to them.
LEMMA StoredValuationsStay ==
    ASSUME RevisionsKept, ValuationsInv, valuations' = valuations
    PROVE  IsSeq(valuations') /\ \A n \in DOMAIN valuations' : ValuationStands(valuations[n])'
<1>1. PICK s : s = valuations
  OBVIOUS
<1>2. ASSUME NEW n \in DOMAIN s
      PROVE  ValuationStands(s[n])'
  <2>1. PICK v : v = s[n]
    OBVIOUS
  <2>2. ValuationStands(v)'
    BY <1>1, <2>1, ValuationStays DEF ValuationsInv
  <2> QED BY <2>1, <2>2
<1> QED BY <1>1, <1>2 DEF ValuationsInv

\* What a statement or a transaction of another does to valuations.
LEMMA ValuationsStay ==
    ASSUME RevisionsKept, ValuationsInv, UNCHANGED valuationVars
    PROVE  ValuationsInv'
<1>0. valuer' = valuer /\ valuations' = valuations
  BY DEF valuationVars
<1>1. PICK u : u = valuer
  OBVIOUS
<1>2. u = NoValuer \/ ValuerStands(u)'
  BY <1>1, ValuerStays DEF ValuationsInv
<1>3. valuer' = NoValuer \/ ValuerStands(valuer)'
  BY <1>0, <1>1, <1>2
<1> QED BY <1>0, <1>3, StoredValuationsStay DEF ValuationsInv

LEMMA PricedLineStands ==
    ASSUME RowsInv, NEW amount, NEW price, NEW c, NEW quotes, QuotesStand(quotes)
    PROVE  LineStands(PricedLine(amount, price, c, quotes))
<1>1. PICK toTRY : toTRY = PathFor(c, "TRY", quotes)
  OBVIOUS
<1>2. PICK toUSD : toUSD = PathFor(c, "USD", quotes)
  OBVIOUS
<1>3. PICK x : x = PricedLine(amount, price, c, quotes)
  OBVIOUS
<1>4. /\ x.try = Converted(amount, toTRY) /\ x.usd = Converted(amount, toUSD)
      /\ x.tryPath = toTRY.edges /\ x.usdPath = toUSD.edges /\ x.quote = c
      /\ x.state = IF toTRY.found /\ toUSD.found THEN "valid" ELSE "blocked"
  BY <1>1, <1>2, <1>3 DEF PricedLine
<1>5. (x.try # <<>> <=> toTRY.found) /\ (x.usd # <<>> <=> toUSD.found)
  BY <1>4 DEF Converted
<1>6. x.try # <<>> => PathStands(x.tryPath, x.quote, "TRY")
  BY <1>1, <1>4, <1>5, PathForStands
<1>7. x.usd # <<>> => PathStands(x.usdPath, x.quote, "USD")
  BY <1>2, <1>4, <1>5, PathForStands
<1>8. x.state # "blocked" => x.try # <<>> /\ x.usd # <<>>
  BY <1>4, <1>5
<1>9. LineStands(x)
  BY <1>6, <1>7, <1>8 DEF LineStands
<1> QED BY <1>3, <1>9

LEMMA LineResultStands ==
    ASSUME RowsInv, NEW u, QuotesStand(u.fx), NEW l
    PROVE  LineStands(LineResult(l, u))
<1>1. LineStands(UnpricedLine)
  BY DEF LineStands, UnpricedLine
<1> QED BY <1>1, PricedLineStands DEF LineResult

LEMMA BeginValuationKeeps ==
    ASSUME RowsInv, ValuationsInv, UNCHANGED revisionVars, NEW q \in VRequest, BeginValuation(q)
    PROVE  ValuationsInv'
<1>0. RevisionsKept
  BY UnchangedKeeps
<1>1. PICK u : u = [phase |-> "loading", request |-> q, fx |-> LoadFX(q), prices |-> <<>>,
                    settled |-> q.mode = "system_as_of" /\ SettledBy(q.knownAt)]
  OBVIOUS
<1>2. valuer' = u /\ valuations' = valuations
  BY <1>1 DEF BeginValuation
<1>3. ValuerStands(u)
  <2>1. LoadFX(q) \subseteq Visible /\ \A x, y \in LoadFX(q) : Pair(x) = Pair(y) => x = y
    BY LoadedQuotes DEF EligibleRows
  <2>2. QuotesStand(u.fx)
    BY <1>1, <2>1 DEF QuotesStand
  <2>3. DOMAIN u.prices = {}
    BY <1>1, EmptyDomain
  <2>4. u.settled <=> SettledRequest(q)
    BY <1>1 DEF SettledRequest
  <2> QED BY <1>1, <2>2, <2>3, <2>4 DEF ValuerStands
<1>4. ValuerStands(u)'
  BY <1>0, <1>3, ValuerStays
<1>5. ValuerStands(valuer)'
  BY <1>2, <1>4
<1> QED BY <1>0, <1>2, <1>5, StoredValuationsStay DEF ValuationsInv

LEMMA LoadPricesKeeps ==
    ASSUME RowsInv, ValuationsInv, UNCHANGED revisionVars, LoadPrices
    PROVE  ValuationsInv'
<1>0. RevisionsKept
  BY UnchangedKeeps
<1>1. PICK u : u = valuer
  OBVIOUS
<1>2. ValuerStands(u)
  BY <1>1 DEF LoadPrices, ValuationsInv
<1>3. PICK i : i = SnapshotLine[Min(Unloaded)].instrument
  OBVIOUS
<1>4. PICK p : p = [j \in DOMAIN u.prices \cup {i} |->
                       IF j = i THEN LoadPrice(i, u.request) ELSE u.prices[j]]
  OBVIOUS
<1>5. valuer' = [u EXCEPT !.prices = p] /\ valuations' = valuations
  BY <1>1, <1>3, <1>4 DEF LoadPrices
<1>6. PICK w : w = [phase |-> "loading", request |-> u.request, fx |-> u.fx, prices |-> p, settled |-> u.settled]
  OBVIOUS
<1>7. valuer' = w
  BY <1>2, <1>5, <1>6 DEF ValuerStands
<1>8. ValuerStands(w)
  <2>1. w.request = u.request /\ w.fx = u.fx /\ w.prices = p /\ w.settled = u.settled
    BY <1>6
  <2>2. \A j \in DOMAIN p : j = i \/ (j \in DOMAIN u.prices /\ p[j] = u.prices[j])
    BY <1>4
  <2>3. p[i] = LoadPrice(i, u.request)
    BY <1>4
  <2>4. u.settled => \A j \in DOMAIN p : p[j] = LoadPrice(j, u.request)
    BY <1>2, <2>2, <2>3 DEF ValuerStands
  <2> QED BY <1>2, <1>6, <2>1, <2>4 DEF ValuerStands
<1>9. ValuerStands(w)'
  BY <1>0, <1>8, ValuerStays
<1>10. ValuerStands(valuer)'
  BY <1>7, <1>9
<1> QED BY <1>0, <1>5, <1>10, StoredValuationsStay DEF ValuationsInv

\* With every price loaded, the lines of a settled call are those of now.
LEMMA LoadedLines ==
    ASSUME NEW u, ValuerStands(u), u.settled, NEW l \in SnapshotLines(u.request),
           IsCash(l) \/ SnapshotLine[l].instrument \in DOMAIN u.prices
    PROVE  LineResult(l, u) = LineNow(l, u.request)
<1>1. u.fx = LoadFX(u.request) /\ \A i \in DOMAIN u.prices : u.prices[i] = LoadPrice(i, u.request)
  BY DEF ValuerStands
<1>2. CASE IsCash(l)
  BY <1>1, <1>2 DEF LineResult, LineNow
<1>3. CASE ~IsCash(l)
  <2>1. u.prices[SnapshotLine[l].instrument] = LoadPrice(SnapshotLine[l].instrument, u.request)
    BY <1>1, <1>3
  <2> QED BY <1>1, <1>3, <2>1 DEF LineResult, LineNow
<1> QED BY <1>2, <1>3

LEMMA PersistValuationKeeps ==
    ASSUME RowsInv, ValuationsInv, UNCHANGED revisionVars, PersistValuation
    PROVE  ValuationsInv'
<1>0. RevisionsKept
  BY UnchangedKeeps
<1>1. PICK u : u = valuer
  OBVIOUS
<1>2. ValuerStands(u)
  BY <1>1 DEF PersistValuation, ValuationsInv
<1>3. PICK lines : lines = [l \in SnapshotLines(u.request) |-> LineResult(l, u)]
  OBVIOUS
<1>4. PICK v : v = [request |-> u.request, settled |-> u.settled, lines |-> lines,
                    state |-> RunState(lines), totals |-> <<TotalOf(lines, "try"), TotalOf(lines, "usd")>>]
  OBVIOUS
<1>5. valuations' = Append(valuations, v) /\ valuer' = NoValuer
  BY <1>1, <1>3, <1>4 DEF PersistValuation
<1>6. ValuationStands(v)
  <2>1. \A l \in DOMAIN lines : LineStands(lines[l])
    BY <1>2, <1>3, LineResultStands DEF ValuerStands
  <2>2. /\ v.request = u.request /\ v.settled = u.settled /\ v.lines = lines /\ v.state = RunState(lines)
    BY <1>4
  <2>3. ASSUME u.settled
        PROVE  v = ValuationOf(u.request, LinesNow(u.request))
    <3>1. \A l \in SnapshotLines(u.request) : IsCash(l) \/ SnapshotLine[l].instrument \in DOMAIN u.prices
      BY <1>1 DEF PersistValuation, Unloaded
    <3>2. \A l \in SnapshotLines(u.request) : LineResult(l, u) = LineNow(l, u.request)
      BY <1>2, <2>3, <3>1, LoadedLines
    <3>3. lines = LinesNow(u.request)
      BY <1>3, <3>2 DEF LinesNow
    <3>4. u.settled = TRUE
      BY <1>2, <2>3 DEF ValuerStands
    <3> QED BY <1>4, <3>3, <3>4 DEF ValuationOf
  <2>4. u.request \in VRequest /\ u.settled \in BOOLEAN /\ (u.settled => SettledRequest(u.request))
    BY <1>2 DEF ValuerStands
  <2> QED BY <2>1, <2>2, <2>3, <2>4 DEF ValuationStands
<1>7. ValuationStands(v)'
  BY <1>0, <1>6, ValuationStays
<1>8. PICK s : s = valuations
  OBVIOUS
<1>9. \A n \in DOMAIN s : ValuationStands(s[n])'
  <2> TAKE n \in DOMAIN s
  <2>1. PICK w : w = s[n]
    OBVIOUS
  <2>2. ValuationStands(w)'
    BY <1>0, <1>8, <2>1, ValuationStays DEF ValuationsInv
  <2> QED BY <2>1, <2>2
<1>10. PICK t : t = Append(s, v)
  OBVIOUS
<1>11. /\ IsSeq(t) /\ DOMAIN t = DOMAIN s \cup {Len(s) + 1}
       /\ \A n \in DOMAIN s : t[n] = s[n]
       /\ t[Len(s) + 1] = v
  BY <1>8, <1>10, AppendSeq DEF ValuationsInv
<1>12. \A n \in DOMAIN t : ValuationStands(t[n])'
  <2> TAKE n \in DOMAIN t
  <2>1. CASE n \in DOMAIN s
    BY <1>9, <1>11, <2>1
  <2>2. CASE n = Len(s) + 1
    BY <1>7, <1>11, <2>2
  <2> QED BY <1>11, <2>1, <2>2
<1>13. valuations' = t
  BY <1>5, <1>8, <1>10
<1> QED BY <1>5, <1>11, <1>12, <1>13 DEF ValuationsInv

LEMMA FailValuationKeeps ==
    ASSUME RowsInv, ValuationsInv, UNCHANGED revisionVars, FailValuation
    PROVE  ValuationsInv'
<1>0. RevisionsKept
  BY UnchangedKeeps
<1> QED BY <1>0, StoredValuationsStay DEF FailValuation, ValuationsInv

LEMMA ValuationPathsConnect == RowsInv /\ ValuationsInv => PathsConnect
<1> SUFFICES ASSUME RowsInv, ValuationsInv,
                    NEW n \in DOMAIN valuations, NEW l \in DOMAIN valuations[n].lines
             PROVE  LET x == valuations[n].lines[l] IN
                    /\ x.try # <<>> => Leads(x.tryPath, x.quote, "TRY")
                    /\ x.usd # <<>> => Leads(x.usdPath, x.quote, "USD")
  BY DEF PathsConnect
<1>1. PICK x : x = valuations[n].lines[l]
  OBVIOUS
<1>2. LineStands(x)
  BY <1>1 DEF ValuationsInv, ValuationStands
<1>3. x.try # <<>> => Leads(x.tryPath, x.quote, "TRY")
  BY <1>2, PathLeads DEF LineStands
<1>4. x.usd # <<>> => Leads(x.usdPath, x.quote, "USD")
  BY <1>2, PathLeads DEF LineStands
<1> QED BY <1>1, <1>3, <1>4

\* At a settled instant the loaded quotes are usable, and stand for all that are.
LEMMA UsableQuotes ==
    ASSUME RowsInv, NEW q \in VRequest, SettledRequest(q), NEW a, NEW b
    PROVE  /\ QuotesStand(LoadFX(q))
           /\ Between(LoadFX(q), a, b) \subseteq Usable(q, a, b)
           /\ \A r \in Usable(q, a, b) :
                 \E x \in Between(LoadFX(q), a, b) : Pair(x) = Pair(r) /\ r.obs <= x.obs
           /\ \A r \in Usable(q, a, b) : r.obs \in Int
<1>1. PICK quotes : quotes = LoadFX(q)
  OBVIOUS
<1>2. PICK E : E = EligibleRows("fx", q, q.fxMaxAge)
  OBVIOUS
<1>3. /\ quotes \subseteq E
      /\ \A x, y \in quotes : Pair(x) = Pair(y) => x = y
      /\ \A r \in E : \E x \in quotes : Pair(x) = Pair(r) /\ r.obs <= x.obs
  BY <1>1, <1>2, LoadedQuotes
<1>4. E \subseteq Visible
  BY <1>2 DEF EligibleRows
<1>5. QuotesStand(quotes)
  BY <1>3, <1>4 DEF QuotesStand
<1>6. ASSUME NEW x \in Between(quotes, a, b)
      PROVE  x \in Usable(q, a, b)
  <2>1. x \in E /\ {x.of, x.in} = {a, b}
    BY <1>3, <1>6 DEF Between
  <2>2. x \in revisions /\ x.kind = "fx" /\ EligibleRevision(x, q, q.fxMaxAge)
    BY <1>2, <2>1 DEF EligibleRows, Visible
  <2> QED BY <2>1, <2>2 DEF Usable, Between
<1>7. ASSUME NEW r \in Usable(q, a, b)
      PROVE  /\ \E x \in Between(quotes, a, b) : Pair(x) = Pair(r) /\ r.obs <= x.obs
             /\ r.obs \in Int
  <2>1. /\ r \in revisions /\ r.kind = "fx" /\ {r.of, r.in} = {a, b}
        /\ EligibleRevision(r, q, q.fxMaxAge)
    BY <1>7 DEF Usable, Between
  <2>2. r.system <= q.knownAt
    BY <2>1 DEF EligibleRevision, Known, SettledRequest
  <2>3. q.knownAt \in Int
    BY ValuationAssumption
  <2>4. r \in KnownBy(q.knownAt)
    BY <2>1, <2>2, <2>3, SettledMeansVisible DEF SettledRequest
  <2>5. r \in E
    BY <1>2, <2>1, <2>4 DEF KnownBy, EligibleRows
  <2>6. PICK x \in quotes : Pair(x) = Pair(r) /\ r.obs <= x.obs
    BY <1>3, <2>5
  <2>7. x.of = r.of /\ x.in = r.in
    BY <2>6 DEF Pair
  <2>8. x \in Between(quotes, a, b)
    BY <2>1, <2>7 DEF Between
  <2>9. r.obs \in Int
    BY <2>1, RowFields
  <2> QED BY <2>6, <2>8, <2>9
<1> QED BY <1>1, <1>5, <1>6, <1>7

\* A leg of a bridge is usable, and the newest quote of its orientation.
LEMMA LegIsNewest ==
    ASSUME RowsInv, NEW q \in VRequest, SettledRequest(q), NEW a, NEW b,
           NEW x \in Between(LoadFX(q), a, b)
    PROVE  NewestOfPair(x, Usable(q, a, b))
<1>1. PICK quotes : quotes = LoadFX(q)
  OBVIOUS
<1>2. PICK U : U = Usable(q, a, b)
  OBVIOUS
<1>3. /\ Between(quotes, a, b) \subseteq U
      /\ \A r \in U : \E y \in Between(quotes, a, b) : Pair(y) = Pair(r) /\ r.obs <= y.obs
      /\ \A y, z \in quotes : Pair(y) = Pair(z) => y = z
  BY <1>1, <1>2, UsableQuotes DEF QuotesStand
<1>4. x \in U /\ x \in quotes
  BY <1>1, <1>3 DEF Between
<1>5. ASSUME NEW r \in U, Pair(r) = Pair(x)
      PROVE  r.obs <= x.obs
  <2>1. PICK y \in Between(quotes, a, b) : Pair(y) = Pair(r) /\ r.obs <= y.obs
    BY <1>3
  <2>2. y \in quotes
    BY DEF Between
  <2> QED BY <1>3, <1>4, <1>5, <2>1, <2>2
<1>6. x \in {s \in U : Pair(s) = Pair(x)}
  BY <1>4
<1> QED BY <1>2, <1>5, <1>6 DEF NewestOfPair, Newest

LEMMA PathForAsPromised ==
    ASSUME RowsInv, NEW q \in VRequest, SettledRequest(q), NEW c \in Fiat, NEW t \in Fiat, c # t,
           NEW amount
    PROVE  LET p == PathFor(c, t, LoadFX(q)) IN
           PathAsPromised(q, Converted(amount, p), p.edges, c, t)
<1>1. PICK quotes : quotes = LoadFX(q)
  OBVIOUS
<1>2. PICK p : p = PathFor(c, t, quotes)
  OBVIOUS
<1>3. QuotesStand(quotes) /\ "USD" \in Fiat
  BY <1>1, UsableQuotes, ValuationAssumption
<1>4. \A a, b : Usable(q, a, b) = {} <=> Between(quotes, a, b) = {}
  BY <1>1, UsableQuotes
<1>5. SUFFICES PathAsPromised(q, Converted(amount, p), p.edges, c, t)
  BY <1>1, <1>2
<1>6. CASE Usable(q, c, t) # {}
  <2>1. PICK x \in Between(quotes, c, t) :
            /\ x = CHOOSE y \in Between(quotes, c, t) : \A z \in Between(quotes, c, t) : z = y \/ Preferred(y, z)
            /\ \A z \in Between(quotes, c, t) : z.obs <= x.obs
    BY <1>3, <1>4, <1>6, DirectQuote
  <2>2. p.found /\ p.edges = <<Edge(x, c)>>
    BY <1>2, <2>1 DEF PathFor, DirectPath
  <2>3. Converted(amount, p) # <<>>
    BY <2>2 DEF Converted
  <2>4. Len(p.edges) = 1 /\ p.edges[1].id = x.id
    BY <2>2 DEF Edge
  <2>5. x \in Visible /\ x \in Usable(q, c, t)
    BY <1>1, <1>3, <2>1, UsableQuotes DEF Between, QuotesStand
  <2>6. RowOf(p.edges[1].id) = x
    BY <2>4, <2>5, RowOfIs
  <2>7. ASSUME NEW r \in Usable(q, c, t)
        PROVE  r.obs <= x.obs
    <3>1. PICK z \in Between(quotes, c, t) : r.obs <= z.obs
      BY <1>1, UsableQuotes
    <3>2. z \in Usable(q, c, t)
      BY <1>1, UsableQuotes
    <3>3. r.obs \in Int /\ z.obs \in Int /\ x.obs \in Int
      BY <2>5, <3>2, UsableQuotes
    <3> QED BY <2>1, <3>1, <3>3
  <2>8. Newest(RowOf(p.edges[1].id), Usable(q, c, t))
    BY <2>5, <2>6, <2>7 DEF Newest
  <2> QED BY <1>6, <2>3, <2>4, <2>8 DEF PathAsPromised
<1>7. CASE /\ Usable(q, c, t) = {} /\ "USD" \notin {c, t}
           /\ Usable(q, c, "USD") # {} /\ Usable(q, "USD", t) # {}
  <2>1. p = Bridge(c, t, quotes)
    BY <1>2, <1>4, <1>7 DEF PathFor
  <2>2. BridgeQuote(c, "USD", quotes) # <<>> /\ BridgeQuote("USD", t, quotes) # <<>>
    BY <1>4, <1>7 DEF BridgeQuote
  <2>3. PICK x \in Visible : /\ BridgeQuote(c, "USD", quotes) = <<x>>
                             /\ x \in Between(quotes, c, "USD")
    BY <1>3, <1>7, <2>2, BridgeQuoteIs
  <2>4. PICK y \in Visible : /\ BridgeQuote("USD", t, quotes) = <<y>>
                             /\ y \in Between(quotes, "USD", t)
    BY <1>3, <1>7, <2>2, BridgeQuoteIs
  <2>5. p.found /\ p.edges = <<Edge(x, c), Edge(y, "USD")>>
    BY <2>1, <2>2, <2>3, <2>4 DEF Bridge
  <2>6. Converted(amount, p) # <<>>
    BY <2>5 DEF Converted
  <2>7. Len(p.edges) = 2 /\ p.edges[1].id = x.id /\ p.edges[2].id = y.id
    BY <2>5 DEF Edge
  <2>8. RowOf(p.edges[1].id) = x /\ RowOf(p.edges[2].id) = y
    BY <2>7, RowOfIs
  <2>9. /\ NewestOfPair(x, Usable(q, c, "USD"))
        /\ NewestOfPair(y, Usable(q, "USD", t))
    BY <1>1, <2>3, <2>4, LegIsNewest
  <2> QED BY <1>7, <2>6, <2>7, <2>8, <2>9 DEF PathAsPromised
<1>8. CASE /\ Usable(q, c, t) = {}
           /\ ~ ("USD" \notin {c, t} /\ Usable(q, c, "USD") # {} /\ Usable(q, "USD", t) # {})
  <2>1. ~ p.found
    <3>1. CASE "USD" \in {c, t}
      BY <1>2, <1>4, <1>8, <3>1 DEF PathFor, NoPath
    <3>2. CASE "USD" \notin {c, t}
      <4>1. p = Bridge(c, t, quotes)
        BY <1>2, <1>4, <1>8, <3>2 DEF PathFor
      <4>2. BridgeQuote(c, "USD", quotes) = <<>> \/ BridgeQuote("USD", t, quotes) = <<>>
        BY <1>4, <1>8, <3>2 DEF BridgeQuote
      <4> QED BY <4>1, <4>2 DEF Bridge, NoPath
    <3> QED BY <3>1, <3>2
  <2>2. Converted(amount, p) = <<>>
    BY <2>1 DEF Converted
  <2> QED BY <1>8, <2>2 DEF PathAsPromised
<1> QED BY <1>6, <1>7, <1>8

LEMMA ValuationsAsPromised == RowsInv /\ ValuationsInv => PathsAsPromised
<1> SUFFICES ASSUME RowsInv, ValuationsInv,
                    NEW n \in DOMAIN valuations, NEW l \in DOMAIN valuations[n].lines,
                    valuations[n].settled, valuations[n].lines[l].quote \in Fiat
             PROVE  LET v == valuations[n]
                        x == v.lines[l] IN
                    /\ x.quote # "TRY" => PathAsPromised(v.request, x.try, x.tryPath, x.quote, "TRY")
                    /\ x.quote # "USD" => PathAsPromised(v.request, x.usd, x.usdPath, x.quote, "USD")
  BY DEF PathsAsPromised
<1>1. PICK v : v = valuations[n]
  OBVIOUS
<1>2. ValuationStands(v) /\ v.settled
  BY <1>1 DEF ValuationsInv
<1>3. PICK q \in VRequest : q = v.request
  BY <1>2 DEF ValuationStands
<1>4. SettledRequest(q) /\ v = ValuationOf(q, LinesNow(q))
  BY <1>2, <1>3 DEF ValuationStands
<1>5. v.lines = LinesNow(q)
  BY <1>4 DEF ValuationOf
<1>6. PICK x : x = v.lines[l]
  OBVIOUS
<1>7. x = LineNow(l, q)
  BY <1>1, <1>5, <1>6 DEF LinesNow
<1>8. x.quote \in Fiat
  BY <1>1, <1>6
<1>9. x # UnpricedLine
  <2>1. UnpricedLine.quote = "" /\ "" \notin Fiat
    BY ValuationAssumption DEF UnpricedLine
  <2> QED BY <1>8, <2>1
<1>10. PICK amount, price, c : x = PricedLine(amount, price, c, LoadFX(q))
  <2>1. PICK p : p = LoadPrice(SnapshotLine[l].instrument, q)
    OBVIOUS
  <2>2. \/ x = PricedLine(SnapshotLine[l].quantity, <<>>, SnapshotLine[l].native, LoadFX(q))
        \/ x = PricedLine(SnapshotLine[l].quantity * p[1].value, <<p[1].id>>, p[1].in, LoadFX(q))
    BY <1>7, <1>9, <2>1 DEF LineNow
  <2> QED BY <2>2, Zenon
<1>11. /\ x.quote = c
       /\ x.tryPath = PathFor(c, "TRY", LoadFX(q)).edges
       /\ x.usdPath = PathFor(c, "USD", LoadFX(q)).edges
       /\ x.try = Converted(amount, PathFor(c, "TRY", LoadFX(q)))
       /\ x.usd = Converted(amount, PathFor(c, "USD", LoadFX(q)))
  BY <1>10 DEF PricedLine
<1>12. "TRY" \in Fiat /\ "USD" \in Fiat
  BY ValuationAssumption
<1>13. c # "TRY" => PathAsPromised(q, x.try, x.tryPath, c, "TRY")
  BY <1>4, <1>8, <1>11, <1>12, PathForAsPromised
<1>14. c # "USD" => PathAsPromised(q, x.usd, x.usdPath, c, "USD")
  BY <1>4, <1>8, <1>11, <1>12, PathForAsPromised
<1> QED BY <1>1, <1>3, <1>6, <1>11, <1>13, <1>14

-----------------------------------------------------------------------------
(* Sealed histories.                                                       *)

\* A row that everybody can see and that the request may know.
Usual(x, q) == x \in Visible /\ x.obs <= q.cutoff /\ Known(x, q)

\* An entry rests on such rows, and converts with a quote observed by then.
EntrySound(e, q) ==
    IF e.constant THEN e.path = <<>>
    ELSE /\ \E x \in Visible : x.id = e.id /\ Usual(x, q)
         /\ \A n \in DOMAIN e.path :
               e.path[n].obs <= e.obs /\ \E y \in Visible : y.id = e.path[n].id /\ Usual(y, q)

HistoryBefore(r, s, q) ==
    \/ r.obs < s.obs
    \/ /\ r.obs = s.obs
       /\ IF q.mode = "source_as_of"
          THEN \/ r.source > s.source
               \/ /\ r.source = s.source
                  /\ r.system > s.system \/ (r.system = s.system /\ r.id < s.id)
          ELSE r.system > s.system \/ (r.system = s.system /\ r.id < s.id)

LEMMA HistoryKeyBefore ==
    ASSUME RowsInv, NEW r \in revisions, NEW s \in revisions, NEW q
    PROVE  Before(HistoryKey(r, q), HistoryKey(s, q)) <=> HistoryBefore(r, s, q)
<1>1. /\ r.id \in Int /\ r.obs \in Int /\ r.source \in Int /\ r.system \in Int
      /\ s.id \in Int /\ s.obs \in Int /\ s.source \in Int /\ s.system \in Int
  BY RowFields
<1>2. /\ -r.source \in Int /\ -r.system \in Int /\ -s.source \in Int /\ -s.system \in Int
  BY <1>1
<1>3. PICK b \in Int, c \in Int, f \in Int, g \in Int :
          b = -r.source /\ c = -r.system /\ f = -s.source /\ g = -s.system
  BY <1>2
<1>4. /\ (b < f <=> r.source > s.source) /\ (b = f <=> r.source = s.source)
      /\ (c < g <=> r.system > s.system) /\ (c = g <=> r.system = s.system)
  BY <1>1, <1>3
<1>5. CASE q.mode = "source_as_of"
  <2>1. HistoryKey(r, q) = <<r.obs, b, c, r.id>> /\ HistoryKey(s, q) = <<s.obs, f, g, s.id>>
    BY <1>3, <1>5 DEF HistoryKey
  <2>2. PICK x \in Int \X Int \X Int \X Int, y \in Int \X Int \X Int \X Int :
            x = <<r.obs, b, c, r.id>> /\ y = <<s.obs, f, g, s.id>>
    BY <1>1
  <2>3. /\ x[1] = r.obs /\ x[2] = b /\ x[3] = c /\ x[4] = r.id
        /\ y[1] = s.obs /\ y[2] = f /\ y[3] = g /\ y[4] = s.id
    BY <2>2
  <2>4. Before(x, y) <=>
             \/ x[1] < y[1] \/ (x[1] = y[1] /\ x[2] < y[2]) \/ (x[1] = y[1] /\ x[2] = y[2] /\ x[3] < y[3])
             \/ (x[1] = y[1] /\ x[2] = y[2] /\ x[3] = y[3] /\ x[4] < y[4])
    BY Before4
  <2>5. Before(HistoryKey(r, q), HistoryKey(s, q)) <=> Before(x, y)
    BY <2>1, <2>2
  <2> QED BY <1>4, <1>5, <2>3, <2>4, <2>5 DEF HistoryBefore
<1>6. CASE q.mode # "source_as_of"
  <2>1. HistoryKey(r, q) = <<r.obs, c, r.id>> /\ HistoryKey(s, q) = <<s.obs, g, s.id>>
    BY <1>3, <1>6 DEF HistoryKey
  <2>2. PICK a \in Int, e \in Int, i \in Int, j \in Int :
            a = r.obs /\ e = s.obs /\ i = r.id /\ j = s.id
    BY <1>1
  <2>3. Before(<<a, c, i>>, <<e, g, j>>) <=>
            a < e \/ (a = e /\ c < g) \/ (a = e /\ c = g /\ i < j)
    BY Before3
  <2>4. Before(HistoryKey(r, q), HistoryKey(s, q)) <=> Before(<<a, c, i>>, <<e, g, j>>)
    BY <2>1, <2>2
  <2> QED BY <1>4, <1>6, <2>2, <2>3, <2>4 DEF HistoryBefore
<1> QED BY <1>5, <1>6

\* A history lists rows of the window between the two currencies.
LEMMA HistoryIs ==
    ASSUME RowsInv, NEW c, NEW q
    PROVE  LET h == LoadMetricFXHistory(c, q) IN
           /\ Len(h) \in Nat /\ DOMAIN h = 1..Len(h)
           /\ \A n \in DOMAIN h : h[n] \in Between(InWindow("fx", q), c, "USD")
<1>1. PICK S : S = Between(InWindow("fx", q), c, "USD")
  OBVIOUS
<1>2. S \subseteq revisions
  BY <1>1 DEF Between, InWindow, EligibleRows, Visible
<1>3. PICK key : key = [r \in S |-> HistoryKey(r, q)]
  OBVIOUS
<1>4. DOMAIN key = S /\ \A x, y \in S : Before(key[x], key[y]) <=> HistoryBefore(x, y, q)
  BY <1>2, <1>3, HistoryKeyBefore
<1>5. \A x \in S : x.id \in Int /\ x.obs \in Int /\ x.source \in Int /\ x.system \in Int
  BY <1>2, RowFields
<1>6. \A x, y \in S : x.id = y.id => x = y
  BY <1>2 DEF RowsInv
<1>7. Ordered(key)
  <2>1. \A x \in S : ~HistoryBefore(x, x, q)
    BY <1>5 DEF HistoryBefore
  <2>2. \A x, y \in S : x = y \/ HistoryBefore(x, y, q) \/ HistoryBefore(y, x, q)
    BY <1>5, <1>6 DEF HistoryBefore
  <2>3. ASSUME NEW x \in S, NEW y \in S, NEW z \in S, HistoryBefore(x, y, q), HistoryBefore(y, z, q)
        PROVE  HistoryBefore(x, z, q)
    <3>1. CASE q.mode = "source_as_of"
      BY <1>5, <2>3, <3>1 DEF HistoryBefore
    <3>2. CASE q.mode # "source_as_of"
      BY <1>5, <2>3, <3>2 DEF HistoryBefore
    <3> QED BY <3>1, <3>2
  <2> QED BY <1>4, <2>1, <2>2, <2>3 DEF Ordered
<1>8. IsFiniteSet(S)
  BY <1>2, FS_Subset DEF RowsInv
<1>9. LoadMetricFXHistory(c, q) = InOrder(key)
  BY <1>1, <1>3 DEF LoadMetricFXHistory
<1>10. Cardinality(S) \in Nat
  BY <1>8, FS_CardinalityType
<1>11. /\ Len(InOrder(key)) = Cardinality(S) /\ DOMAIN InOrder(key) = 1..Cardinality(S)
       /\ \A n \in DOMAIN InOrder(key) : InOrder(key)[n] \in S
  BY <1>4, <1>7, <1>8, InOrderSorts
<1> QED BY <1>1, <1>9, <1>10, <1>11

\* The head of some candidates is one of them.
LEMMA HeadIs ==
    ASSUME NEW h, NEW k \in Nat, NEW C \in SUBSET (1..k)
    PROVE  IF C = {} THEN HeadOf(h, C) = <<>> ELSE \E n \in C : HeadOf(h, C) = <<h[n]>>
<1>1. CASE C = {}
  BY <1>1 DEF HeadOf
<1>2. CASE C # {}
  <2>1. PICK H : H = {n \in C : \A m \in C : m < n => Preferred(h[n], h[m])}
    OBVIOUS
  <2>2. IsFiniteSet(C) /\ C \in SUBSET Int /\ IsFiniteSet(H) /\ H \in SUBSET Int
    <3>1. IsFiniteSet(1..k)
      BY k \in Int, 1 \in Int, FS_Interval, Zenon
    <3>2. H \in SUBSET (1..k) /\ H \in SUBSET Int /\ C \in SUBSET Int
      <4>1. H \in SUBSET C
        BY <2>1
      <4>2. \A x \in C : x \in Int
        OBVIOUS
      <4> QED BY <4>1, <4>2
    <3>3. IsFiniteSet(C)
      BY <3>1, FS_Subset
    <3>4. IsFiniteSet(H)
      BY <3>1, <3>2, FS_Subset
    <3> QED BY <3>2, <3>3, <3>4
  <2>3. Min(C) \in C /\ \A y \in C : Min(C) <= y
    BY <1>2, <2>2, MinMaxExist
  <2>4. Min(C) \in H
    <3>1. PICK z \in C : z = Min(C)
      BY <2>3
    <3>2. z \in Int /\ \A m \in C : m \in Int /\ z <= m
      BY <2>2, <2>3, <3>1
    <3>3. \A m \in C : ~(m < z)
      BY <3>2
    <3> QED BY <2>1, <3>1, <3>3
  <2>5. Max(H) \in H
    BY <2>2, <2>4, MinMaxExist
  <2>6. HeadOf(h, C) = <<h[Max(H)]>>
    BY <1>2, <2>1 DEF HeadOf
  <2> QED BY <1>2, <2>1, <2>5, <2>6
<1> QED BY <1>1, <1>2

\* The quote for an instant was observed by then, and is found if there is one.
LEMMA MetricFXIs ==
    ASSUME NEW h, NEW k \in Nat, DOMAIN h = 1..k, NEW at, NEW maxAge
    PROVE  LET fx == SelectMetricFX(h, at, maxAge) IN
           /\ \/ fx = <<>>
              \/ \E n \in DOMAIN h : fx = <<h[n]>> /\ h[n].obs <= at
           /\ (\E n \in DOMAIN h : h[n].obs <= at /\ at - h[n].obs <= maxAge) => fx # <<>>
<1>1. ASSUME NEW d
      PROVE  LET o == SelectOrientation(h, d, at, maxAge) IN
             /\ o = <<>> \/ \E n \in DOMAIN h : o = <<h[n]>> /\ h[n].obs <= at
             /\ (\E n \in DOMAIN h : MetricDirection(h[n]) = d /\ h[n].obs <= at /\ at - h[n].obs <= maxAge)
                   => o # <<>>
  <2>1. PICK C : C = {n \in DOMAIN h : MetricDirection(h[n]) = d /\ h[n].obs <= at /\ at - h[n].obs <= maxAge}
    OBVIOUS
  <2>2. C \in SUBSET (1..k)
    BY <2>1
  <2>3. SelectOrientation(h, d, at, maxAge) = HeadOf(h, C)
    BY <2>1 DEF SelectOrientation
  <2>4. CASE C = {}
    <3>1. HeadOf(h, C) = <<>>
      BY <2>2, <2>4, HeadIs
    <3> QED BY <2>1, <2>3, <2>4, <3>1
  <2>5. CASE C # {}
    <3>1. PICK n \in C : HeadOf(h, C) = <<h[n]>>
      BY <2>2, <2>5, HeadIs
    <3>2. n \in DOMAIN h /\ h[n].obs <= at
      BY <2>1
    <3>3. <<h[n]>> # <<>>
      OBVIOUS
    <3> QED BY <2>3, <3>1, <3>2, <3>3
  <2> QED BY <2>4, <2>5
<1>2. \A n \in DOMAIN h : MetricDirection(h[n]) = "direct" \/ MetricDirection(h[n]) = "inverse"
  BY DEF MetricDirection
<1>3. PICK o : o = SelectOrientation(h, "direct", at, maxAge)
  OBVIOUS
<1>4. PICK i : i = SelectOrientation(h, "inverse", at, maxAge)
  OBVIOUS
<1>5. SelectMetricFX(h, at, maxAge) = IF o # <<>> THEN o ELSE i
  BY <1>3, <1>4 DEF SelectMetricFX
<1>6. /\ o = <<>> \/ \E n \in DOMAIN h : o = <<h[n]>> /\ h[n].obs <= at
      /\ i = <<>> \/ \E n \in DOMAIN h : i = <<h[n]>> /\ h[n].obs <= at
  BY <1>1, <1>3, <1>4
<1>7. (\E n \in DOMAIN h : h[n].obs <= at /\ at - h[n].obs <= maxAge) => o # <<>> \/ i # <<>>
  BY <1>1, <1>2, <1>3, <1>4
<1> QED BY <1>5, <1>6, <1>7

\* Rows of a price history lie in the window.
LEMMA PriceHistoryIs ==
    ASSUME RowsInv, NEW i, NEW c, NEW q
    PROVE  LoadMetricPriceHistory(i, c, q) \subseteq InWindow("price", q)
<1>1. PICK S : S = {r \in InWindow("price", q) : Pair(r) = <<i, c>>}
  OBVIOUS
<1>2. S \subseteq revisions /\ S \subseteq InWindow("price", q)
  BY <1>1 DEF InWindow, EligibleRows, Visible
<1>3. ASSUME NEW t \in {r.obs : r \in S}
      PROVE  FirstRow({r \in S : r.obs = t}, q) \in S
  <2>1. PICK T : T = {r \in S : r.obs = t}
    OBVIOUS
  <2>2. T \subseteq revisions /\ T # {}
    BY <1>2, <2>1
  <2>3. FirstRow(T, q) \in T
    BY <2>2, FirstRowIs
  <2> QED BY <2>1, <2>3
<1>4. LoadMetricPriceHistory(i, c, q) = {FirstRow({r \in S : r.obs = t}, q) : t \in {r.obs : r \in S}}
  BY <1>1 DEF LoadMetricPriceHistory
<1> QED BY <1>2, <1>3, <1>4

LEMMA InWindowUsual ==
    ASSUME NEW kind, NEW q, NEW r \in InWindow(kind, q)
    PROVE  Usual(r, q)
BY DEF InWindow, EligibleRows, EligibleRevision, Usual

\* A history of quotes as the entries use it.
SoundHistory(h, k, q) ==
    /\ k \in Nat /\ DOMAIN h = 1..k
    /\ \A n \in DOMAIN h : Usual(h[n], q)

LEMMA HistorySound ==
    ASSUME RowsInv, NEW c, NEW q
    PROVE  \E k : SoundHistory(LoadMetricFXHistory(c, q), k, q)
<1>1. PICK h : h = LoadMetricFXHistory(c, q)
  OBVIOUS
<1>2. Len(h) \in Nat /\ DOMAIN h = 1..Len(h) /\ \A n \in DOMAIN h : h[n] \in Between(InWindow("fx", q), c, "USD")
  BY <1>1, HistoryIs
<1>3. \A n \in DOMAIN h : h[n] \in InWindow("fx", q)
  BY <1>2 DEF Between
<1>4. \A n \in DOMAIN h : Usual(h[n], q)
  BY <1>3, InWindowUsual
<1>5. SoundHistory(h, Len(h), q)
  BY <1>2, <1>4 DEF SoundHistory
<1> QED BY <1>1, <1>5

LEMMA NoHistorySound ==
    ASSUME NEW q
    PROVE  \E k : SoundHistory(<<>>, k, q)
<1>1. 0 \in Nat /\ 1..0 = {}
  OBVIOUS
<1>2. SoundHistory(<<>>, 0, q)
  BY <1>1, EmptyDomain DEF SoundHistory
<1> QED BY <1>2

\* The shape of an entry's path, and what it takes to be sound.
LEMMA SoundEntry ==
    ASSUME NEW e, NEW q, e.constant = FALSE, NEW x, Usual(x, q), x.id = e.id,
           \/ e.path = <<>>
           \/ \E y : e.path = <<FXEntry(y)>> /\ Usual(y, q) /\ y.obs <= e.obs
    PROVE  EntrySound(e, q)
<1>1. x \in Visible
  BY DEF Usual
<1>2. CASE e.path = <<>>
  <2>1. DOMAIN e.path = {}
    BY <1>2, EmptyDomain
  <2> QED BY <1>1, <2>1 DEF EntrySound
<1>3. CASE \E y : e.path = <<FXEntry(y)>> /\ Usual(y, q) /\ y.obs <= e.obs
  <2>1. PICK y : e.path = <<FXEntry(y)>> /\ Usual(y, q) /\ y.obs <= e.obs
    BY <1>3
  <2>2. FXEntry(y).id = y.id /\ FXEntry(y).obs = y.obs
    BY DEF FXEntry
  <2>3. \A n \in DOMAIN e.path : e.path[n] = FXEntry(y)
    BY <2>1
  <2>4. y \in Visible
    BY <2>1 DEF Usual
  <2> QED BY <1>1, <2>1, <2>2, <2>3, <2>4 DEF EntrySound
<1> QED BY <1>2, <1>3

LEMMA PriceEntrySound ==
    ASSUME NEW q, NEW r, Usual(r, q), NEW h, NEW k, SoundHistory(h, k, q), NEW maxAge
    PROVE  EntrySound(PriceEntry(r, h, maxAge), q)
<1>1. PICK fx : fx = SelectMetricFX(h, r.obs, maxAge)
  OBVIOUS
<1>2. fx = <<>> \/ \E n \in DOMAIN h : fx = <<h[n]>> /\ h[n].obs <= r.obs
  <2>1. PICK at : at = r.obs
    OBVIOUS
  <2>2. k \in Nat /\ DOMAIN h = 1..k
    BY DEF SoundHistory
  <2>3. LET f == SelectMetricFX(h, at, maxAge) IN
        f = <<>> \/ \E n \in DOMAIN h : f = <<h[n]>> /\ h[n].obs <= at
    BY <2>2, MetricFXIs
  <2> QED BY <1>1, <2>1, <2>3
<1>3. PICK e : e = PriceEntry(r, h, maxAge)
  OBVIOUS
<1>4. /\ e.id = r.id /\ e.constant = FALSE /\ e.obs = r.obs
      /\ e.path = IF r.in = "USD" \/ fx = <<>> THEN <<>> ELSE <<FXEntry(fx[1])>>
  BY <1>1, <1>3 DEF PriceEntry
<1>5. \/ e.path = <<>>
      \/ \E y : e.path = <<FXEntry(y)>> /\ Usual(y, q) /\ y.obs <= e.obs
  <2>1. CASE fx = <<>> \/ r.in = "USD"
    BY <1>4, <2>1
  <2>2. CASE fx # <<>> /\ r.in # "USD"
    <3>1. PICK n \in DOMAIN h : fx = <<h[n]>> /\ h[n].obs <= r.obs
      BY <1>2, <2>2
    <3>2. PICK y : y = h[n]
      OBVIOUS
    <3>3. fx[1] = y /\ Usual(y, q) /\ y.obs <= e.obs
      BY <1>4, <3>1, <3>2 DEF SoundHistory
    <3>4. e.path = <<FXEntry(y)>>
      BY <1>4, <2>2, <3>3
    <3> QED BY <3>3, <3>4
  <2> QED BY <2>1, <2>2
<1>6. EntrySound(e, q)
  BY <1>4, <1>5, SoundEntry
<1> QED BY <1>3, <1>6

\* For each day that has a quote there is one, since the first itself will do.
LEMMA CashHistorySound ==
    ASSUME RowsInv, NEW c, NEW q, NEW h, NEW k, SoundHistory(h, k, q), NEW maxAge \in Nat
    PROVE  \A e \in BuildCashHistory(c, h, maxAge) : EntrySound(e, q)
<1>0. k \in Nat /\ DOMAIN h = 1..k /\ \A n \in DOMAIN h : Usual(h[n], q)
  BY DEF SoundHistory
<1>1. ASSUME NEW d \in {Day(h[n].obs) : n \in DOMAIN h}
      PROVE  EntrySound(CashEntry(SelectMetricFX(h, h[Min({n \in DOMAIN h : Day(h[n].obs) = d})].obs, maxAge)[1], c), q)
  <2>1. PICK N : N = {n \in DOMAIN h : Day(h[n].obs) = d}
    OBVIOUS
  <2>2. N # {} /\ N \in SUBSET (1..k)
    BY <1>0, <2>1
  <2>3. N \in SUBSET Int /\ IsFiniteSet(N)
    <3>1. IsFiniteSet(1..k)
      BY <1>0, k \in Int, 1 \in Int, FS_Interval, Zenon
    <3>2. IsFiniteSet(N)
      BY <2>2, <3>1, FS_Subset
    <3>3. \A n \in N : n \in Int
      BY <1>0, <2>2
    <3> QED BY <3>2, <3>3
  <2>4. Min(N) \in N
    BY <2>2, <2>3, MinMaxExist
  <2>5. PICK m \in DOMAIN h : m = Min(N)
    BY <2>1, <2>4
  <2>6. PICK at : at = h[m].obs
    OBVIOUS
  <2>7. at \in Int
    BY <1>0, <2>6, RowFields DEF Usual, Visible
  <2>8. h[m].obs <= at /\ at - h[m].obs <= maxAge
    BY <2>6, <2>7
  <2>9. PICK fx : fx = SelectMetricFX(h, at, maxAge)
    OBVIOUS
  <2>10. fx # <<>> /\ \E n \in DOMAIN h : fx = <<h[n]>>
    <3>1. LET f == SelectMetricFX(h, at, maxAge) IN
          /\ f = <<>> \/ \E n \in DOMAIN h : f = <<h[n]>> /\ h[n].obs <= at
          /\ (\E n \in DOMAIN h : h[n].obs <= at /\ at - h[n].obs <= maxAge) => f # <<>>
      BY <1>0, MetricFXIs
    <3> QED BY <2>8, <2>9, <3>1
  <2>11. PICK n \in DOMAIN h : fx = <<h[n]>>
    BY <2>10
  <2>12. PICK y : y = h[n]
    OBVIOUS
  <2>13. fx[1] = y /\ Usual(y, q)
    BY <1>0, <2>11, <2>12
  <2>14. PICK e : e = CashEntry(y, c)
    OBVIOUS
  <2>15. e.id = y.id /\ e.constant = FALSE /\ e.obs = y.obs /\ e.path = <<FXEntry(y)>>
    BY <2>14 DEF CashEntry
  <2>16. y.obs <= e.obs
    <3>1. y.obs \in Int
      BY <2>13, RowFields DEF Usual, Visible
    <3> QED BY <2>15, <3>1
  <2>17. EntrySound(e, q)
    BY <2>13, <2>15, <2>16, SoundEntry
  <2> QED BY <2>1, <2>5, <2>6, <2>9, <2>13, <2>14, <2>17
<1>2. PICK days : days = {Day(h[n].obs) : n \in DOMAIN h}
  OBVIOUS
<1>3. BuildCashHistory(c, h, maxAge) =
        {CashEntry(SelectMetricFX(h, h[Min({n \in DOMAIN h : Day(h[n].obs) = d})].obs, maxAge)[1], c) : d \in days}
  BY <1>2 DEF BuildCashHistory
<1> QED BY <1>1, <1>2, <1>3

LEMMA EntriesSound ==
    ASSUME RowsInv, NEW l, NEW v, v.request \in VRequest
    PROVE  \A e \in Entries(l, v) : EntrySound(e, v.request)
<1>1. PICK q \in VRequest : q = v.request
  OBVIOUS
<1>2. q.fxMaxAge \in Nat
  BY ValuationAssumption
<1>3. CASE IsCash(l)
  <2>1. PICK h : h = LoadMetricFXHistory(Native(l), q)
    OBVIOUS
  <2>2. PICK k : SoundHistory(h, k, q)
    BY <2>1, HistorySound
  <2>3. \A e \in BuildCashHistory(Native(l), h, q.fxMaxAge) : EntrySound(e, q)
    BY <1>2, <2>2, CashHistorySound
  <2>4. Entries(l, v) \subseteq BuildCashHistory(Native(l), h, q.fxMaxAge)
    BY <1>1, <1>3, <2>1 DEF Entries, SelectEntries
  <2> QED BY <1>1, <2>3, <2>4
<1>4. CASE ~IsCash(l)
  <2>1. PICK c : c = v.lines[l].quote
    OBVIOUS
  <2>2. PICK h : h = IF c = "USD" THEN <<>> ELSE LoadMetricFXHistory(c, q)
    OBVIOUS
  <2>3. \E k : SoundHistory(h, k, q)
    <3>1. CASE c = "USD"
      BY <2>2, <3>1, NoHistorySound
    <3>2. CASE c # "USD"
      BY <2>2, <3>2, HistorySound
    <3> QED BY <3>1, <3>2
  <2>4. PICK k : SoundHistory(h, k, q)
    BY <2>3
  <2>5. PICK R : R = LoadMetricPriceHistory(Instr(l), c, q)
    OBVIOUS
  <2>6. \A r \in R : Usual(r, q)
    BY <2>5, PriceHistoryIs, InWindowUsual
  <2>7. \A r \in R : EntrySound(PriceEntry(r, h, q.fxMaxAge), q)
    BY <2>4, <2>6, PriceEntrySound
  <2>8. Entries(l, v) \subseteq {PriceEntry(r, h, q.fxMaxAge) : r \in R}
    BY <1>1, <1>4, <2>1, <2>2, <2>5 DEF Entries, SelectEntries
  <2> QED BY <1>1, <2>7, <2>8
<1> QED BY <1>3, <1>4

LEMMA BundleSound ==
    ASSUME RowsInv, NEW v, v.request \in VRequest, NEW L
    PROVE  \A e \in MetricEntries(BuildBundle(v, L)) : EntrySound(e, v.request)
<1>1. PICK b : b = BuildBundle(v, L)
  OBVIOUS
<1>2. CASE Cardinality(L) > MaxMetricInstruments
  <2>1. b = Blocked
    BY <1>1, <1>2 DEF BuildBundle
  <2>2. b.revisions = <<>> /\ b.cash = <<>>
    BY <2>1 DEF Blocked
  <2>3. MetricEntries(b) = {}
    BY <2>2, EmptyDomain DEF MetricEntries
  <2> QED BY <1>1, <2>3
<1>3. CASE ~(Cardinality(L) > MaxMetricInstruments)
  <2> DEFINE dated == L \ Constant(L)
             found == [l \in dated |-> Entries(l, v)]
             days  == UNION {EntryDays(found[l]) : l \in dated}
             cashDays == IF days = {} THEN ConstantCashDates(v.request.cutoff) ELSE days
             kept     == {l \in dated : found[l] # {}} \cup Constant(L)
             hist(l)  == IF l \in dated THEN found[l] ELSE {ConstantEntry(d) : d \in cashDays}
             line(i)  == CHOOSE l \in L : Instr(l) = i
  <2>1. /\ b.revisions = [i \in {Instr(l) : l \in {m \in kept : ~IsCash(m)}} |-> hist(line(i))]
        /\ b.cash = [i \in {Instr(l) : l \in {m \in kept : IsCash(m)}} |-> hist(line(i))]
    BY <1>1, <1>3 DEF BuildBundle
  <2>2. ASSUME NEW l, NEW e \in hist(l)
        PROVE  EntrySound(e, v.request)
    <3>1. CASE l \in dated
      <4>1. e \in Entries(l, v)
        BY <2>2, <3>1
      <4> QED BY <4>1, EntriesSound
    <3>2. CASE l \notin dated
      <4>1. PICK d : e = ConstantEntry(d)
        BY <2>2, <3>2
      <4>2. e.constant = TRUE /\ e.path = <<>>
        BY <4>1 DEF ConstantEntry
      <4> QED BY <4>2 DEF EntrySound
    <3> QED BY <3>1, <3>2
  <2> HIDE DEF hist, line, kept
  <2>3. ASSUME NEW e \in MetricEntries(b)
        PROVE  \E l : e \in hist(l)
    BY <2>1, <2>3 DEF MetricEntries
  <2> QED BY <1>1, <2>2, <2>3
<1> QED BY <1>2, <1>3

-----------------------------------------------------------------------------
(* Risk runs.                                                              *)

\* A sealed run: its valuation is stored, its paths lead somewhere, and its
\* histories rest on rows the valuation may know.
RunStands(r) ==
    /\ r.valuation \in DOMAIN valuations
    /\ \A l \in DOMAIN r.positions :
          /\ FXLeads(r.positions[l].toTRY, valuations[r.valuation].lines[l].quote, "TRY")
          /\ FXLeads(r.positions[l].toUSD, valuations[r.valuation].lines[l].quote, "USD")
    /\ \A e \in MetricEntries(r.bundle) : EntrySound(e, valuations[r.valuation].request)

RunsInv == \A r \in riskRuns : RunStands(r)

ValuationsGrow ==
    \A n \in DOMAIN valuations : n \in DOMAIN valuations' /\ valuations'[n] = valuations[n]

LEMMA EntryStays ==
    ASSUME Visible \subseteq Visible', NEW e, NEW q, EntrySound(e, q)
    PROVE  EntrySound(e, q)'
<1>1. CASE e.constant
  BY <1>1 DEF EntrySound
<1>2. CASE ~e.constant
  <2>1. \E x \in Visible' : x.id = e.id /\ x.obs <= q.cutoff /\ Known(x, q)
    BY <1>2 DEF EntrySound, Usual
  <2>2. \A n \in DOMAIN e.path :
          e.path[n].obs <= e.obs /\ \E y \in Visible' : y.id = e.path[n].id /\ y.obs <= q.cutoff /\ Known(y, q)
    BY <1>2 DEF EntrySound, Usual
  <2> QED BY <1>2, <2>1, <2>2 DEF EntrySound, Usual
<1> QED BY <1>1, <1>2

LEMMA RunStays ==
    ASSUME Visible \subseteq Visible', ValuationsGrow, NEW r, RunStands(r)
    PROVE  RunStands(r)'
<1>1. PICK v : v = valuations[r.valuation]
  OBVIOUS
<1>2. r.valuation \in DOMAIN valuations' /\ valuations'[r.valuation] = v
  BY <1>1 DEF RunStands, ValuationsGrow
<1>3. \A e \in MetricEntries(r.bundle) : EntrySound(e, v.request)'
  <2> TAKE e \in MetricEntries(r.bundle)
  <2>1. PICK q : q = v.request
    OBVIOUS
  <2>2. EntrySound(e, q)
    BY <1>1, <2>1 DEF RunStands
  <2>3. EntrySound(e, q)'
    BY <2>2, EntryStays
  <2> QED BY <2>1, <2>3
<1>4. \A l \in DOMAIN r.positions :
          /\ FXLeads(r.positions[l].toTRY, v.lines[l].quote, "TRY")
          /\ FXLeads(r.positions[l].toUSD, v.lines[l].quote, "USD")
  BY <1>1 DEF RunStands
<1>5. \A e \in MetricEntries(r.bundle) : EntrySound(e, valuations[r.valuation].request)'
  BY <1>2, <1>3
<1> QED BY <1>2, <1>4, <1>5 DEF RunStands

LEMMA RunsStay ==
    ASSUME Visible \subseteq Visible', ValuationsGrow, RunsInv, riskRuns' = riskRuns
    PROVE  RunsInv'
<1>1. PICK R : R = riskRuns
  OBVIOUS
<1>2. \A r \in R : RunStands(r)'
  BY <1>1, RunStays DEF RunsInv
<1> QED BY <1>1, <1>2 DEF RunsInv

\* What the service seals stands: a valuation that is valid has no line that
\* is blocked, so each line has its two paths.
LEMMA SubmitRunKeeps ==
    ASSUME RowsInv, ValuationsInv, RunsInv, NEW n \in DOMAIN valuations, NEW a,
           SubmitRun(n, a), UNCHANGED <<revisionVars, valuationVars>>
    PROVE  RunsInv'
<1>0. valuations' = valuations /\ Visible \subseteq Visible'
  BY DEF valuationVars, revisionVars, Visible
<1>1. ValuationsGrow
  BY <1>0 DEF ValuationsGrow
<1>2. PICK v : v = valuations[n]
  OBVIOUS
<1>3. PICK L : L = AccountLines(v, a)
  OBVIOUS
<1>4. PICK r : r = [valuation |-> n, account |-> a, bundle |-> BuildBundle(v, L),
                    positions |-> [l \in L |-> Position(l, v)]]
  OBVIOUS
<1>5. riskRuns' = riskRuns \cup {r} /\ v.state = "valid"
  BY <1>2, <1>3, <1>4 DEF SubmitRun
<1>6. ValuationStands(v)
  BY <1>2 DEF ValuationsInv
<1>7. ASSUME NEW l \in L
      PROVE  /\ FXLeads(FXPathMaps(v.lines[l].tryPath), v.lines[l].quote, "TRY")
             /\ FXLeads(FXPathMaps(v.lines[l].usdPath), v.lines[l].quote, "USD")
  <2>1. l \in DOMAIN v.lines
    BY <1>3 DEF AccountLines
  <2>2. PICK x : x = v.lines[l]
    OBVIOUS
  <2>3. LineStands(x)
    BY <1>6, <2>1, <2>2 DEF ValuationStands
  <2>4. x.state # "blocked"
    <3>1. RunState(v.lines) = "valid"
      BY <1>5, <1>6 DEF ValuationStands
    <3>2. \A m \in DOMAIN v.lines : v.lines[m].state # "blocked"
      BY <3>1 DEF RunState
    <3> QED BY <2>1, <2>2, <3>2
  <2>5. PathStands(x.tryPath, x.quote, "TRY")
    BY <2>3, <2>4 DEF LineStands
  <2>6. PathStands(x.usdPath, x.quote, "USD")
    BY <2>3, <2>4 DEF LineStands
  <2>7. FXLeads(FXPathMaps(x.tryPath), x.quote, "TRY")
    BY <2>5, PathWordsLead
  <2>8. FXLeads(FXPathMaps(x.usdPath), x.quote, "USD")
    BY <2>6, PathWordsLead
  <2> QED BY <2>2, <2>7, <2>8, Zenon
<1>8. RunStands(r)
  <2>1. /\ r.valuation = n /\ r.bundle = BuildBundle(v, L) /\ DOMAIN r.positions = L
        /\ \A l \in L : r.positions[l] = Position(l, v)
    BY <1>4
  <2>2. \A l \in L : /\ r.positions[l].toTRY = FXPathMaps(v.lines[l].tryPath)
                     /\ r.positions[l].toUSD = FXPathMaps(v.lines[l].usdPath)
    <3> TAKE l \in L
    <3>1. PICK f, g : f = FXPathMaps(v.lines[l].tryPath) /\ g = FXPathMaps(v.lines[l].usdPath)
      OBVIOUS
    <3>2. Position(l, v) = [toTRY |-> f, toUSD |-> g]
      BY <3>1 DEF Position
    <3>3. Position(l, v).toTRY = f /\ Position(l, v).toUSD = g
      BY <3>2
    <3> QED BY <2>1, <3>1, <3>3
  <2>3. v.request \in VRequest
    BY <1>6 DEF ValuationStands
  <2>4. \A e \in MetricEntries(r.bundle) : EntrySound(e, v.request)
    BY <2>1, <2>3, BundleSound
  <2>5. \A l \in DOMAIN r.positions :
          /\ FXLeads(r.positions[l].toTRY, v.lines[l].quote, "TRY")
          /\ FXLeads(r.positions[l].toUSD, v.lines[l].quote, "USD")
    BY <1>7, <2>1, <2>2
  <2> QED BY <1>2, <2>1, <2>4, <2>5 DEF RunStands
<1>9. RunStands(r)'
  BY <1>0, <1>1, <1>8, RunStays
<1>10. PICK R : R = riskRuns
  OBVIOUS
<1>11. \A s \in R : RunStands(s)'
  BY <1>0, <1>1, <1>10, RunStays DEF RunsInv
<1>12. \A s \in R \cup {r} : RunStands(s)'
  BY <1>9, <1>11
<1> QED BY <1>5, <1>10, <1>12 DEF RunsInv

LEMMA RunsConnect == RunsInv => PositionPathsConnect
BY DEF RunsInv, RunStands, PositionPathsConnect

LEMMA RunsLookBack == RowsInv /\ RunsInv => NoLookAhead
<1> SUFFICES ASSUME RowsInv, RunsInv, NEW r \in riskRuns, NEW e \in SealedEntries(r)
             PROVE  LET q == valuations[r.valuation].request IN
                    /\ \A s \in EntryRows(e, revisions) : s.obs <= q.cutoff /\ Known(s, q)
                    /\ \A n \in DOMAIN e.path : e.path[n].obs <= e.obs
  BY DEF NoLookAhead
<1>1. PICK q : q = valuations[r.valuation].request
  OBVIOUS
<1>2. EntrySound(e, q)
  BY <1>1 DEF RunsInv, RunStands, SealedEntries
<1>3. Visible \subseteq revisions
  BY DEF Visible
<1>4. CASE e.constant
  <2>1. e.path = <<>>
    BY <1>2, <1>4 DEF EntrySound
  <2>2. DOMAIN e.path = {}
    BY <2>1, EmptyDomain
  <2>3. EntryRows(e, revisions) = {}
    BY <1>4 DEF EntryRows
  <2> QED BY <1>1, <2>2, <2>3
<1>5. CASE ~e.constant
  <2>1. ASSUME NEW s \in EntryRows(e, revisions)
        PROVE  s.obs <= q.cutoff /\ Known(s, q)
    <3>1. s \in revisions /\ (s.id = e.id \/ \E n \in DOMAIN e.path : s.id = e.path[n].id)
      BY <1>5, <2>1 DEF EntryRows
    <3>2. \E x \in Visible : x.id = s.id /\ x.obs <= q.cutoff /\ Known(x, q)
      BY <1>2, <1>5, <3>1 DEF EntrySound, Usual
    <3>3. PICK x \in Visible : x.id = s.id /\ x.obs <= q.cutoff /\ Known(x, q)
      BY <3>2
    <3>4. x = s
      BY <1>3, <3>1, <3>3 DEF RowsInv
    <3> QED BY <3>3, <3>4
  <2>2. \A n \in DOMAIN e.path : e.path[n].obs <= e.obs
    BY <1>2, <1>5 DEF EntrySound
  <2> QED BY <1>1, <2>1, <2>2
<1> QED BY <1>4, <1>5

-----------------------------------------------------------------------------
(* Quality answers.                                                        *)

\* Of series that exist, each as it would be answered now if that is settled.
AnswersStand(items, q, settled) ==
    /\ IsSeq(items)
    /\ Len(items) <= Len(q.inputs)
    /\ \A k \in DOMAIN items : q.inputs[k].series \in DOMAIN SeriesRow
    /\ settled \in BOOLEAN
    /\ settled => /\ SettledBy(q.asOf)
                  /\ \A k \in DOMAIN items :
                        items[k] = EvaluateSeries(q.inputs[k].series, q, q.inputs[k].required)

Question(q) == q \in QualityRequest /\ q.from < q.to /\ q.to <= q.asOf

EvaluatorStands(u) ==
    /\ u = [phase |-> "reading", request |-> u.request, items |-> u.items, rows |-> u.rows,
            settled |-> u.settled]
    /\ Question(u.request)
    /\ AnswersStand(u.items, u.request, u.settled)
    /\ Len(u.items) < Len(u.request.inputs)

EvaluationStands(v) ==
    /\ v = [request |-> v.request, settled |-> v.settled, items |-> v.items, state |-> v.state]
    /\ v.state = Aggregate([n \in DOMAIN v.items |-> v.items[n].state])
    /\ Question(v.request)
    /\ AnswersStand(v.items, v.request, v.settled)
    /\ Len(v.items) = Len(v.request.inputs)

QualityInv ==
    /\ evaluator = NoEvaluator \/ EvaluatorStands(evaluator)
    /\ IsSeq(evaluations)
    /\ \A n \in DOMAIN evaluations : EvaluationStands(evaluations[n])

LEMMA SeqIs ==
    ASSUME NEW s, IsSeq(s)
    PROVE  Len(s) \in Nat /\ DOMAIN s = 1..Len(s) /\ s = [n \in 1..Len(s) |-> s[n]]
<1>1. PICK T : T = ToSet(s)
  OBVIOUS
<1>2. s \in Seq(T)
  BY <1>1 DEF IsSeq
<1> QED BY <1>2

LEMMA QualityAnswersReplay == QualityInv => QualityReplays
<1> SUFFICES ASSUME QualityInv, NEW i \in DOMAIN evaluations, NEW j \in DOMAIN evaluations,
                    evaluations[i].request = evaluations[j].request,
                    evaluations[i].settled, evaluations[j].settled
             PROVE  evaluations[i] = evaluations[j]
  BY DEF QualityReplays
<1>1. PICK x, y : x = evaluations[i] /\ y = evaluations[j]
  OBVIOUS
<1>2. EvaluationStands(x) /\ EvaluationStands(y) /\ x.request = y.request /\ x.settled /\ y.settled
  BY <1>1 DEF QualityInv
<1>3. x.settled = TRUE /\ y.settled = TRUE
  BY <1>2 DEF EvaluationStands, AnswersStand
<1>4. PICK q : q = x.request
  OBVIOUS
<1>5. /\ IsSeq(x.items) /\ Len(x.items) = Len(q.inputs)
      /\ \A k \in DOMAIN x.items : x.items[k] = EvaluateSeries(q.inputs[k].series, q, q.inputs[k].required)
  BY <1>2, <1>4 DEF EvaluationStands, AnswersStand
<1>6. /\ IsSeq(y.items) /\ Len(y.items) = Len(q.inputs)
      /\ \A k \in DOMAIN y.items : y.items[k] = EvaluateSeries(q.inputs[k].series, q, q.inputs[k].required)
  BY <1>2, <1>4 DEF EvaluationStands, AnswersStand
<1>7. x.items = y.items
  <2>1. PICK k : k = Len(q.inputs)
    OBVIOUS
  <2>2. DOMAIN x.items = 1..k /\ x.items = [n \in 1..k |-> x.items[n]]
    BY <1>5, <2>1, SeqIs
  <2>3. DOMAIN y.items = 1..k /\ y.items = [n \in 1..k |-> y.items[n]]
    BY <1>6, <2>1, SeqIs
  <2>4. \A n \in 1..k : x.items[n] = y.items[n]
    BY <1>5, <1>6, <2>2, <2>3
  <2> QED BY <2>2, <2>3, <2>4
<1>8. x.state = y.state
  BY <1>2, <1>7 DEF EvaluationStands
<1>9. x = y
  BY <1>2, <1>3, <1>7, <1>8 DEF EvaluationStands
<1> QED BY <1>1, <1>9

\* Statements of a settled request find the same rows again.
LEMMA SeriesStays ==
    ASSUME RevisionsKept, NEW q \in QualityRequest, SettledBy(q.asOf)
    PROVE  /\ SettledBy(q.asOf)'
           /\ \A s, required : EvaluateSeries(s, q, required)' = EvaluateSeries(s, q, required)
<1>0. q.asOf \in Int
  BY QualityAssumption
<1>1. PICK K : K = KnownBy(q.asOf)
  OBVIOUS
<1>2. SettledBy(q.asOf)' /\ KnownBy(q.asOf)' = K
  BY <1>0, <1>1 DEF RevisionsKept
<1>3. ASSUME NEW s
      PROVE  QualityRows(s, q)' = QualityRows(s, q)
  <2>1. PICK S : S = {r \in K : r.kind = "observation" /\ r.of = s /\ q.from <= r.obs
                                /\ r.obs < q.to /\ r.obs <= q.asOf}
    OBVIOUS
  <2>2. {r \in Visible : r.kind = "observation" /\ r.of = s /\ q.from <= r.obs
                         /\ r.obs < q.to /\ r.obs <= q.asOf /\ r.system <= q.asOf} = S
    BY <1>1, <2>1 DEF KnownBy
  <2>3. {r \in Visible' : r.kind = "observation" /\ r.of = s /\ q.from <= r.obs
                          /\ r.obs < q.to /\ r.obs <= q.asOf /\ r.system <= q.asOf} = S
    BY <1>2, <2>1 DEF KnownBy
  <2>4. QualityRows(s, q) = NewestOfEach(S, SystemKey)
    BY <2>2 DEF QualityRows
  <2>5. QualityRows(s, q)' = NewestOfEach(S, SystemKey)
    BY <2>3 DEF QualityRows
  <2> QED BY <2>4, <2>5
<1>4. ASSUME NEW r
      PROVE  Revised(r, q)' <=> Revised(r, q)
  <2>1. Revised(r, q) <=> \E s \in K : s.kind = "observation" /\ s.of = r.of /\ s.obs = r.obs /\ s.value # r.value
    BY <1>1 DEF Revised, KnownBy
  <2>2. Revised(r, q)' <=> \E s \in K : s.kind = "observation" /\ s.of = r.of /\ s.obs = r.obs /\ s.value # r.value
    BY <1>2 DEF Revised, KnownBy
  <2> QED BY <2>1, <2>2
<1>5. ASSUME NEW s, NEW required
      PROVE  EvaluateSeries(s, q, required)' = EvaluateSeries(s, q, required)
  <2>1. PICK S : S = QualityRows(s, q) /\ S = QualityRows(s, q)'
    BY <1>3
  <2>2. (\E r \in S : Revised(r, q)') = (\E r \in S : Revised(r, q))
    BY <1>4
  <2>3. EvaluateSeries(s, q, required) =
            EvaluateSamples(SeriesRow[s].policy, q, S, \E r \in S : Revised(r, q), required)
    BY <2>1 DEF EvaluateSeries
  <2>4. EvaluateSeries(s, q, required)' =
            EvaluateSamples(SeriesRow[s].policy, q, S, \E r \in S : Revised(r, q)', required)
    BY <2>1 DEF EvaluateSeries
  <2> QED BY <2>2, <2>3, <2>4
<1> QED BY <1>2, <1>5

LEMMA AnswersStay ==
    ASSUME RevisionsKept, NEW items, NEW q \in QualityRequest, NEW settled, AnswersStand(items, q, settled)
    PROVE  AnswersStand(items, q, settled)'
<1>1. CASE settled
  <2>1. SettledBy(q.asOf)' /\ \A s, required : EvaluateSeries(s, q, required)' = EvaluateSeries(s, q, required)
    BY <1>1, SeriesStays DEF AnswersStand
  <2>2. \A k \in DOMAIN items : items[k] = EvaluateSeries(q.inputs[k].series, q, q.inputs[k].required)'
    BY <1>1, <2>1 DEF AnswersStand
  <2> QED BY <2>1, <2>2 DEF AnswersStand
<1>2. CASE ~settled
  BY <1>2 DEF AnswersStand
<1> QED BY <1>1, <1>2

LEMMA EvaluatorStays ==
    ASSUME RevisionsKept, NEW u, EvaluatorStands(u)
    PROVE  EvaluatorStands(u)'
<1>1. PICK q \in QualityRequest : q = u.request
  BY DEF EvaluatorStands, Question
<1>2. AnswersStand(u.items, q, u.settled)
  BY <1>1 DEF EvaluatorStands
<1>3. AnswersStand(u.items, q, u.settled)'
  BY <1>2, AnswersStay
<1>4. AnswersStand(u.items, u.request, u.settled)'
  BY <1>1, <1>3
<1> QED BY <1>4 DEF EvaluatorStands, Question

LEMMA EvaluationStays ==
    ASSUME RevisionsKept, NEW v, EvaluationStands(v)
    PROVE  EvaluationStands(v)'
<1>1. PICK q \in QualityRequest : q = v.request
  BY DEF EvaluationStands, Question
<1>2. AnswersStand(v.items, q, v.settled)
  BY <1>1 DEF EvaluationStands
<1>3. AnswersStand(v.items, q, v.settled)'
  BY <1>2, AnswersStay
<1>4. AnswersStand(v.items, v.request, v.settled)'
  BY <1>1, <1>3
<1> QED BY <1>4 DEF EvaluationStands, Question

LEMMA StoredEvaluationsStay ==
    ASSUME RevisionsKept, QualityInv
    PROVE  \A s : s = evaluations => IsSeq(s) /\ \A n \in DOMAIN s : EvaluationStands(s[n])'
<1> SUFFICES ASSUME NEW s, s = evaluations
             PROVE  IsSeq(s) /\ \A n \in DOMAIN s : EvaluationStands(s[n])'
  OBVIOUS
<1>1. ASSUME NEW n \in DOMAIN s
      PROVE  EvaluationStands(s[n])'
  <2>1. PICK v : v = s[n]
    OBVIOUS
  <2>2. EvaluationStands(v)'
    BY <2>1, EvaluationStays DEF QualityInv
  <2> QED BY <2>1, <2>2
<1> QED BY <1>1 DEF QualityInv

LEMMA QualityStays ==
    ASSUME RevisionsKept, QualityInv, UNCHANGED qualityVars
    PROVE  QualityInv'
<1>0. evaluator' = evaluator /\ evaluations' = evaluations
  BY DEF qualityVars
<1>1. PICK u, s : u = evaluator /\ s = evaluations
  OBVIOUS
<1>2. u = NoEvaluator \/ EvaluatorStands(u)'
  BY <1>1, EvaluatorStays DEF QualityInv
<1>3. IsSeq(s) /\ \A n \in DOMAIN s : EvaluationStands(s[n])'
  BY <1>1, StoredEvaluationsStay
<1> QED BY <1>0, <1>1, <1>2, <1>3 DEF QualityInv

LEMMA BeginQualityKeeps ==
    ASSUME RowsInv, QualityInv, UNCHANGED revisionVars, NEW q \in QualityRequest, BeginQuality(q)
    PROVE  QualityInv'
<1>0. RevisionsKept
  BY UnchangedKeeps
<1>1. PICK u : u = [phase |-> "reading", request |-> q, items |-> <<>>, rows |-> 0, settled |-> SettledBy(q.asOf)]
  OBVIOUS
<1>2. evaluator' = u /\ evaluations' = evaluations /\ q.from < q.to /\ q.to <= q.asOf /\ q.inputs # <<>>
  BY <1>1 DEF BeginQuality
<1>3. Len(q.inputs) \in Nat /\ Len(q.inputs) > 0
  BY <1>2, QualityAssumption
<1>4. u.request = q /\ u.items = <<>> /\ u.settled = SettledBy(q.asOf) /\ u.rows = 0
  BY <1>1
<1>5. AnswersStand(u.items, q, u.settled)
  <2>1. IsSeq(u.items)
    BY <1>4, NothingIsSeq
  <2>2. Len(u.items) = 0 /\ DOMAIN u.items = {}
    BY <1>4, EmptyDomain
  <2>3. u.settled \in BOOLEAN
    BY <1>4 DEF SettledBy
  <2>4. u.settled => SettledBy(q.asOf)
    BY <1>4
  <2> QED BY <1>3, <2>1, <2>2, <2>3, <2>4 DEF AnswersStand
<1>6. Question(q)
  BY <1>2 DEF Question
<1>7. EvaluatorStands(u)
  <2>1. Len(u.items) < Len(u.request.inputs)
    BY <1>3, <1>4
  <2>2. u = [phase |-> "reading", request |-> u.request, items |-> u.items, rows |-> u.rows, settled |-> u.settled]
    BY <1>1, <1>4
  <2> QED BY <1>4, <1>5, <1>6, <2>1, <2>2 DEF EvaluatorStands
<1>8. EvaluatorStands(u)'
  BY <1>0, <1>7, EvaluatorStays
<1>9. PICK s : s = evaluations
  OBVIOUS
<1>10. IsSeq(s) /\ \A n \in DOMAIN s : EvaluationStands(s[n])'
  BY <1>0, <1>9, StoredEvaluationsStay
<1> QED BY <1>2, <1>8, <1>9, <1>10 DEF QualityInv

CreatedInv == DOMAIN created \subseteq DOMAIN SeriesRow

LEMMA EvaluateInputKeeps ==
    ASSUME RowsInv, QualityInv, CreatedInv, UNCHANGED revisionVars, EvaluateInput
    PROVE  QualityInv'
<1>0. RevisionsKept
  BY UnchangedKeeps
<1>1. PICK u, s : u = evaluator /\ s = evaluations
  OBVIOUS
<1>2. EvaluatorStands(u)
  BY <1>1 DEF EvaluateInput, QualityInv
<1>3. IsSeq(s) /\ \A n \in DOMAIN s : EvaluationStands(s[n])'
  BY <1>0, <1>1, StoredEvaluationsStay
<1>4. PICK q : q = u.request
  OBVIOUS
<1>5. PICK i : i = q.inputs[Len(u.items) + 1]
  OBVIOUS
<1>6. PICK rows, next : /\ rows = u.rows + Cardinality(QualityRows(i.series, q))
                        /\ next = Append(u.items, EvaluateSeries(i.series, q, i.required))
  OBVIOUS
<1>7. PICK v : v = [request |-> q, settled |-> u.settled, items |-> next,
                    state |-> Aggregate([n \in DOMAIN next |-> next[n].state])]
  OBVIOUS
<1>8. \/ evaluator' = NoEvaluator /\ evaluations' = s
      \/ /\ i.series \in DOMAIN created /\ Len(next) < Len(q.inputs)
         /\ evaluator' = [u EXCEPT !.items = next, !.rows = rows] /\ evaluations' = s
      \/ /\ i.series \in DOMAIN created /\ ~(Len(next) < Len(q.inputs))
         /\ evaluator' = NoEvaluator /\ evaluations' = Append(s, v)
  BY <1>1, <1>4, <1>5, <1>6, <1>7 DEF EvaluateInput
<1>9. q \in QualityRequest /\ Question(q) /\ AnswersStand(u.items, q, u.settled) /\ Len(u.items) < Len(q.inputs)
  BY <1>2, <1>4 DEF EvaluatorStands, Question
<1>10. /\ IsSeq(next) /\ Len(u.items) \in Nat /\ DOMAIN next = DOMAIN u.items \cup {Len(u.items) + 1}
       /\ Len(next) = Len(u.items) + 1 /\ (\A n \in DOMAIN u.items : next[n] = u.items[n])
       /\ next[Len(u.items) + 1] = EvaluateSeries(i.series, q, i.required)
  BY <1>6, <1>9, AppendSeq DEF AnswersStand
<1>11. Len(q.inputs) \in Nat
  BY <1>9, QualityAssumption
<1>12. ASSUME i.series \in DOMAIN created
       PROVE  AnswersStand(next, q, u.settled)
  <2>1. Len(next) <= Len(q.inputs)
    BY <1>9, <1>10, <1>11
  <2>2. \A k \in DOMAIN next : q.inputs[k].series \in DOMAIN SeriesRow
    BY <1>5, <1>9, <1>10, <1>12 DEF AnswersStand, CreatedInv
  <2>3. u.settled => \A k \in DOMAIN next :
                        next[k] = EvaluateSeries(q.inputs[k].series, q, q.inputs[k].required)
    BY <1>5, <1>9, <1>10 DEF AnswersStand
  <2> QED BY <1>9, <1>10, <2>1, <2>2, <2>3 DEF AnswersStand
<1>13. CASE evaluator' = NoEvaluator /\ evaluations' = s
  BY <1>3, <1>13 DEF QualityInv
<1>14. CASE /\ i.series \in DOMAIN created /\ Len(next) < Len(q.inputs)
            /\ evaluator' = [u EXCEPT !.items = next, !.rows = rows] /\ evaluations' = s
  <2>1. PICK w : w = [phase |-> "reading", request |-> q, items |-> next, rows |-> rows, settled |-> u.settled]
    OBVIOUS
  <2>2. evaluator' = w
    <3>1. PICK i0, r0, s0 : i0 = u.items /\ r0 = u.rows /\ s0 = u.settled
      OBVIOUS
    <3>2. u = [phase |-> "reading", request |-> q, items |-> i0, rows |-> r0, settled |-> s0]
      BY <1>2, <1>4, <3>1 DEF EvaluatorStands
    <3>3. [u EXCEPT !.items = next, !.rows = rows] =
              [phase |-> "reading", request |-> q, items |-> next, rows |-> rows, settled |-> s0]
      <4>1. PICK x : x = [u EXCEPT !.items = next, !.rows = rows]
        OBVIOUS
      <4>2. DOMAIN x = DOMAIN u /\ x = [f \in DOMAIN u |-> x[f]]
        BY <4>1
      <4>3. DOMAIN u = {"phase", "request", "items", "rows", "settled"}
        BY <3>2
      <4>4. x.phase = "reading" /\ x.request = q /\ x.items = next /\ x.rows = rows /\ x.settled = s0
        BY <3>2, <4>1
      <4> QED BY <4>1, <4>2, <4>3, <4>4
    <3> QED BY <1>14, <2>1, <3>1, <3>3
  <2>3. w.request = q /\ w.items = next /\ w.settled = u.settled /\ w.rows = rows
    BY <2>1
  <2>4. EvaluatorStands(w)
    BY <1>9, <1>12, <1>14, <2>1, <2>3 DEF EvaluatorStands
  <2>5. EvaluatorStands(w)'
    BY <1>0, <2>4, EvaluatorStays
  <2> QED BY <1>3, <1>14, <2>2, <2>5 DEF QualityInv
<1>15. CASE /\ i.series \in DOMAIN created /\ ~(Len(next) < Len(q.inputs))
            /\ evaluator' = NoEvaluator /\ evaluations' = Append(s, v)
  <2>1. v.request = q /\ v.items = next /\ v.settled = u.settled
        /\ v.state = Aggregate([n \in DOMAIN next |-> next[n].state])
    BY <1>7
  <2>2. Len(next) = Len(q.inputs)
    BY <1>9, <1>10, <1>11, <1>15
  <2>3. v = [request |-> v.request, settled |-> v.settled, items |-> v.items, state |-> v.state]
    BY <1>7, <2>1
  <2>4. AnswersStand(next, q, u.settled)
    BY <1>12, <1>15
  <2>5. EvaluationStands(v)
    BY <1>9, <2>1, <2>2, <2>3, <2>4 DEF EvaluationStands
  <2>6. EvaluationStands(v)'
    BY <1>0, <2>5, EvaluationStays
  <2>7. PICK t : t = Append(s, v)
    OBVIOUS
  <2>8. /\ IsSeq(t) /\ DOMAIN t = DOMAIN s \cup {Len(s) + 1}
        /\ (\A n \in DOMAIN s : t[n] = s[n])
        /\ t[Len(s) + 1] = v
    BY <1>3, <2>7, AppendSeq
  <2>9. \A n \in DOMAIN t : EvaluationStands(t[n])'
    <3> TAKE n \in DOMAIN t
    <3>1. CASE n \in DOMAIN s
      BY <1>3, <2>8, <3>1
    <3>2. CASE n = Len(s) + 1
      BY <2>6, <2>8, <3>2
    <3> QED BY <2>8, <3>1, <3>2
  <2>10. evaluations' = t
    BY <1>15, <2>7
  <2> QED BY <1>15, <2>8, <2>9, <2>10 DEF QualityInv
<1> QED BY <1>8, <1>13, <1>14, <1>15

-----------------------------------------------------------------------------
(* Days.                                                                   *)

LEMMA Times ==
    ASSUME NEW D \in Nat \ {0}, NEW a \in Int, NEW b \in Int
    PROVE  /\ a * D \in Int
           /\ a <= b => a * D <= b * D
           /\ (a + 1) * D = a * D + D
           /\ a < b => a * D + D <= b * D
<1>1. a * D \in Int /\ b * D \in Int
  OBVIOUS
<1>2. \A c \in Int : c >= 0 => c * D >= 0
  OBVIOUS
<1>3. (b - a) * D = b * D - a * D
  OBVIOUS
<1>4. b - a >= 0 => (b - a) * D >= 0
  BY <1>2
<1>5. (b - a - 1) * D = b * D - a * D - D
  OBVIOUS
<1>6. b - a - 1 >= 0 => (b - a - 1) * D >= 0
  BY <1>2
<1>7. (a + 1) * D = a * D + D
  OBVIOUS
<1>8. a <= b => a * D <= b * D
  BY <1>1, <1>3, <1>4
<1>9. a < b => a * D + D <= b * D
  BY <1>1, <1>5, <1>6
<1> QED BY <1>1, <1>7, <1>8, <1>9

LEMMA Quotient ==
    ASSUME NEW D \in Nat \ {0}, NEW t \in Int
    PROVE  t \div D \in Int /\ (t \div D) * D <= t /\ t < (t \div D) * D + D
OBVIOUS

\* From which day on the midnights lie behind t, in a zone off away from UTC.
LEMMA FirstMidnight ==
    ASSUME NEW D \in Nat \ {0}, NEW off \in -D..D, NEW t \in Int, NEW d \in Int
    PROVE  LET f == (t + off) \div D IN
           /\ f \in Int /\ t \div D \in Int
           /\ t \div D - 2 < f /\ f < t \div D + 2
           /\ d < f => d * D - off < t
           /\ d > f => d * D - off > t
           /\ f * D - off <= t
<1>1. PICK f \in Int : f = (t + off) \div D /\ f * D <= t + off /\ t + off < f * D + D
  BY t + off \in Int, Quotient
<1>2. PICK e \in Int : e = t \div D /\ e * D <= t /\ t < e * D + D
  BY Quotient
<1>3. off \in Int /\ -D <= off /\ off <= D
  OBVIOUS
<1>4. d < f => d * D - off < t
  <2>1. d < f => d * D + D <= f * D
    BY Times
  <2>2. d * D \in Int /\ f * D \in Int
    OBVIOUS
  <2> QED BY <1>1, <1>3, <2>1, <2>2
<1>5. d > f => d * D - off > t
  <2>1. f < d => f * D + D <= d * D
    BY Times
  <2>2. d * D \in Int /\ f * D \in Int
    OBVIOUS
  <2> QED BY <1>1, <1>3, <2>1, <2>2
<1>6. f * D - off <= t
  <2>2. f * D \in Int
    OBVIOUS
  <2> QED BY <1>1, <1>3, <2>2
<1>7. f < e + 2
  <2>1. SUFFICES ASSUME f >= e + 2 PROVE FALSE
    OBVIOUS
  <2>2. (e + 2) * D <= f * D
    BY <2>1, e + 2 \in Int, Times
  <2>3. (e + 2) * D = e * D + D + D
    OBVIOUS
  <2>4. e * D \in Int /\ f * D \in Int
    OBVIOUS
  <2> QED BY <1>1, <1>2, <1>3, <2>2, <2>3, <2>4
<1>8. e - 2 < f
  <2>1. SUFFICES ASSUME f <= e - 2 PROVE FALSE
    OBVIOUS
  <2>2. f * D <= (e - 2) * D
    BY <2>1, e - 2 \in Int, Times
  <2>3. (e - 2) * D = e * D - D - D
    OBVIOUS
  <2>4. e * D \in Int /\ f * D \in Int
    OBVIOUS
  <2> QED BY <1>1, <1>2, <1>3, <2>2, <2>3, <2>4
<1> QED BY <1>1, <1>2, <1>4, <1>5, <1>6, <1>7, <1>8

\* The loop of expectedMissing visits the days whose midnight is in the window.
LEMMA DaysInWindow ==
    ASSUME NEW D \in Nat \ {0}, NEW off \in -D..D, NEW from \in Int, NEW to \in Int, NEW d \in Int
    PROVE  LET first == (from + off) \div D
               last  == (to + off) \div D
               start == IF from > first * D - off THEN first + 1 ELSE first
               end   == IF to = last * D - off THEN last - 1 ELSE last IN
           d \in start..end <=>
               /\ d \in (from \div D - 2)..(to \div D + 2)
               /\ from <= d * D - off /\ d * D - off < to
<1>1. PICK f \in Int, m \in Int :
        /\ f = (from + off) \div D /\ m = from \div D
        /\ m - 2 < f
        /\ d < f => d * D - off < from
        /\ d > f => d * D - off > from
        /\ f * D - off <= from
  BY FirstMidnight
<1>2. PICK l \in Int, n \in Int :
        /\ l = (to + off) \div D /\ n = to \div D
        /\ l < n + 2
        /\ d < l => d * D - off < to
        /\ d > l => d * D - off > to
        /\ l * D - off <= to
  BY FirstMidnight
<1>3. PICK x \in Int, y \in Int, z \in Int : x = d * D - off /\ y = f * D - off /\ z = l * D - off
  OBVIOUS
<1>4. (d = f => x = y) /\ (d = l => x = z)
  BY <1>3
<1>5. /\ m - 2 < f
      /\ d < f => x < from
      /\ d > f => x > from
      /\ y <= from
      /\ l < n + 2
      /\ d < l => x < to
      /\ d > l => x > to
      /\ z <= to
  BY <1>1, <1>2, <1>3
<1>6. PICK start \in Int : start = IF from > y THEN f + 1 ELSE f
  OBVIOUS
<1>7. PICK end \in Int : end = IF to = z THEN l - 1 ELSE l
  OBVIOUS
<1>8. d >= start <=> from <= x
  BY <1>4, <1>5, <1>6
<1>9. d <= end <=> x < to
  BY <1>4, <1>5, <1>7
<1>10. d >= start => d >= m - 2
  BY <1>5, <1>6
<1>11. d <= end => d <= n + 2
  BY <1>5, <1>7
<1>12. d \in start..end <=> (d \in (m - 2)..(n + 2) /\ from <= x /\ x < to)
  BY <1>8, <1>9, <1>10, <1>11
<1> QED BY <1>1, <1>2, <1>3, <1>6, <1>7, <1>12

-----------------------------------------------------------------------------
(* Sound answers.                                                          *)

Kept(S) == {r \in S : ~MarkedMissing(r)}
Dated(S, p) == {LocalDay(r.obs, p) : r \in Kept(S)}
KeptTimes(S) == {r.obs : r \in Kept(S)}

LEMMA SamplesAnswer ==
    ASSUME NEW p, NEW q, NEW S, NEW revised, NEW required, ParsePolicy(p)
    PROVE  LET e == EvaluateSamples(p, q, S, revised, required) IN
           /\ e.gaps = ExpectedMissing(q, p, Dated(S, p))
           /\ \/ e.state = IF required THEN "blocked" ELSE "degraded"
              \/ /\ e.gaps = {} /\ Kept(S) = S /\ Dated(S, p) # {}
                 /\ ~(Kept(S) # {} /\ q.asOf - Max(KeptTimes(S)) > p.maxAge)
                 /\ \A r \in S : ~Suspect(r)
<1>1. PICK kept : kept = Kept(S)
  OBVIOUS
<1>2. PICK dated, times : dated = Dated(S, p) /\ times = KeptTimes(S)
  OBVIOUS
<1>0. kept = {r \in S : ~MarkedMissing(r)} /\ dated = {LocalDay(r.obs, p) : r \in kept} /\ times = {r.obs : r \in kept}
  BY <1>1, <1>2 DEF Kept, Dated, KeptTimes
<1>3. PICK stale : stale = (kept # {} /\ q.asOf - Max(times) > p.maxAge)
  OBVIOUS
<1>4. PICK gaps : gaps = ExpectedMissing(q, p, dated)
  OBVIOUS
<1>5. PICK suspect : suspect = (\E r \in S : Suspect(r))
  OBVIOUS
<1>6. PICK class : class = Classification(suspect, dated, stale, gaps # {} \/ kept # S, revised)
  OBVIOUS
<1>7. PICK e : e = EvaluateSamples(p, q, S, revised, required)
  OBVIOUS
<1>8. /\ e.gaps = gaps
      /\ e.state = IF class \notin {"missing", "stale", "partial", "suspect"} THEN "valid"
                   ELSE IF required THEN "blocked" ELSE "degraded"
  BY <1>0, <1>3, <1>4, <1>5, <1>6, <1>7 DEF EvaluateSamples
<1>9. \/ class \in {"missing", "stale", "partial", "suspect"}
      \/ ~suspect /\ dated # {} /\ ~stale /\ ~(gaps # {} \/ kept # S)
  BY <1>6 DEF Classification
<1>10. \/ e.state = IF required THEN "blocked" ELSE "degraded"
       \/ /\ e.gaps = {} /\ kept = S /\ dated # {} /\ ~stale
          /\ \A r \in S : ~Suspect(r)
  BY <1>5, <1>8, <1>9
<1> QED BY <1>1, <1>2, <1>3, <1>4, <1>7, <1>8, <1>10

\* What the query lists of a settled request is what was known then.
LEMMA RowsKnownThen ==
    ASSUME RowsInv, NEW q, Question(q), SettledBy(q.asOf), NEW s
    PROVE  QualityRows(s, q) = {r \in KnownThen(s, q) : q.from <= r.obs /\ r.obs < q.to}
<1>0. q.asOf \in Int /\ q.from \in Int /\ q.to \in Int /\ q.to <= q.asOf
  BY QualityAssumption DEF Question
<1>1. PICK K : K = {r \in revisions : r.system <= q.asOf}
  OBVIOUS
<1>2. KnownBy(q.asOf) = K
  BY <1>0, <1>1, SettledMeansVisible
<1>3. PICK S : S = {r \in K : r.kind = "observation" /\ r.of = s /\ q.from <= r.obs /\ r.obs < q.to}
  OBVIOUS
<1>4. \A r \in K : r.obs \in Int
  BY <1>1, RowFields
<1>5. {r \in Visible : r.kind = "observation" /\ r.of = s /\ q.from <= r.obs
                       /\ r.obs < q.to /\ r.obs <= q.asOf /\ r.system <= q.asOf} = S
  <2>1. S = {r \in K : r.kind = "observation" /\ r.of = s /\ q.from <= r.obs
                       /\ r.obs < q.to /\ r.obs <= q.asOf}
    BY <1>0, <1>3, <1>4
  <2> QED BY <1>2, <2>1 DEF KnownBy
<1>6. QualityRows(s, q) =
        {r \in S : \A t \in S : t.of = r.of /\ t.obs = r.obs => t = r \/ Before(SystemKey(t), SystemKey(r))}
  BY <1>5 DEF QualityRows, NewestOfEach
<1>7. KnownThen(s, q) =
        {r \in K : /\ r.kind = "observation" /\ r.of = s
                   /\ \A t \in K : t.kind = "observation" /\ t.of = s /\ t.obs = r.obs
                                     => t = r \/ Before(SystemKey(t), SystemKey(r))}
  BY <1>1 DEF KnownThen
<1>8. ASSUME NEW r \in S
      PROVE  (\A t \in S : t.of = r.of /\ t.obs = r.obs => t = r \/ Before(SystemKey(t), SystemKey(r)))
             <=> (\A t \in K : t.kind = "observation" /\ t.of = s /\ t.obs = r.obs
                                  => t = r \/ Before(SystemKey(t), SystemKey(r)))
  BY <1>3
<1> QED BY <1>3, <1>6, <1>7, <1>8

LEMMA GapsExact == RowsInv /\ QualityInv => GapsAreExact
<1> SUFFICES ASSUME RowsInv, QualityInv, NEW n \in DOMAIN evaluations,
                    NEW k \in DOMAIN evaluations[n].items,
                    evaluations[n].settled,
                    ParsePolicy(SeriesRow[evaluations[n].request.inputs[k].series].policy)
             PROVE  LET q    == evaluations[n].request
                        s    == q.inputs[k].series
                        p    == SeriesRow[s].policy
                        span == (Day(q.from) - 2)..(Day(q.to) + 2)
                        has(d) == \E r \in KnownThen(s, q) :
                                     q.from <= r.obs /\ r.obs < q.to /\ ~MarkedMissing(r) /\ LocalDay(r.obs, p) = d IN
                    evaluations[n].items[k].gaps =
                        {d \in span : /\ IsExpectedDate(d, p)
                                      /\ q.from <= Midnight(d, p) /\ Midnight(d, p) < q.to
                                      /\ Midnight(d, p) + p.lag <= q.asOf
                                      /\ ~has(d)}
  BY DEF GapsAreExact
<1>1. PICK v, q : v = evaluations[n] /\ q = v.request
  OBVIOUS
<1>2. PICK s, p, required : s = q.inputs[k].series /\ p = SeriesRow[s].policy /\ required = q.inputs[k].required
  OBVIOUS
<1>3. EvaluationStands(v) /\ v.settled /\ k \in DOMAIN v.items /\ ParsePolicy(p)
  BY <1>1, <1>2 DEF QualityInv
<1>4. /\ Question(q) /\ SettledBy(q.asOf) /\ s \in DOMAIN SeriesRow
      /\ v.items[k] = EvaluateSeries(s, q, required)
  BY <1>1, <1>2, <1>3 DEF EvaluationStands, AnswersStand
<1>5. PICK S : S = QualityRows(s, q)
  OBVIOUS
<1>6. PICK dated : dated = {LocalDay(r.obs, p) : r \in {x \in S : ~MarkedMissing(x)}}
  OBVIOUS
<1>7. v.items[k].gaps = ExpectedMissing(q, p, dated)
  <2>1. PICK revised : v.items[k] = EvaluateSamples(p, q, S, revised, required)
    BY <1>2, <1>4, <1>5 DEF EvaluateSeries
  <2>2. EvaluateSamples(p, q, S, revised, required).gaps = ExpectedMissing(q, p, Dated(S, p))
    BY <1>3, SamplesAnswer
  <2>3. Dated(S, p) = dated
    BY <1>6 DEF Dated, Kept
  <2> QED BY <2>1, <2>2, <2>3
<1>8. S = {r \in KnownThen(s, q) : q.from <= r.obs /\ r.obs < q.to}
  BY <1>4, <1>5, RowsKnownThen
<1>9. \A d : d \in dated <=> \E r \in KnownThen(s, q) :
                 q.from <= r.obs /\ r.obs < q.to /\ ~MarkedMissing(r) /\ LocalDay(r.obs, p) = d
  BY <1>6, <1>8
<1>10. PICK D \in Nat \ {0} : D = DayLength
  BY QualityAssumption
<1>11. PICK off \in -D..D : off = p.offset
  BY <1>2, <1>4, <1>10, QualityAssumption
<1>12. PICK from \in Int, to \in Int : from = q.from /\ to = q.to
  BY <1>4, QualityAssumption DEF Question
<1>13. PICK start, end :
        /\ start = IF from > ((from + off) \div D) * D - off THEN (from + off) \div D + 1 ELSE (from + off) \div D
        /\ end = IF to = ((to + off) \div D) * D - off THEN (to + off) \div D - 1 ELSE (to + off) \div D
  OBVIOUS
<1>14. PICK span : span = (from \div D - 2)..(to \div D + 2)
  OBVIOUS
<1>15. span \subseteq Int /\ start..end \subseteq Int
  BY <1>14
<1>16. \A d \in Int : d \in start..end <=> (d \in span /\ from <= d * D - off /\ d * D - off < to)
  BY <1>13, <1>14, DaysInWindow
<1>17. \A d : Midnight(d, p) = d * D - off
  BY <1>10, <1>11 DEF Midnight
<1>18. span = (Day(q.from) - 2)..(Day(q.to) + 2)
  BY <1>10, <1>12, <1>14 DEF Day
<1>19. CASE Expected(p) = "irregular"
  <2>1. \A d : ~IsExpectedDate(d, p)
    BY <1>19 DEF IsExpectedDate
  <2>2. v.items[k].gaps = {}
    BY <1>7, <1>19 DEF ExpectedMissing
  <2> QED BY <1>1, <1>2, <2>1, <2>2
<1>20. CASE Expected(p) # "irregular"
  <2>1. ExpectedMissing(q, p, dated) =
          {d \in start..end : IsExpectedDate(d, p) /\ Midnight(d, p) + p.lag <= q.asOf /\ d \notin dated}
    BY <1>10, <1>11, <1>12, <1>13, <1>17, <1>20 DEF ExpectedMissing, LocalDay, Day
  <2>2. \A d : d \in start..end <=> (d \in span /\ q.from <= Midnight(d, p) /\ Midnight(d, p) < q.to)
    BY <1>12, <1>15, <1>16, <1>17
  <2>3. v.items[k].gaps =
          {d \in span : /\ IsExpectedDate(d, p)
                        /\ q.from <= Midnight(d, p) /\ Midnight(d, p) < q.to
                        /\ Midnight(d, p) + p.lag <= q.asOf
                        /\ d \notin dated}
    BY <1>7, <2>1, <2>2
  <2> QED BY <1>1, <1>2, <1>9, <1>18, <2>3
<1> QED BY <1>19, <1>20

LEMMA ValidSound == RowsInv /\ QualityInv => ValidMeansSound
<1> SUFFICES ASSUME RowsInv, QualityInv, NEW n \in DOMAIN evaluations,
                    NEW k \in DOMAIN evaluations[n].items,
                    evaluations[n].settled,
                    evaluations[n].request.inputs[k].required \/ evaluations[n].state = "valid",
                    evaluations[n].state # "blocked"
             PROVE  LET q == evaluations[n].request
                        i == q.inputs[k]
                        p == SeriesRow[i.series].policy
                        S == {r \in KnownThen(i.series, q) : q.from <= r.obs /\ r.obs < q.to} IN
                    /\ ParsePolicy(p)
                    /\ \A r \in S : ~Suspect(r) /\ ~MarkedMissing(r)
                    /\ \E r \in S : q.asOf - r.obs <= p.maxAge
                    /\ evaluations[n].items[k].gaps = {}
  BY DEF ValidMeansSound
<1>1. PICK v, q : v = evaluations[n] /\ q = v.request
  OBVIOUS
<1>2. PICK s, p, required : s = q.inputs[k].series /\ p = SeriesRow[s].policy /\ required = q.inputs[k].required
  OBVIOUS
<1>3. /\ EvaluationStands(v) /\ v.settled /\ k \in DOMAIN v.items
      /\ required \/ v.state = "valid"
      /\ v.state # "blocked"
  BY <1>1, <1>2 DEF QualityInv
<1>4. /\ Question(q) /\ SettledBy(q.asOf) /\ s \in DOMAIN SeriesRow
      /\ v.items[k] = EvaluateSeries(s, q, required)
  BY <1>1, <1>2, <1>3 DEF EvaluationStands, AnswersStand
<1>5. PICK S : S = QualityRows(s, q)
  OBVIOUS
<1>6. S = {r \in KnownThen(s, q) : q.from <= r.obs /\ r.obs < q.to}
  BY <1>4, <1>5, RowsKnownThen
<1>7. PICK e : e = v.items[k]
  OBVIOUS
<1>8. PICK revised : e = EvaluateSamples(p, q, S, revised, required)
  BY <1>2, <1>4, <1>5, <1>7 DEF EvaluateSeries
<1>9. e.state # "blocked" /\ (v.state = "valid" => e.state # "degraded")
  <2>1. PICK states : states = [m \in DOMAIN v.items |-> v.items[m].state]
    OBVIOUS
  <2>2. v.state = Aggregate(states)
    BY <1>3, <2>1 DEF EvaluationStands
  <2>3. e.state \in ToSet(states)
    BY <1>3, <1>7, <2>1 DEF ToSet
  <2> QED BY <1>3, <2>2, <2>3 DEF Aggregate
<1>10. ParsePolicy(p)
  <2>1. SUFFICES ASSUME ~ParsePolicy(p) PROVE FALSE
    OBVIOUS
  <2>2. e = InvalidPolicy
    BY <1>8, <2>1 DEF EvaluateSamples
  <2> QED BY <1>9, <2>2 DEF InvalidPolicy
<1>11. /\ e.gaps = {} /\ Kept(S) = S /\ Dated(S, p) # {}
       /\ ~(Kept(S) # {} /\ q.asOf - Max(KeptTimes(S)) > p.maxAge)
       /\ \A r \in S : ~Suspect(r)
  <2>1. e.state # IF required THEN "blocked" ELSE "degraded"
    BY <1>3, <1>9
  <2>2. LET x == EvaluateSamples(p, q, S, revised, required) IN
        \/ x.state = IF required THEN "blocked" ELSE "degraded"
        \/ /\ x.gaps = {} /\ Kept(S) = S /\ Dated(S, p) # {}
           /\ ~(Kept(S) # {} /\ q.asOf - Max(KeptTimes(S)) > p.maxAge)
           /\ \A r \in S : ~Suspect(r)
    BY <1>10, SamplesAnswer
  <2> QED BY <1>8, <2>1, <2>2
<1>12. S \subseteq revisions /\ \A r \in S : r.kind = "observation"
  BY <1>6 DEF KnownThen
<1>13. \A r \in S : ~Suspect(r) /\ ~MarkedMissing(r)
  BY <1>11 DEF Kept
<1>14. \E r \in S : q.asOf - r.obs <= p.maxAge
  <2>1. PICK T : T = KeptTimes(S)
    OBVIOUS
  <2>2. T = {r.obs : r \in S}
    BY <1>11, <2>1 DEF KeptTimes
  <2>3. S # {}
    BY <1>11 DEF Dated
  <2>4. T # {} /\ T \in SUBSET Int
    BY <1>12, <2>2, <2>3, RowFields
  <2>5. IsFiniteSet(T)
    <3>1. IsFiniteSet(S)
      BY <1>12, FS_Subset DEF RowsInv
    <3>2. PICK f : f = [r \in S |-> r.obs]
      OBVIOUS
    <3>3. f \in Surjection(S, T)
      BY <2>2, <3>2 DEF Surjection
    <3> QED BY <3>1, <3>3, FS_Surjection
  <2>6. PICK t \in T : t = Max(T)
    BY <2>4, <2>5, MinMaxExist
  <2>7. PICK r \in S : r.obs = t
    BY <2>2, <2>6
  <2>8. t \in Int /\ q.asOf \in Int /\ p.maxAge \in Int
    BY <1>2, <1>4, <2>4, <2>6, QualityAssumption DEF Question
  <2>9. ~(q.asOf - t > p.maxAge)
    BY <1>11, <2>1, <2>3, <2>6
  <2>10. q.asOf - r.obs <= p.maxAge
    BY <2>7, <2>8, <2>9
  <2> QED BY <2>10
<1> QED BY <1>1, <1>2, <1>6, <1>7, <1>10, <1>11, <1>13, <1>14

-----------------------------------------------------------------------------
(* The lists of the timeline.                                              *)

\* The rows before the newest of each is taken, and after.
Candidates(q) ==
    IF q.list = "series" THEN DOMAIN created
    ELSE IF q.mode = "system_as_of" THEN {r \in InSpan(q) : r.system <= q.asOf}
    ELSE IF q.mode = "source_as_of" THEN {r \in InSpan(q) : r.source # NoTime /\ r.source <= q.asOf}
    ELSE InSpan(q)

ListRows(q) ==
    IF q.list = "series" \/ q.mode = "revisions" THEN Candidates(q)
    ELSE IF q.mode = "source_as_of" THEN NewestOfEach(Candidates(q), SourceKey)
    ELSE NewestOfEach(Candidates(q), SystemKey)

\* Whatever may ever be an item of a walk: series, or rows that can be seen.
Universe(q) ==
    IF q.list = "series" THEN DOMAIN SeriesRow
    ELSE {r \in Visible : r.kind = "observation" /\ r.of \in q.series}

Prec(q, x, y) == Before(CursorOf(q, x), CursorOf(q, y))

\* What Prec means for items.
Comes(q, x, y) ==
    IF q.list = "series"
    THEN \/ SeriesRow[x].source < SeriesRow[y].source
         \/ SeriesRow[x].source = SeriesRow[y].source /\ SeriesRow[x].code < SeriesRow[y].code
         \/ SeriesRow[x].source = SeriesRow[y].source /\ SeriesRow[x].code = SeriesRow[y].code /\ x < y
    ELSE \/ x.obs < y.obs
         \/ /\ x.obs = y.obs
            /\ IF q.list = "combined" THEN x.of < y.of \/ (x.of = y.of /\ x.id < y.id)
               ELSE IF q.mode = "revisions" THEN x.system < y.system \/ (x.system = y.system /\ x.id < y.id)
               ELSE x.id < y.id

LEMMA ListedIs ==
    ASSUME NEW q \in WalkRequest, NEW cursor, NEW n
    PROVE  Listed(q, cursor, n) = Keyset([x \in ListRows(q) |-> CursorOf(q, x)], cursor, n)
<1>1. /\ q.list \in {"series", "observations", "combined"}
      /\ q.mode \in {"latest", "system_as_of", "source_as_of", "revisions"}
      /\ q.list = "combined" => q.mode # "revisions"
  BY TimelineAssumption
<1>2. CASE q.list = "series"
  <2>1. ListRows(q) = DOMAIN created
    BY <1>2 DEF ListRows, Candidates
  <2>2. [x \in ListRows(q) |-> CursorOf(q, x)] = [s \in DOMAIN created |-> SeriesKey(s)]
    BY <1>2, <2>1 DEF CursorOf
  <2>3. Listed(q, cursor, n) = ListTimelineSeries(cursor, n)
    BY <1>2 DEF Listed
  <2> QED BY <2>2, <2>3 DEF ListTimelineSeries
<1>3. CASE q.list = "observations"
  <2>1. Listed(q, cursor, n) = Observations(q, cursor, n)
    BY <1>3 DEF Listed
  <2>2. CASE q.mode = "latest"
    <3>1. ListRows(q) = LatestRows(q)
      BY <1>3, <2>2 DEF ListRows, Candidates, LatestRows
    <3>2. [x \in ListRows(q) |-> CursorOf(q, x)] = [r \in LatestRows(q) |-> ObservationKey(r)]
      BY <1>3, <2>2, <3>1 DEF CursorOf
    <3>3. Listed(q, cursor, n) = ObservationsLatest(q, cursor, n)
      BY <2>1, <2>2 DEF Observations
    <3> QED BY <3>2, <3>3 DEF ObservationsLatest
  <2>3. CASE q.mode = "system_as_of"
    <3>1. ListRows(q) = SystemAsOfRows(q)
      BY <1>3, <2>3 DEF ListRows, Candidates, SystemAsOfRows
    <3>2. [x \in ListRows(q) |-> CursorOf(q, x)] = [r \in SystemAsOfRows(q) |-> ObservationKey(r)]
      BY <1>3, <2>3, <3>1 DEF CursorOf
    <3>3. Listed(q, cursor, n) = ObservationsSystemAsOf(q, cursor, n)
      BY <2>1, <2>3 DEF Observations
    <3> QED BY <3>2, <3>3 DEF ObservationsSystemAsOf
  <2>4. CASE q.mode = "source_as_of"
    <3>1. ListRows(q) = SourceAsOfRows(q)
      BY <1>3, <2>4 DEF ListRows, Candidates, SourceAsOfRows
    <3>2. [x \in ListRows(q) |-> CursorOf(q, x)] = [r \in SourceAsOfRows(q) |-> ObservationKey(r)]
      BY <1>3, <2>4, <3>1 DEF CursorOf
    <3>3. Listed(q, cursor, n) = ObservationsSourceAsOf(q, cursor, n)
      BY <2>1, <2>4 DEF Observations
    <3> QED BY <3>2, <3>3 DEF ObservationsSourceAsOf
  <2>5. CASE q.mode = "revisions"
    <3>1. ListRows(q) = InSpan(q)
      BY <1>3, <2>5 DEF ListRows, Candidates
    <3>2. [x \in ListRows(q) |-> CursorOf(q, x)] = [r \in InSpan(q) |-> RevisionKey(r)]
      BY <1>3, <2>5, <3>1 DEF CursorOf
    <3>3. Listed(q, cursor, n) = ObservationRevisions(q, cursor, n)
      BY <2>1, <2>5 DEF Observations
    <3> QED BY <3>2, <3>3 DEF ObservationRevisions
  <2> QED BY <1>1, <2>2, <2>3, <2>4, <2>5
<1>4. CASE q.list = "combined"
  <2>1. Listed(q, cursor, n) = CrossSource(q, cursor, n)
    BY <1>4 DEF Listed
  <2>2. CASE q.mode = "latest"
    <3>1. ListRows(q) = LatestRows(q)
      BY <1>4, <2>2 DEF ListRows, Candidates, LatestRows
    <3>2. [x \in ListRows(q) |-> CursorOf(q, x)] = [r \in LatestRows(q) |-> CombinedKey(r)]
      BY <1>4, <3>1 DEF CursorOf
    <3>3. Listed(q, cursor, n) = CombinedLatest(q, cursor, n)
      BY <2>1, <2>2 DEF CrossSource
    <3> QED BY <3>2, <3>3 DEF CombinedLatest
  <2>3. CASE q.mode = "system_as_of"
    <3>1. ListRows(q) = SystemAsOfRows(q)
      BY <1>4, <2>3 DEF ListRows, Candidates, SystemAsOfRows
    <3>2. [x \in ListRows(q) |-> CursorOf(q, x)] = [r \in SystemAsOfRows(q) |-> CombinedKey(r)]
      BY <1>4, <3>1 DEF CursorOf
    <3>3. Listed(q, cursor, n) = CombinedSystemAsOf(q, cursor, n)
      BY <2>1, <2>3 DEF CrossSource
    <3> QED BY <3>2, <3>3 DEF CombinedSystemAsOf
  <2>4. CASE q.mode = "source_as_of"
    <3>1. ListRows(q) = SourceAsOfRows(q)
      BY <1>4, <2>4 DEF ListRows, Candidates, SourceAsOfRows
    <3>2. [x \in ListRows(q) |-> CursorOf(q, x)] = [r \in SourceAsOfRows(q) |-> CombinedKey(r)]
      BY <1>4, <3>1 DEF CursorOf
    <3>3. Listed(q, cursor, n) = CombinedSourceAsOf(q, cursor, n)
      BY <2>1, <2>4 DEF CrossSource
    <3> QED BY <3>2, <3>3 DEF CombinedSourceAsOf
  <2> QED BY <1>1, <1>4, <2>2, <2>3, <2>4
<1> QED BY <1>1, <1>2, <1>3, <1>4

\* Rows that can be items: their columns are numbers and their ids are theirs.
LEMMA UniverseFields ==
    ASSUME RowsInv, NEW q, q.list # "series"
    PROVE  /\ Universe(q) \subseteq revisions
           /\ \A x \in Universe(q) : /\ x.id \in Int /\ x.obs \in Int /\ x.source \in Int
                                     /\ x.system \in Int /\ x.of \in Int
                                     /\ x.kind = "observation" /\ x.of \in q.series
           /\ \A x, y \in Universe(q) : x.id = y.id => x = y
<1>1. Universe(q) \subseteq revisions /\ \A x \in Universe(q) : x.kind = "observation" /\ x.of \in q.series
  BY DEF Universe, Visible
<1>2. \A x \in Universe(q) : x.id \in Int /\ x.obs \in Int /\ x.source \in Int /\ x.system \in Int
  BY <1>1, RowFields
<1>3. \A x \in Universe(q) : x.of \in Int
  BY <1>1, ObservationFields
<1>4. \A x, y \in Universe(q) : x.id = y.id => x = y
  BY <1>1 DEF RowsInv
<1> QED BY <1>1, <1>2, <1>3, <1>4

LEMMA SeriesFields ==
    ASSUME NEW s \in DOMAIN SeriesRow
    PROVE  s \in Int /\ SeriesRow[s].source \in Int /\ SeriesRow[s].code \in Int
BY TimelineAssumption

LEMMA PrecIs ==
    ASSUME RowsInv, NEW q \in WalkRequest, NEW x \in Universe(q), NEW y \in Universe(q)
    PROVE  Prec(q, x, y) <=> Comes(q, x, y)
<1>1. CASE q.list = "series"
  <2>1. x \in DOMAIN SeriesRow /\ y \in DOMAIN SeriesRow
    BY <1>1 DEF Universe
  <2>2. PICK a \in Int, b \in Int, e \in Int, f \in Int, i \in Int, j \in Int :
          /\ a = SeriesRow[x].source /\ b = SeriesRow[x].code /\ i = x
          /\ e = SeriesRow[y].source /\ f = SeriesRow[y].code /\ j = y
    BY <2>1, SeriesFields
  <2>3. CursorOf(q, x) = <<a, b, i>> /\ CursorOf(q, y) = <<e, f, j>>
    BY <1>1, <2>2 DEF CursorOf, SeriesKey
  <2>4. Before(<<a, b, i>>, <<e, f, j>>) <=> a < e \/ (a = e /\ b < f) \/ (a = e /\ b = f /\ i < j)
    BY Before3
  <2> QED BY <1>1, <2>2, <2>3, <2>4 DEF Prec, Comes
<1>2. CASE q.list # "series"
  <2>0. /\ x.id \in Int /\ x.obs \in Int /\ x.system \in Int /\ x.of \in Int
        /\ y.id \in Int /\ y.obs \in Int /\ y.system \in Int /\ y.of \in Int
    BY <1>2, UniverseFields
  <2>1. CASE q.list = "combined"
    <3>1. PICK a \in Int, b \in Int, e \in Int, f \in Int, i \in Int, j \in Int :
            a = x.obs /\ b = x.of /\ i = x.id /\ e = y.obs /\ f = y.of /\ j = y.id
      BY <2>0
    <3>2. CursorOf(q, x) = <<a, b, i>> /\ CursorOf(q, y) = <<e, f, j>>
      BY <2>1, <3>1 DEF CursorOf, CombinedKey
    <3>3. Before(<<a, b, i>>, <<e, f, j>>) <=> a < e \/ (a = e /\ b < f) \/ (a = e /\ b = f /\ i < j)
      BY Before3
    <3> QED BY <2>1, <3>1, <3>2, <3>3 DEF Prec, Comes
  <2>2. CASE q.list # "combined" /\ q.mode = "revisions"
    <3>1. PICK a \in Int, b \in Int, e \in Int, f \in Int, i \in Int, j \in Int :
            a = x.obs /\ b = x.system /\ i = x.id /\ e = y.obs /\ f = y.system /\ j = y.id
      BY <2>0
    <3>2. CursorOf(q, x) = <<a, b, i>> /\ CursorOf(q, y) = <<e, f, j>>
      BY <1>2, <2>2, <3>1 DEF CursorOf, RevisionKey
    <3>3. Before(<<a, b, i>>, <<e, f, j>>) <=> a < e \/ (a = e /\ b < f) \/ (a = e /\ b = f /\ i < j)
      BY Before3
    <3> QED BY <1>2, <2>2, <3>1, <3>2, <3>3 DEF Prec, Comes
  <2>3. CASE q.list # "combined" /\ q.mode # "revisions"
    <3>1. PICK a \in Int, e \in Int, i \in Int, j \in Int : a = x.obs /\ i = x.id /\ e = y.obs /\ j = y.id
      BY <2>0
    <3>2. CursorOf(q, x) = <<a, i>> /\ CursorOf(q, y) = <<e, j>>
      BY <1>2, <2>3, <3>1 DEF CursorOf, ObservationKey
    <3>3. Before(<<a, i>>, <<e, j>>) <=> a < e \/ (a = e /\ i < j)
      BY Before2
    <3> QED BY <1>2, <2>3, <3>1, <3>2, <3>3 DEF Prec, Comes
  <2> QED BY <2>1, <2>2, <2>3
<1> QED BY <1>1, <1>2

\* Items of a list come in one order only.
LEMMA PrecOrders ==
    ASSUME RowsInv, NEW q \in WalkRequest
    PROVE  /\ \A x \in Universe(q) : ~Prec(q, x, x)
           /\ \A x, y \in Universe(q) : x = y \/ Prec(q, x, y) \/ Prec(q, y, x)
           /\ \A x, y, z \in Universe(q) : Prec(q, x, y) /\ Prec(q, y, z) => Prec(q, x, z)
<1>0. PICK U : U = Universe(q)
  OBVIOUS
<1>1. \A x, y \in U : Prec(q, x, y) <=> Comes(q, x, y)
  BY <1>0, PrecIs
<1>2. CASE q.list = "series"
  <2>1. \A x \in U : x \in Int /\ SeriesRow[x].source \in Int /\ SeriesRow[x].code \in Int
    BY <1>0, <1>2, SeriesFields DEF Universe
  <2>2. \A x \in U : ~Comes(q, x, x)
    BY <1>2, <2>1 DEF Comes
  <2>3. \A x, y \in U : x = y \/ Comes(q, x, y) \/ Comes(q, y, x)
    BY <1>2, <2>1 DEF Comes
  <2>4. \A x, y, z \in U : Comes(q, x, y) /\ Comes(q, y, z) => Comes(q, x, z)
    BY <1>2, <2>1 DEF Comes
  <2> QED BY <1>0, <1>1, <2>2, <2>3, <2>4
<1>3. CASE q.list # "series"
  <2>1. \A x \in U : x.id \in Int /\ x.obs \in Int /\ x.system \in Int /\ x.of \in Int
    BY <1>0, <1>3, UniverseFields
  <2>2. \A x, y \in U : x.id = y.id => x = y
    BY <1>0, <1>3, UniverseFields
  <2>3. \A x \in U : ~Comes(q, x, x)
    BY <1>3, <2>1 DEF Comes
  <2>4. ASSUME NEW x \in U, NEW y \in U PROVE x = y \/ Comes(q, x, y) \/ Comes(q, y, x)
    <3>1. x = y \/ x.id < y.id \/ y.id < x.id
      BY <2>1, <2>2
    <3> QED BY <1>3, <2>1, <3>1 DEF Comes
  <2>5. ASSUME NEW x \in U, NEW y \in U, NEW z \in U, Comes(q, x, y), Comes(q, y, z) PROVE Comes(q, x, z)
    <3>0. /\ x.id \in Int /\ x.obs \in Int /\ x.system \in Int /\ x.of \in Int
          /\ y.id \in Int /\ y.obs \in Int /\ y.system \in Int /\ y.of \in Int
          /\ z.id \in Int /\ z.obs \in Int /\ z.system \in Int /\ z.of \in Int
      BY <2>1
    <3>1. CASE q.list = "combined"
      BY <1>3, <2>5, <3>0, <3>1 DEF Comes
    <3>2. CASE q.list # "combined" /\ q.mode = "revisions"
      BY <1>3, <2>5, <3>0, <3>2 DEF Comes
    <3>3. CASE q.list # "combined" /\ q.mode # "revisions"
      BY <1>3, <2>5, <3>0, <3>3 DEF Comes
    <3> QED BY <3>1, <3>2, <3>3
  <2> QED BY <1>0, <1>1, <2>3, <2>4, <2>5
<1> QED BY <1>2, <1>3

LEMMA ListInUniverse ==
    ASSUME CreatedInv, NEW q
    PROVE  ListRows(q) \subseteq Candidates(q) /\ Candidates(q) \subseteq Universe(q)
<1>1. ListRows(q) \subseteq Candidates(q)
  BY DEF ListRows, NewestOfEach
<1>2. q.list # "series" => InSpan(q) \subseteq Universe(q)
  BY DEF InSpan, Universe
<1>3. Candidates(q) \subseteq Universe(q)
  <2>1. CASE q.list = "series"
    BY <2>1 DEF Candidates, Universe, CreatedInv
  <2>2. CASE q.list # "series"
    BY <1>2, <2>2 DEF Candidates
  <2> QED BY <2>1, <2>2
<1> QED BY <1>1, <1>3

\* What a query sorts.
LEMMA ListIsOrdered ==
    ASSUME RowsInv, CreatedInv, NEW q \in WalkRequest, NEW key, key = [x \in ListRows(q) |-> CursorOf(q, x)]
    PROVE  /\ DOMAIN key = ListRows(q) /\ IsFiniteSet(DOMAIN key) /\ Ordered(key)
           /\ \A x, y \in ListRows(q) : Before(key[x], key[y]) <=> Prec(q, x, y)
           /\ q.list # "series" => ListRows(q) \subseteq revisions
<1>1. DOMAIN key = ListRows(q) /\ \A x, y \in ListRows(q) : Before(key[x], key[y]) <=> Prec(q, x, y)
  BY DEF Prec
<1>2. ListRows(q) \subseteq Universe(q)
  BY ListInUniverse
<1>3. Ordered(key)
  BY <1>1, <1>2, PrecOrders DEF Ordered
<1>4. q.list # "series" => ListRows(q) \subseteq revisions
  BY <1>2, UniverseFields
<1>5. IsFiniteSet(ListRows(q))
  <2>1. CASE q.list = "series"
    <3>1. ListRows(q) \subseteq DOMAIN SeriesRow
      BY <1>2, <2>1 DEF Universe
    <3> QED BY <3>1, TimelineAssumption, FS_Subset
  <2>2. CASE q.list # "series"
    BY <1>4, <2>2, FS_Subset DEF RowsInv
  <2> QED BY <2>1, <2>2
<1> QED BY <1>1, <1>3, <1>4, <1>5

-----------------------------------------------------------------------------
(* Standings.  A correction replaces an item by another of the same        *)
(* standing; standings that come later in a list stay later.               *)

StandsBefore(q, x, y) ==
    IF q.list = "series" \/ q.mode = "revisions" THEN Comes(q, x, y)
    ELSE IF q.list = "combined" THEN x.obs < y.obs \/ (x.obs = y.obs /\ x.of < y.of)
    ELSE x.obs < y.obs

LEMMA StandingsOrder ==
    ASSUME RowsInv, NEW q \in WalkRequest, NEW x \in Universe(q), NEW y \in Universe(q)
    PROVE  /\ Prec(q, x, y) /\ Standing(q, x) # Standing(q, y) => StandsBefore(q, x, y)
           /\ StandsBefore(q, x, y) => Prec(q, x, y)
<1>0. /\ q.list \in {"series", "observations", "combined"}
      /\ q.list = "observations" => \E s \in DOMAIN SeriesRow : q.series = {s}
  BY TimelineAssumption
<1>1. Prec(q, x, y) <=> Comes(q, x, y)
  BY PrecIs
<1>2. CASE q.list = "series" \/ q.mode = "revisions"
  BY <1>1, <1>2 DEF StandsBefore
<1>3. CASE q.list # "series" /\ q.mode # "revisions"
  <2>0. /\ x.id \in Int /\ x.obs \in Int /\ x.of \in Int /\ x.of \in q.series
        /\ y.id \in Int /\ y.obs \in Int /\ y.of \in Int /\ y.of \in q.series
    BY <1>3, UniverseFields
  <2>1. Standing(q, x) = <<x.of, x.obs>> /\ Standing(q, y) = <<y.of, y.obs>>
    BY <1>3 DEF Standing
  <2>2. Standing(q, x) # Standing(q, y) => x.of # y.of \/ x.obs # y.obs
    BY <2>1
  <2>3. CASE q.list = "combined"
    BY <1>1, <1>3, <2>0, <2>2, <2>3 DEF StandsBefore, Comes
  <2>4. CASE q.list = "observations"
    <3>1. x.of = y.of
      BY <1>0, <2>0, <2>4
    <3> QED BY <1>1, <1>3, <2>0, <2>2, <2>4, <3>1 DEF StandsBefore, Comes
  <2> QED BY <1>0, <1>3, <2>3, <2>4
<1> QED BY <1>2, <1>3

LEMMA SameStanding ==
    ASSUME RowsInv, NEW q \in WalkRequest, NEW x \in Universe(q), NEW y \in Universe(q),
           Standing(q, x) = Standing(q, y), NEW c, StandsBefore(q, c, x)
    PROVE  StandsBefore(q, c, y)
<1>1. CASE q.list = "series"
  <2>1. <<x>> = <<y>>
    BY <1>1 DEF Standing
  <2>2. x = y
    BY <2>1
  <2> QED BY <2>2
<1>2. CASE q.list # "series" /\ q.mode = "revisions"
  <2>1. <<x.id>> = <<y.id>>
    BY <1>2 DEF Standing
  <2>2. x.id = y.id
    BY <2>1
  <2>3. x = y
    BY <1>2, <2>2, UniverseFields
  <2> QED BY <2>3
<1>3. CASE q.list # "series" /\ q.mode # "revisions"
  <2>1. <<x.of, x.obs>> = <<y.of, y.obs>>
    BY <1>3 DEF Standing
  <2>2. x.of = y.of /\ x.obs = y.obs
    BY <2>1
  <2> QED BY <1>3, <2>2 DEF StandsBefore
<1> QED BY <1>1, <1>2, <1>3

\* Rows of a table, of which the newest can be taken.
GoodRows(S) ==
    /\ IsFiniteSet(S)
    /\ \A r \in S : r.id \in Int /\ r.source \in Int /\ r.system \in Int
    /\ \A r, s \in S : r.id = s.id => r = s

Younger(r, s) == r.system > s.system \/ (r.system = s.system /\ r.id > s.id)

YoungerBySource(r, s) == r.source > s.source \/ (r.source = s.source /\ Younger(r, s))

LEMMA YoungerKeys ==
    ASSUME NEW S, GoodRows(S), NEW r \in S, NEW s \in S
    PROVE  /\ Before(SystemKey(s), SystemKey(r)) <=> Younger(r, s)
           /\ Before(SourceKey(s), SourceKey(r)) <=> YoungerBySource(r, s)
           /\ Before(<<-r.system, -r.id>>, <<-s.system, -s.id>>) <=> Younger(r, s)
           /\ Before(<<-r.source, -r.system, -r.id>>, <<-s.source, -s.system, -s.id>>) <=> YoungerBySource(r, s)
<1>1. PICK a \in Int, b \in Int, c \in Int, e \in Int, f \in Int, g \in Int :
        a = r.source /\ b = r.system /\ c = r.id /\ e = s.source /\ f = s.system /\ g = s.id
  BY DEF GoodRows
<1>2. PICK k \in Int, l \in Int, m \in Int, n \in Int, o \in Int, p \in Int :
        k = -a /\ l = -b /\ m = -c /\ n = -e /\ o = -f /\ p = -g
  OBVIOUS
<1>3. Before(<<f, g>>, <<b, c>>) <=> f < b \/ (f = b /\ g < c)
  BY Before2
<1>4. Before(<<e, f, g>>, <<a, b, c>>) <=> e < a \/ (e = a /\ f < b) \/ (e = a /\ f = b /\ g < c)
  BY Before3
<1>5. Before(<<l, m>>, <<o, p>>) <=> l < o \/ (l = o /\ m < p)
  BY Before2
<1>6. Before(<<k, l, m>>, <<n, o, p>>) <=> k < n \/ (k = n /\ l < o) \/ (k = n /\ l = o /\ m < p)
  BY Before3
<1>7. (k < n <=> e < a) /\ (k = n <=> e = a) /\ (l < o <=> f < b) /\ (l = o <=> f = b) /\ (m < p <=> g < c)
  BY <1>2
<1>8. Younger(r, s) <=> f < b \/ (f = b /\ g < c)
  BY <1>1 DEF Younger
<1>9. YoungerBySource(r, s) <=> e < a \/ (e = a /\ f < b) \/ (e = a /\ f = b /\ g < c)
  BY <1>1, <1>8 DEF YoungerBySource
<1>10. Before(SystemKey(s), SystemKey(r)) <=> Younger(r, s)
  BY <1>1, <1>3, <1>8 DEF SystemKey
<1>11. Before(SourceKey(s), SourceKey(r)) <=> YoungerBySource(r, s)
  BY <1>1, <1>4, <1>9 DEF SourceKey
<1>12. Before(<<-r.system, -r.id>>, <<-s.system, -s.id>>) <=> Younger(r, s)
  BY <1>1, <1>2, <1>5, <1>7, <1>8
<1>13. Before(<<-r.source, -r.system, -r.id>>, <<-s.source, -s.system, -s.id>>) <=> YoungerBySource(r, s)
  BY <1>1, <1>2, <1>6, <1>7, <1>9
<1> QED BY <1>10, <1>11, <1>12, <1>13

LEMMA YoungerOrders ==
    ASSUME NEW S, GoodRows(S)
    PROVE  /\ \A x \in S : ~Younger(x, x) /\ ~YoungerBySource(x, x)
           /\ \A x, y \in S : x = y \/ Younger(x, y) \/ Younger(y, x)
           /\ \A x, y \in S : x = y \/ YoungerBySource(x, y) \/ YoungerBySource(y, x)
           /\ \A x, y, z \in S : Younger(x, y) /\ Younger(y, z) => Younger(x, z)
           /\ \A x, y, z \in S : YoungerBySource(x, y) /\ YoungerBySource(y, z) => YoungerBySource(x, z)
<1>1. \A r \in S : r.id \in Int /\ r.source \in Int /\ r.system \in Int
  BY DEF GoodRows
<1>2. \A x \in S : ~Younger(x, x) /\ ~YoungerBySource(x, x)
  BY <1>1 DEF Younger, YoungerBySource
<1>3. \A x, y \in S : x = y \/ Younger(x, y) \/ Younger(y, x)
  BY <1>1 DEF GoodRows, Younger
<1>4. \A x, y \in S : x = y \/ YoungerBySource(x, y) \/ YoungerBySource(y, x)
  BY <1>1, <1>3 DEF YoungerBySource
<1>5. \A x, y, z \in S : Younger(x, y) /\ Younger(y, z) => Younger(x, z)
  BY <1>1 DEF Younger
<1>6. \A x, y, z \in S : YoungerBySource(x, y) /\ YoungerBySource(y, z) => YoungerBySource(x, z)
  BY <1>1, <1>5 DEF YoungerBySource
<1> QED BY <1>2, <1>3, <1>4, <1>5, <1>6

\* There is a newest one of each, and only one.
LEMMA NewestExists ==
    ASSUME NEW S, GoodRows(S), NEW x \in S
    PROVE  /\ \E y \in NewestOfEach(S, SystemKey) : y.of = x.of /\ y.obs = x.obs
           /\ \E y \in NewestOfEach(S, SourceKey) : y.of = x.of /\ y.obs = x.obs
<1>1. PICK G : G = {y \in S : y.of = x.of /\ y.obs = x.obs}
  OBVIOUS
<1>2. G \in SUBSET S /\ G # {} /\ IsFiniteSet(G)
  BY <1>1, FS_Subset DEF GoodRows
<1>3. \E y \in NewestOfEach(S, SystemKey) : y.of = x.of /\ y.obs = x.obs
  <2>1. PICK key : key = [r \in G |-> <<-r.system, -r.id>>]
    OBVIOUS
  <2>2. DOMAIN key = G /\ \A r, s \in G : Before(key[r], key[s]) <=> Younger(r, s)
    BY <1>2, <2>1, YoungerKeys
  <2>3. Ordered(key)
    BY <1>2, <2>2, YoungerOrders DEF Ordered
  <2>4. PICK y \in G : \A z \in G : z = y \/ Before(key[y], key[z])
    BY <1>2, <2>2, <2>3, FirstExists
  <2>5. \A z \in G : z = y \/ Younger(y, z)
    BY <2>2, <2>4
  <2>6. \A z \in G : z = y \/ Before(SystemKey(z), SystemKey(y))
    BY <1>2, <2>5, YoungerKeys
  <2>7. y \in NewestOfEach(S, SystemKey)
    BY <1>1, <2>6 DEF NewestOfEach
  <2> QED BY <1>1, <2>7
<1>4. \E y \in NewestOfEach(S, SourceKey) : y.of = x.of /\ y.obs = x.obs
  <2>1. PICK key : key = [r \in G |-> <<-r.source, -r.system, -r.id>>]
    OBVIOUS
  <2>2. DOMAIN key = G /\ \A r, s \in G : Before(key[r], key[s]) <=> YoungerBySource(r, s)
    BY <1>2, <2>1, YoungerKeys
  <2>3. Ordered(key)
    BY <1>2, <2>2, YoungerOrders DEF Ordered
  <2>4. PICK y \in G : \A z \in G : z = y \/ Before(key[y], key[z])
    BY <1>2, <2>2, <2>3, FirstExists
  <2>5. \A z \in G : z = y \/ YoungerBySource(y, z)
    BY <2>2, <2>4
  <2>6. \A z \in G : z = y \/ Before(SourceKey(z), SourceKey(y))
    BY <1>2, <2>5, YoungerKeys
  <2>7. y \in NewestOfEach(S, SourceKey)
    BY <1>1, <2>6 DEF NewestOfEach
  <2> QED BY <1>1, <2>7
<1> QED BY <1>3, <1>4

LEMMA NewestIsOne ==
    ASSUME NEW S, GoodRows(S)
    PROVE  /\ \A x, y \in NewestOfEach(S, SystemKey) : x.of = y.of /\ x.obs = y.obs => x = y
           /\ \A x, y \in NewestOfEach(S, SourceKey) : x.of = y.of /\ x.obs = y.obs => x = y
<1>1. ASSUME NEW x \in NewestOfEach(S, SystemKey), NEW y \in NewestOfEach(S, SystemKey),
             x.of = y.of, x.obs = y.obs
      PROVE  x = y
  <2>1. /\ x \in S /\ y \in S
        /\ x = y \/ Before(SystemKey(x), SystemKey(y))
        /\ x = y \/ Before(SystemKey(y), SystemKey(x))
    BY <1>1 DEF NewestOfEach
  <2>2. x = y \/ (Younger(y, x) /\ Younger(x, y))
    BY <2>1, YoungerKeys
  <2> QED BY <2>1, <2>2, YoungerOrders
<1>2. ASSUME NEW x \in NewestOfEach(S, SourceKey), NEW y \in NewestOfEach(S, SourceKey),
             x.of = y.of, x.obs = y.obs
      PROVE  x = y
  <2>1. /\ x \in S /\ y \in S
        /\ x = y \/ Before(SourceKey(x), SourceKey(y))
        /\ x = y \/ Before(SourceKey(y), SourceKey(x))
    BY <1>2 DEF NewestOfEach
  <2>2. x = y \/ (YoungerBySource(y, x) /\ YoungerBySource(x, y))
    BY <2>1, YoungerKeys
  <2> QED BY <2>1, <2>2, YoungerOrders
<1> QED BY <1>1, <1>2

LEMMA TablesAreGood ==
    ASSUME NEW R, IsFiniteSet(R),
           \A r \in R : r.system \in Int /\ \E a \in Arrival : r = Stamped(a, r.system),
           \A r, s \in R : r.id = s.id => r = s,
           NEW S, S \subseteq R
    PROVE  GoodRows(S)
<1>1. IsFiniteSet(S)
  BY FS_Subset
<1>2. \A r \in S : r.id \in Int /\ r.source \in Int /\ r.system \in Int
  BY RevisionsAssumption DEF Stamped
<1> QED BY <1>1, <1>2 DEF GoodRows

\* Two items of a list never have the same standing.
LEMMA OneOfEach ==
    ASSUME RowsInv, CreatedInv, NEW q \in WalkRequest, NEW x \in ListRows(q), NEW y \in ListRows(q),
           Standing(q, x) = Standing(q, y)
    PROVE  x = y
<1>0. ListRows(q) \subseteq Universe(q) /\ Candidates(q) \subseteq Universe(q)
  BY ListInUniverse
<1>1. CASE q.list = "series"
  <2>1. <<x>> = <<y>>
    BY <1>1 DEF Standing
  <2> QED BY <2>1
<1>2. CASE q.list # "series" /\ q.mode = "revisions"
  <2>1. <<x.id>> = <<y.id>>
    BY <1>2 DEF Standing
  <2>2. x.id = y.id
    BY <2>1
  <2> QED BY <1>0, <1>2, <2>2, UniverseFields
<1>3. CASE q.list # "series" /\ q.mode # "revisions"
  <2>1. <<x.of, x.obs>> = <<y.of, y.obs>>
    BY <1>3 DEF Standing
  <2>2. x.of = y.of /\ x.obs = y.obs
    BY <2>1
  <2>3. PICK C : C = Candidates(q)
    OBVIOUS
  <2>4. GoodRows(C)
    <3>1. C \subseteq revisions
      BY <1>0, <1>3, <2>3, UniverseFields
    <3> QED BY <3>1, TablesAreGood DEF RowsInv
  <2>5. CASE q.mode = "source_as_of"
    <3>1. x \in NewestOfEach(C, SourceKey) /\ y \in NewestOfEach(C, SourceKey)
      BY <1>3, <2>3, <2>5 DEF ListRows
    <3> QED BY <2>2, <2>4, <3>1, NewestIsOne
  <2>6. CASE q.mode # "source_as_of"
    <3>1. x \in NewestOfEach(C, SystemKey) /\ y \in NewestOfEach(C, SystemKey)
      BY <1>3, <2>3, <2>6 DEF ListRows
    <3> QED BY <2>2, <2>4, <3>1, NewestIsOne
  <2> QED BY <2>5, <2>6
<1> QED BY <1>1, <1>2, <1>3

SeriesKept == CreatedInv' /\ DOMAIN created \subseteq DOMAIN created'

\* Whatever arrives, a standing that is listed stays listed.
LEMMA StandingStays ==
    ASSUME RevisionsKept, CreatedInv, SeriesKept, NEW q \in WalkRequest, NEW x \in ListRows(q)
    PROVE  \E y : y \in ListRows(q)' /\ Standing(q, y) = Standing(q, x)
<1>0. Visible \subseteq Visible' /\ RowsInv'
  BY DEF RevisionsKept
<1>1. PICK C, L : C = Candidates(q)' /\ L = ListRows(q)'
  OBVIOUS
<1>2. x \in C
  <2>1. x \in Candidates(q)
    BY ListInUniverse
  <2>2. InSpan(q) \subseteq InSpan(q)'
    BY <1>0 DEF InSpan
  <2>3. CASE q.list = "series"
    BY <1>1, <2>1, <2>3 DEF Candidates, SeriesKept
  <2>4. CASE q.list # "series" /\ q.mode = "system_as_of"
    <3>1. x \in InSpan(q) /\ x.system <= q.asOf
      BY <2>1, <2>4 DEF Candidates
    <3>2. C = {r \in InSpan(q)' : r.system <= q.asOf}
      BY <1>1, <2>4 DEF Candidates
    <3> QED BY <2>2, <3>1, <3>2
  <2>5. CASE q.list # "series" /\ q.mode = "source_as_of"
    <3>1. x \in InSpan(q) /\ x.source # NoTime /\ x.source <= q.asOf
      BY <2>1, <2>5 DEF Candidates
    <3>2. C = {r \in InSpan(q)' : r.source # NoTime /\ r.source <= q.asOf}
      BY <1>1, <2>5 DEF Candidates
    <3> QED BY <2>2, <3>1, <3>2
  <2>6. CASE q.list # "series" /\ q.mode # "system_as_of" /\ q.mode # "source_as_of"
    BY <1>1, <2>1, <2>2, <2>6 DEF Candidates
  <2> QED BY <2>3, <2>4, <2>5, <2>6
<1>3. CASE q.list = "series" \/ q.mode = "revisions"
  <2>1. L = C
    BY <1>1, <1>3 DEF ListRows
  <2> QED BY <1>1, <1>2, <2>1
<1>4. CASE q.list # "series" /\ q.mode # "revisions"
  <2>1. GoodRows(C)
    <3>1. C \subseteq InSpan(q)'
      BY <1>1, <1>4 DEF Candidates
    <3>2. C \subseteq revisions'
      BY <3>1 DEF InSpan, Visible
    <3>3. PICK R : R = revisions'
      OBVIOUS
    <3>4. /\ IsFiniteSet(R)
          /\ \A r \in R : r.system \in Int /\ \E a \in Arrival : r = Stamped(a, r.system)
          /\ \A r, s \in R : r.id = s.id => r = s
      BY <1>0, <3>3 DEF RowsInv
    <3> QED BY <3>2, <3>3, <3>4, TablesAreGood
  <2>2. \E y \in L : y.of = x.of /\ y.obs = x.obs
    <3>1. CASE q.mode = "source_as_of"
      <4>1. L = NewestOfEach(C, SourceKey)
        BY <1>1, <1>4, <3>1 DEF ListRows
      <4> QED BY <1>2, <2>1, <4>1, NewestExists
    <3>2. CASE q.mode # "source_as_of"
      <4>1. L = NewestOfEach(C, SystemKey)
        BY <1>1, <1>4, <3>2 DEF ListRows
      <4> QED BY <1>2, <2>1, <4>1, NewestExists
    <3> QED BY <3>1, <3>2
  <2>3. PICK y \in L : y.of = x.of /\ y.obs = x.obs
    BY <2>2
  <2>4. Standing(q, y) = Standing(q, x)
    BY <1>4, <2>3 DEF Standing
  <2> QED BY <1>1, <2>4
<1> QED BY <1>3, <1>4

\* A list as of a settled instant does not change at all.
FixedList(q) == q.list # "series" /\ q.mode = "system_as_of" /\ SettledBy(q.asOf)

LEMMA FixedListStays ==
    ASSUME RevisionsKept, NEW q \in WalkRequest, FixedList(q)
    PROVE  FixedList(q)' /\ ListRows(q)' = ListRows(q)
<1>0. q.asOf \in Int
  BY TimelineAssumption
<1>1. PICK K : K = KnownBy(q.asOf)
  OBVIOUS
<1>2. SettledBy(q.asOf)' /\ KnownBy(q.asOf)' = K
  BY <1>0, <1>1 DEF RevisionsKept, FixedList
<1>3. PICK C : C = {r \in K : r.kind = "observation" /\ r.of \in q.series /\ q.from <= r.obs /\ r.obs < q.to}
  OBVIOUS
<1>4. Candidates(q) = C
  BY <1>1, <1>3 DEF FixedList, Candidates, InSpan, KnownBy
<1>5. Candidates(q)' = C
  BY <1>2, <1>3 DEF FixedList, Candidates, InSpan, KnownBy
<1>6. ListRows(q) = NewestOfEach(C, SystemKey)
  BY <1>4 DEF FixedList, ListRows
<1>7. ListRows(q)' = NewestOfEach(C, SystemKey)
  BY <1>5 DEF FixedList, ListRows
<1>8. FixedList(q)'
  BY <1>2 DEF FixedList
<1> QED BY <1>6, <1>7, <1>8

-----------------------------------------------------------------------------
(* Pages.                                                                  *)

LEMMA MinOfTwo ==
    ASSUME NEW a \in Int, NEW b \in Int
    PROVE  Min({a, b}) = IF a <= b THEN a ELSE b
<1>1. IsFiniteSet({a, b})
  <2>1. IsFiniteSet({a})
    BY FS_Singleton
  <2>2. IsFiniteSet({a} \cup {b})
    BY <2>1, FS_AddElement
  <2>3. {a} \cup {b} = {a, b}
    OBVIOUS
  <2> QED BY <2>2, <2>3
<1>2. {a, b} \in SUBSET Int /\ {a, b} # {}
  OBVIOUS
<1>3. Min({a, b}) \in {a, b} /\ \A y \in {a, b} : Min({a, b}) <= y
  BY <1>1, <1>2, MinMaxExist
<1> QED BY <1>3

\* At most the first n of a list.
FirstOf(rows, n) == SubSeq(rows, 1, Min({n, Len(rows)}))

LEMMA FrontIs ==
    ASSUME NEW T, NEW rows \in Seq(T), NEW n \in Nat
    PROVE  /\ FirstOf(rows, n) \in Seq(T)
           /\ Len(FirstOf(rows, n)) = IF n <= Len(rows) THEN n ELSE Len(rows)
           /\ \A i \in 1..Len(FirstOf(rows, n)) : FirstOf(rows, n)[i] = rows[i]
<1>0. Len(rows) \in Nat /\ \A i \in 1..Len(rows) : rows[i] \in T
  OBVIOUS
<1>1. PICK k \in Nat : k = Len(rows)
  BY <1>0
<1>2. PICK m \in Nat : m = (IF n <= k THEN n ELSE k) /\ m <= k
  OBVIOUS
<1>3. Min({n, k}) = m
  BY <1>2, MinOfTwo
<1>4. FirstOf(rows, n) = SubSeq(rows, 1, m)
  BY <1>1, <1>3 DEF FirstOf
<1>5. \A i \in 1..m : rows[i] \in T
  BY <1>0, <1>1, <1>2
<1>6. /\ SubSeq(rows, 1, m) \in Seq(T)
      /\ Len(SubSeq(rows, 1, m)) = IF 1 <= m THEN m - 1 + 1 ELSE 0
      /\ \A i \in 1..(m - 1 + 1) : SubSeq(rows, 1, m)[i] = rows[1 + i - 1]
  BY <1>5, m \in Int, 1 \in Int, SubSeqProperties
<1>7. Len(SubSeq(rows, 1, m)) = m /\ \A i \in 1..m : SubSeq(rows, 1, m)[i] = rows[i]
  BY <1>6
<1> QED BY <1>1, <1>2, <1>4, <1>6, <1>7

\* All rows behind the cursor, in order.
Behind(rows, key, cursor) ==
    /\ rows \in Seq(DOMAIN key)
    /\ \A i \in 1..Len(rows) : rows[i] \in DOMAIN key /\ (cursor = <<>> \/ Before(cursor, key[rows[i]]))
    /\ \A x \in DOMAIN key : cursor = <<>> \/ Before(cursor, key[x]) => \E i \in 1..Len(rows) : rows[i] = x
    /\ \A i, j \in 1..Len(rows) : i < j => Before(key[rows[i]], key[rows[j]])

LEMMA KeysetIs ==
    ASSUME NEW key, IsFiniteSet(DOMAIN key), Ordered(key), NEW cursor
    PROVE  \E rows : /\ Behind(rows, key, cursor)
                     /\ \A n : Keyset(key, cursor, n) = FirstOf(rows, n)
<1>1. PICK rest : rest = {x \in DOMAIN key : cursor = <<>> \/ Before(cursor, key[x])}
  OBVIOUS
<1>2. PICK sub : sub = [x \in rest |-> key[x]]
  OBVIOUS
<1>3. PICK rows : rows = InOrder(sub)
  OBVIOUS
<1>4. DOMAIN sub = rest /\ rest \in SUBSET DOMAIN key /\ IsFiniteSet(rest) /\ \A x \in rest : sub[x] = key[x]
  BY <1>1, <1>2, FS_Subset
<1>5. Ordered(sub)
  BY <1>4 DEF Ordered
<1>6. /\ rows \in Seq(rest) /\ DOMAIN rows = 1..Len(rows)
      /\ \A i \in 1..Len(rows) : rows[i] \in rest
      /\ \A x \in rest : \E i \in 1..Len(rows) : rows[i] = x
      /\ \A i, j \in 1..Len(rows) : i < j => Before(sub[rows[i]], sub[rows[j]])
  <2>1. /\ rows \in Seq(rest) /\ Len(rows) = Cardinality(rest) /\ DOMAIN rows = 1..Cardinality(rest)
        /\ \A i \in DOMAIN rows : rows[i] \in rest
        /\ \A x \in rest : \E i \in DOMAIN rows : rows[i] = x
        /\ \A i, j \in DOMAIN rows : i < j => Before(sub[rows[i]], sub[rows[j]])
    BY <1>3, <1>4, <1>5, InOrderSorts
  <2> QED BY <2>1
<1>7. Behind(rows, key, cursor)
  <2>1. rows \in Seq(DOMAIN key)
    BY <1>4, <1>6
  <2>2. \A i \in 1..Len(rows) : rows[i] \in DOMAIN key /\ (cursor = <<>> \/ Before(cursor, key[rows[i]]))
    BY <1>1, <1>6
  <2>3. \A x \in DOMAIN key : cursor = <<>> \/ Before(cursor, key[x]) => \E i \in 1..Len(rows) : rows[i] = x
    BY <1>1, <1>6
  <2>4. \A i, j \in 1..Len(rows) : i < j => Before(key[rows[i]], key[rows[j]])
    BY <1>4, <1>6
  <2> QED BY <2>1, <2>2, <2>3, <2>4 DEF Behind
<1>8. \A n : Keyset(key, cursor, n) = FirstOf(rows, n)
  BY <1>1, <1>2, <1>3 DEF Keyset, FirstOf
<1> QED BY <1>7, <1>8

\* A page: the first rows behind the cursor, and whether they are all.
PageOf(page, rows, q, cursor) ==
    /\ page.items \in Seq(ListRows(q))
    /\ Len(page.items) = IF q.limit <= Len(rows) THEN q.limit ELSE Len(rows)
    /\ \A i \in 1..Len(page.items) : page.items[i] = rows[i]
    /\ page.more = (Len(rows) > q.limit)
    /\ page.cursor = IF Len(rows) > q.limit THEN CursorOf(q, rows[q.limit]) ELSE cursor

LEMMA PageIs ==
    ASSUME RowsInv, CreatedInv, NEW q \in WalkRequest, NEW cursor, NEW key,
           key = [x \in ListRows(q) |-> CursorOf(q, x)]
    PROVE  \E rows : Behind(rows, key, cursor) /\ PageOf(Page(q, cursor), rows, q, cursor)
<1>1. DOMAIN key = ListRows(q) /\ IsFiniteSet(DOMAIN key) /\ Ordered(key)
  BY ListIsOrdered
<1>2. PICK rows : /\ Behind(rows, key, cursor)
                  /\ \A n : Keyset(key, cursor, n) = FirstOf(rows, n)
  BY <1>1, KeysetIs
<1>3. PICK T : T = ListRows(q)
  OBVIOUS
<1>4. rows \in Seq(T)
  BY <1>1, <1>2, <1>3 DEF Behind
<1>5. PICK k \in Nat \ {0} : k = q.limit
  BY TimelineAssumption
<1>6. PICK f : f = Listed(q, cursor, k + 1)
  OBVIOUS
<1>7. f = FirstOf(rows, k + 1)
  BY <1>2, <1>6, ListedIs
<1>8. /\ f \in Seq(T)
      /\ Len(f) = IF k + 1 <= Len(rows) THEN k + 1 ELSE Len(rows)
      /\ \A i \in 1..Len(f) : f[i] = rows[i]
  BY <1>4, <1>7, k + 1 \in Nat, FrontIs
<1>9. PICK g : g = FirstOf(f, k)
  OBVIOUS
<1>10. /\ g \in Seq(T)
       /\ Len(g) = IF k <= Len(f) THEN k ELSE Len(f)
       /\ \A i \in 1..Len(g) : g[i] = f[i]
  BY <1>8, <1>9, FrontIs
<1>11. Len(rows) \in Nat
  BY <1>4
<1>12. /\ Len(g) = IF k <= Len(rows) THEN k ELSE Len(rows)
       /\ \A i \in 1..Len(g) : g[i] = rows[i]
       /\ Len(f) > k <=> Len(rows) > k
       /\ Len(rows) > k => f[k] = rows[k]
  BY <1>8, <1>10, <1>11
<1>13. PICK page : page = Page(q, cursor)
  OBVIOUS
<1>14. page.items = g /\ page.more = (Len(f) > k) /\ page.cursor = IF Len(f) > k THEN CursorOf(q, f[k]) ELSE cursor
  BY <1>5, <1>6, <1>9, <1>13 DEF Page, FirstOf
<1>15. PageOf(page, rows, q, cursor)
  <2>1. page.more = (Len(rows) > k)
    BY <1>12, <1>14
  <2>2. page.cursor = IF Len(rows) > k THEN CursorOf(q, rows[k]) ELSE cursor
    BY <1>12, <1>14
  <2> QED BY <1>3, <1>5, <1>10, <1>12, <1>14, <2>1, <2>2 DEF PageOf
<1> QED BY <1>2, <1>13, <1>15

-----------------------------------------------------------------------------
(* Walks.                                                                  *)

\* Items that came in order, and that are those of now if the list is fixed.
ItemsStand(q, items, settled) ==
    /\ q \in WalkRequest
    /\ items \in Seq(Universe(q))
    /\ \A m, n \in 1..Len(items) : m < n => Prec(q, items[m], items[n])
    /\ settled \in BOOLEAN
    /\ settled => FixedList(q) /\ \A n \in 1..Len(items) : items[n] \in ListRows(q)

\* A row, or what it stands for, comes after the items so far.
Ahead(q, items, x) == items = <<>> \/ Prec(q, items[Len(items)], x)
StandsAhead(q, items, x) == items = <<>> \/ StandsBefore(q, items[Len(items)], x)

Got(q, items, st) == \E n \in 1..Len(items) : Standing(q, items[n]) = st

\* A walk under way: what it still owes is ahead of its cursor.
ReaderStands(u) ==
    /\ u = [phase |-> "reading", request |-> u.request, cursor |-> u.cursor, items |-> u.items,
            more |-> u.more, owed |-> u.owed, settled |-> u.settled]
    /\ ItemsStand(u.request, u.items, u.settled)
    /\ u.cursor = IF u.items = <<>> THEN <<>> ELSE CursorOf(u.request, u.items[Len(u.items)])
    /\ \A st \in u.owed :
          \/ Got(u.request, u.items, st)
          \/ \E x \in ListRows(u.request) :
                Standing(u.request, x) = st /\ StandsAhead(u.request, u.items, x)
    /\ u.more => \E x \in ListRows(u.request) : StandsAhead(u.request, u.items, x)
    /\ u.settled => \A x \in ListRows(u.request) :
                        (\E n \in 1..Len(u.items) : u.items[n] = x) \/ Ahead(u.request, u.items, x)

\* A walk that came to its end.
WalkStands(w) ==
    /\ ItemsStand(w.request, w.items, w.settled)
    /\ \A st \in w.owed : Got(w.request, w.items, st)
    /\ w.promised => w.last # <<>>
    /\ w.settled => \A x \in ListRows(w.request) : \E n \in 1..Len(w.items) : w.items[n] = x

TimelineInv ==
    /\ CreatedInv
    /\ reader = NoReader \/ ReaderStands(reader)
    /\ IsSeq(walks)
    /\ \A n \in DOMAIN walks : WalkStands(walks[n])

LEMMA UniverseGrows ==
    ASSUME RevisionsKept, NEW q
    PROVE  Universe(q) \subseteq Universe(q)'
BY DEF RevisionsKept, Universe

LEMMA ItemsStay ==
    ASSUME RevisionsKept, NEW q, NEW items, NEW settled, ItemsStand(q, items, settled)
    PROVE  /\ ItemsStand(q, items, settled)'
           /\ settled => ListRows(q)' = ListRows(q)
<1>1. q \in WalkRequest
  BY DEF ItemsStand
<1>2. PICK U, V : U = Universe(q) /\ V = Universe(q)'
  OBVIOUS
<1>3. U \subseteq V
  BY <1>2, UniverseGrows
<1>4. items \in Seq(U)
  BY <1>2 DEF ItemsStand
<1>5. items \in Seq(V)
  BY <1>3, <1>4
<1>6. settled => FixedList(q)' /\ ListRows(q)' = ListRows(q)
  BY <1>1, FixedListStays DEF ItemsStand
<1>7. settled => \A n \in 1..Len(items) : items[n] \in ListRows(q)'
  BY <1>6 DEF ItemsStand
<1>8. \A m, n \in 1..Len(items) : m < n => Prec(q, items[m], items[n])
  BY DEF ItemsStand
<1>9. ItemsStand(q, items, settled)'
  BY <1>1, <1>2, <1>5, <1>6, <1>7, <1>8 DEF ItemsStand, Prec
<1> QED BY <1>6, <1>9

\* Whatever stands ahead stays there, perhaps in another revision.
LEMMA AheadStays ==
    ASSUME RevisionsKept, CreatedInv, SeriesKept, NEW q \in WalkRequest, NEW items,
           NEW x \in ListRows(q), StandsAhead(q, items, x)
    PROVE  \E y : y \in ListRows(q)' /\ Standing(q, y) = Standing(q, x) /\ StandsAhead(q, items, y)
<1>1. PICK y : y \in ListRows(q)' /\ Standing(q, y) = Standing(q, x)
  BY StandingStays
<1>2. x \in Universe(q)'
  BY ListInUniverse, UniverseGrows
<1>3. y \in Universe(q)'
  <2>1. ListRows(q)' \subseteq Universe(q)'
    <3>1. CreatedInv'
      BY DEF SeriesKept
    <3>2. ListRows(q)' \subseteq Candidates(q)'
      BY DEF ListRows, NewestOfEach
    <3>3. q.list # "series" => InSpan(q)' \subseteq Universe(q)'
      BY DEF InSpan, Universe
    <3>4. CASE q.list = "series"
      BY <3>1, <3>2, <3>4 DEF Candidates, Universe, CreatedInv
    <3>5. CASE q.list # "series"
      <4>1. Candidates(q)' \subseteq InSpan(q)'
        BY <3>5 DEF Candidates
      <4> QED BY <3>2, <3>3, <3>5, <4>1
    <3> QED BY <3>4, <3>5
  <2> QED BY <1>1, <2>1
<1>4. CASE items = <<>>
  BY <1>1, <1>4 DEF StandsAhead
<1>5. CASE items # <<>>
  <2>1. PICK c : c = items[Len(items)]
    OBVIOUS
  <2>2. StandsBefore(q, c, x)
    BY <1>5, <2>1 DEF StandsAhead
  <2>3. StandsBefore(q, c, y)
    <3>1. CASE q.list = "series"
      <4>1. <<x>> = <<y>>
        BY <1>1, <3>1 DEF Standing
      <4>2. x = y
        BY <4>1
      <4> QED BY <2>2, <4>2
    <3>2. CASE q.list # "series" /\ q.mode = "revisions"
      <4>1. <<x.id>> = <<y.id>>
        BY <1>1, <3>2 DEF Standing
      <4>2. x.id = y.id
        BY <4>1
      <4>3. x \in revisions' /\ y \in revisions'
        BY <1>2, <1>3, <3>2 DEF Universe, Visible
      <4>4. x = y
        BY <4>2, <4>3 DEF RevisionsKept, RowsInv
      <4> QED BY <2>2, <4>4
    <3>3. CASE q.list # "series" /\ q.mode # "revisions"
      <4>1. <<x.of, x.obs>> = <<y.of, y.obs>>
        BY <1>1, <3>3 DEF Standing
      <4>2. x.of = y.of /\ x.obs = y.obs
        BY <4>1
      <4> QED BY <2>2, <3>3, <4>2 DEF StandsBefore
    <3> QED BY <3>1, <3>2, <3>3
  <2>4. StandsAhead(q, items, y)
    BY <2>1, <2>3 DEF StandsAhead
  <2> QED BY <1>1, <2>4
<1> QED BY <1>4, <1>5

LEMMA ReaderStays ==
    ASSUME RevisionsKept, CreatedInv, SeriesKept, NEW u, ReaderStands(u)
    PROVE  ReaderStands(u)'
<1>1. PICK q, items, settled : q = u.request /\ items = u.items /\ settled = u.settled
  OBVIOUS
<1>2. ItemsStand(q, items, settled)
  BY <1>1 DEF ReaderStands
<1>3. q \in WalkRequest
  BY <1>2 DEF ItemsStand
<1>4. ItemsStand(q, items, settled)' /\ (settled => ListRows(q)' = ListRows(q))
  BY <1>2, ItemsStay
<1>5. ASSUME NEW st \in u.owed
      PROVE  \/ Got(q, items, st)
             \/ \E x : x \in ListRows(q)' /\ Standing(q, x) = st /\ StandsAhead(q, items, x)
  <2>1. \/ Got(q, items, st)
        \/ \E x \in ListRows(q) : Standing(q, x) = st /\ StandsAhead(q, items, x)
    BY <1>1 DEF ReaderStands
  <2>2. CASE Got(q, items, st)
    BY <2>2
  <2>3. CASE \E x \in ListRows(q) : Standing(q, x) = st /\ StandsAhead(q, items, x)
    <3>1. PICK x \in ListRows(q) : Standing(q, x) = st /\ StandsAhead(q, items, x)
      BY <2>3
    <3>2. PICK y : y \in ListRows(q)' /\ Standing(q, y) = Standing(q, x) /\ StandsAhead(q, items, y)
      BY <1>3, <3>1, AheadStays
    <3> QED BY <3>1, <3>2
  <2> QED BY <2>1, <2>2, <2>3
<1>6. u.more => \E x : x \in ListRows(q)' /\ StandsAhead(q, items, x)
  <2> SUFFICES ASSUME u.more
               PROVE  \E x : x \in ListRows(q)' /\ StandsAhead(q, items, x)
    OBVIOUS
  <2>1. PICK x \in ListRows(q) : StandsAhead(q, items, x)
    BY <1>1 DEF ReaderStands
  <2>2. PICK y : y \in ListRows(q)' /\ Standing(q, y) = Standing(q, x) /\ StandsAhead(q, items, y)
    BY <1>3, <2>1, AheadStays
  <2> QED BY <2>2
<1>7. settled => \A x \in ListRows(q)' : (\E n \in 1..Len(items) : items[n] = x) \/ Ahead(q, items, x)
  <2> SUFFICES ASSUME settled, NEW x \in ListRows(q)'
               PROVE  (\E n \in 1..Len(items) : items[n] = x) \/ Ahead(q, items, x)
    OBVIOUS
  <2>1. x \in ListRows(q)
    BY <1>4
  <2> QED BY <1>1, <2>1 DEF ReaderStands
<1>8. ItemsStand(u.request, u.items, u.settled)'
  BY <1>1, <1>4
<1>9. \A st \in u.owed : \/ Got(u.request, u.items, st)
                         \/ \E x \in ListRows(u.request)' : Standing(u.request, x) = st /\ StandsAhead(u.request, u.items, x)
  BY <1>1, <1>5
<1>10. u.more => \E x \in ListRows(u.request)' : StandsAhead(u.request, u.items, x)
  BY <1>1, <1>6
<1>11. u.settled => \A x \in ListRows(u.request)' :
                        (\E n \in 1..Len(u.items) : u.items[n] = x) \/ Ahead(u.request, u.items, x)
  BY <1>1, <1>7
<1>12. /\ u = [phase |-> "reading", request |-> u.request, cursor |-> u.cursor, items |-> u.items,
               more |-> u.more, owed |-> u.owed, settled |-> u.settled]
       /\ u.cursor = IF u.items = <<>> THEN <<>> ELSE CursorOf(u.request, u.items[Len(u.items)])
  BY DEF ReaderStands
<1> QED BY <1>8, <1>9, <1>10, <1>11, <1>12 DEF ReaderStands, Got, StandsAhead, Ahead, Standing, StandsBefore, Comes, Prec, CursorOf

LEMMA WalkStays ==
    ASSUME RevisionsKept, NEW w, WalkStands(w)
    PROVE  WalkStands(w)'
<1>1. PICK q, items, settled : q = w.request /\ items = w.items /\ settled = w.settled
  OBVIOUS
<1>2. ItemsStand(q, items, settled)
  BY <1>1 DEF WalkStands
<1>3. ItemsStand(q, items, settled)' /\ (settled => ListRows(q)' = ListRows(q))
  BY <1>2, ItemsStay
<1>4. settled => \A x \in ListRows(q)' : \E n \in 1..Len(items) : items[n] = x
  BY <1>1, <1>3 DEF WalkStands
<1>5. ItemsStand(w.request, w.items, w.settled)'
  BY <1>1, <1>3
<1>6. w.settled => \A x \in ListRows(w.request)' : \E n \in 1..Len(w.items) : w.items[n] = x
  BY <1>1, <1>4
<1>7. (\A st \in w.owed : Got(w.request, w.items, st)) /\ (w.promised => w.last # <<>>)
  BY DEF WalkStands
<1> QED BY <1>5, <1>6, <1>7 DEF WalkStands

-----------------------------------------------------------------------------
(* A page is put behind the items so far.                                  *)

\* rows: what is ahead of the items, in order; k of them are added.
Rest(rows, q, items) ==
    /\ rows \in Seq(ListRows(q))
    /\ \A i \in 1..Len(rows) : Ahead(q, items, rows[i])
    /\ \A x \in ListRows(q) : Ahead(q, items, x) => \E i \in 1..Len(rows) : rows[i] = x
    /\ \A i, j \in 1..Len(rows) : i < j => Prec(q, rows[i], rows[j])

Extended(new, items, rows, k) ==
    /\ k \in 0..Len(rows)
    /\ Len(new) = Len(items) + k
    /\ \A n \in 1..Len(items) : new[n] = items[n]
    /\ \A i \in 1..k : new[Len(items) + i] = rows[i]

PageFits(page, rows, k, q, items) ==
    /\ Rest(rows, q, items)
    /\ Extended(items \o page.items, items, rows, k)
    /\ items \o page.items \in Seq(Universe(q))
    /\ k = Len(page.items) /\ page.items \in Seq(ListRows(q))
    /\ page.more = (Len(rows) > k)
    /\ Len(rows) > k => k \in Nat \ {0} /\ page.cursor = CursorOf(q, rows[k])

LEMMA PageExtends ==
    ASSUME RowsInv, CreatedInv, NEW q, NEW items, NEW settled, ItemsStand(q, items, settled), NEW cursor,
           cursor = IF items = <<>> THEN <<>> ELSE CursorOf(q, items[Len(items)]),
           NEW page, page = Page(q, cursor)
    PROVE  \E rows, k : PageFits(page, rows, k, q, items)
<1>0. q \in WalkRequest
  BY DEF ItemsStand
<1>1. PICK T, U : T = ListRows(q) /\ U = Universe(q)
  OBVIOUS
<1>2. T \subseteq U
  BY <1>1, ListInUniverse
<1>3. PICK key : key = [x \in ListRows(q) |-> CursorOf(q, x)]
  OBVIOUS
<1>4. /\ DOMAIN key = T
      /\ \A x, y \in T : Before(key[x], key[y]) <=> Prec(q, x, y)
      /\ \A x \in T : key[x] = CursorOf(q, x)
  BY <1>0, <1>1, <1>3, ListIsOrdered
<1>5. PICK rows : Behind(rows, key, cursor) /\ PageOf(page, rows, q, cursor)
  BY <1>0, <1>3, PageIs
<1>6. ASSUME NEW x \in T PROVE (cursor = <<>> \/ Before(cursor, key[x])) <=> Ahead(q, items, x)
  <2>1. CASE items = <<>>
    BY <2>1 DEF Ahead
  <2>2. CASE items # <<>>
    <3>1. cursor = CursorOf(q, items[Len(items)])
      BY <2>2
    <3>2. cursor # <<>>
      BY <3>1 DEF CursorOf, SeriesKey, CombinedKey, RevisionKey, ObservationKey
    <3> QED BY <1>4, <2>2, <3>1, <3>2 DEF Ahead, Prec
  <2> QED BY <2>1, <2>2
<1>7. rows \in Seq(T) /\ Len(rows) \in Nat /\ \A i \in 1..Len(rows) : rows[i] \in T
  BY <1>4, <1>5 DEF Behind
<1>8. Rest(rows, q, items)
  <2>1. \A i \in 1..Len(rows) : Ahead(q, items, rows[i])
    BY <1>5, <1>6, <1>7 DEF Behind
  <2>2. \A x \in T : Ahead(q, items, x) => \E i \in 1..Len(rows) : rows[i] = x
    BY <1>4, <1>5, <1>6 DEF Behind
  <2>3. \A i, j \in 1..Len(rows) : i < j => Prec(q, rows[i], rows[j])
    BY <1>4, <1>5, <1>7 DEF Behind
  <2> QED BY <1>1, <1>7, <2>1, <2>2, <2>3 DEF Rest
<1>9. PICK l \in Nat \ {0} : l = q.limit
  BY <1>0, TimelineAssumption
<1>10. PICK pi : pi = page.items
  OBVIOUS
<1>11. /\ pi \in Seq(T) /\ Len(pi) \in Nat
       /\ Len(pi) = IF l <= Len(rows) THEN l ELSE Len(rows)
       /\ \A i \in 1..Len(pi) : pi[i] = rows[i]
       /\ page.more = (Len(rows) > l)
       /\ page.cursor = IF Len(rows) > l THEN CursorOf(q, rows[l]) ELSE cursor
  BY <1>1, <1>5, <1>9, <1>10 DEF PageOf
<1>12. PICK k \in Nat : k = Len(pi)
  BY <1>11
<1>13. k \in 0..Len(rows) /\ page.more = (Len(rows) > k)
  BY <1>7, <1>11, <1>12
<1>14. Len(rows) > k => k \in Nat \ {0} /\ page.cursor = CursorOf(q, rows[k])
  <2> SUFFICES ASSUME Len(rows) > k PROVE k \in Nat \ {0} /\ page.cursor = CursorOf(q, rows[k])
    OBVIOUS
  <2>1. Len(rows) > l
    BY <1>7, <1>11, <1>12
  <2>2. k = l
    BY <1>7, <1>11, <1>12, <2>1
  <2>3. page.cursor = CursorOf(q, rows[l])
    BY <1>11, <2>1
  <2> QED BY <2>2, <2>3
<1>15. items \in Seq(U) /\ pi \in Seq(U)
  BY <1>1, <1>2, <1>11 DEF ItemsStand
<1>16. PICK new : new = items \o pi
  OBVIOUS
<1>17. /\ new \in Seq(U) /\ Len(new) = Len(items) + Len(pi) /\ Len(items) \in Nat
       /\ \A i \in 1..(Len(items) + Len(pi)) :
             new[i] = IF i <= Len(items) THEN items[i] ELSE pi[i - Len(items)]
  BY <1>15, <1>16, ConcatProperties
<1>18. Extended(new, items, rows, k)
  <2>1. \A n \in 1..Len(items) : new[n] = items[n]
    BY <1>11, <1>17
  <2>2. ASSUME NEW i \in 1..k PROVE new[Len(items) + i] = rows[i]
    <3>1. PICK j \in Nat : j = Len(items) + i
      BY <1>17
    <3>2. j \in 1..(Len(items) + Len(pi)) /\ ~(j <= Len(items)) /\ j - Len(items) = i
      BY <1>12, <1>17, <3>1
    <3>3. new[j] = pi[i]
      BY <1>17, <3>2
    <3> QED BY <1>11, <1>12, <3>1, <3>3
  <2> QED BY <1>12, <1>13, <1>17, <2>1, <2>2 DEF Extended
<1> QED BY <1>1, <1>8, <1>10, <1>11, <1>12, <1>13, <1>14, <1>16, <1>17, <1>18 DEF PageFits

\* The longer list is in order, too.
LEMMA ItemsExtend ==
    ASSUME RowsInv, CreatedInv, NEW q, NEW items, NEW settled, ItemsStand(q, items, settled),
           NEW rows, NEW k, NEW new, Rest(rows, q, items), Extended(new, items, rows, k),
           new \in Seq(Universe(q))
    PROVE  ItemsStand(q, new, settled)
<1>0. q \in WalkRequest
  BY DEF ItemsStand
<1>1. PICK T, U : T = ListRows(q) /\ U = Universe(q)
  OBVIOUS
<1>2. T \subseteq U
  BY <1>1, ListInUniverse
<1>3. \A x, y, z \in U : Prec(q, x, y) /\ Prec(q, y, z) => Prec(q, x, z)
  BY <1>0, <1>1, PrecOrders
<1>4. PICK l \in Nat : l = Len(items)
  BY DEF ItemsStand
<1>5. (\A n \in 1..l : items[n] \in U) /\ \A m, n \in 1..l : m < n => Prec(q, items[m], items[n])
  BY <1>1, <1>4 DEF ItemsStand
<1>6. /\ Len(rows) \in Nat /\ \A i \in 1..Len(rows) : rows[i] \in T /\ rows[i] \in U /\ Ahead(q, items, rows[i])
      /\ \A i, j \in 1..Len(rows) : i < j => Prec(q, rows[i], rows[j])
  BY <1>1, <1>2 DEF Rest
<1>7. /\ k \in Nat /\ k <= Len(rows) /\ Len(new) = l + k
      /\ \A n \in 1..l : new[n] = items[n]
      /\ \A i \in 1..k : new[l + i] = rows[i]
  BY <1>4, <1>6 DEF Extended
<1>8. \A n \in 1..(l + k) : (n \in 1..l /\ new[n] = items[n]) \/ (n - l \in 1..k /\ new[n] = rows[n - l] /\ n > l)
  <2> SUFFICES ASSUME NEW n \in 1..(l + k), ~(n \in 1..l)
               PROVE  n - l \in 1..k /\ new[n] = rows[n - l] /\ n > l
    BY <1>7
  <2>1. n - l \in 1..k /\ l + (n - l) = n
    BY <1>7
  <2> QED BY <1>7, <2>1
<1>9. ASSUME NEW n \in 1..l, NEW i \in 1..Len(rows) PROVE Prec(q, items[n], rows[i])
  <2>1. items # <<>>
    BY <1>4
  <2>2. Prec(q, items[l], rows[i])
    BY <1>4, <1>6, <2>1 DEF Ahead
  <2>3. l \in 1..l /\ (n = l \/ n < l)
    OBVIOUS
  <2>4. items[n] \in U /\ items[l] \in U /\ rows[i] \in U
    BY <1>5, <1>6, <2>3
  <2>5. n = l \/ Prec(q, items[n], items[l])
    BY <1>5, <2>3
  <2> QED BY <1>3, <2>2, <2>4, <2>5
<1>10. ASSUME NEW m \in 1..(l + k), NEW n \in 1..(l + k), m < n PROVE Prec(q, new[m], new[n])
  <2>1. CASE n \in 1..l
    <3>1. m \in 1..l
      BY <1>10, <2>1
    <3> QED BY <1>5, <1>7, <1>10, <2>1, <3>1
  <2>2. CASE n \notin 1..l /\ m \in 1..l
    <3>1. n - l \in 1..k /\ new[n] = rows[n - l]
      BY <1>8, <2>2
    <3>2. n - l \in 1..Len(rows)
      BY <1>6, <1>7, <3>1
    <3> QED BY <1>7, <1>9, <2>2, <3>1, <3>2
  <2>3. CASE n \notin 1..l /\ m \notin 1..l
    <3>1. n - l \in 1..k /\ new[n] = rows[n - l] /\ m - l \in 1..k /\ new[m] = rows[m - l]
      BY <1>8, <2>3
    <3>2. n - l \in 1..Len(rows) /\ m - l \in 1..Len(rows) /\ m - l < n - l
      BY <1>6, <1>7, <1>10, <3>1
    <3> QED BY <1>6, <3>1, <3>2
  <2> QED BY <2>1, <2>2, <2>3
<1>11. settled => \A n \in 1..(l + k) : new[n] \in T
  <2> SUFFICES ASSUME settled, NEW n \in 1..(l + k) PROVE new[n] \in T
    OBVIOUS
  <2>1. CASE n \in 1..l
    <3>1. items[n] \in T
      BY <1>1, <1>4, <2>1 DEF ItemsStand
    <3> QED BY <1>7, <2>1, <3>1
  <2>2. CASE n \notin 1..l
    <3>1. n - l \in 1..k /\ new[n] = rows[n - l]
      BY <1>8, <2>2
    <3>2. n - l \in 1..Len(rows)
      BY <1>6, <1>7, <3>1
    <3> QED BY <1>6, <3>1, <3>2
  <2> QED BY <2>1, <2>2
<1>12. settled \in BOOLEAN /\ (settled => FixedList(q))
  BY DEF ItemsStand
<1>13. \A m, n \in 1..Len(new) : m < n => Prec(q, new[m], new[n])
  BY <1>7, <1>10
<1>14. settled => \A n \in 1..Len(new) : new[n] \in ListRows(q)
  BY <1>1, <1>7, <1>11
<1> QED BY <1>0, <1>12, <1>13, <1>14 DEF ItemsStand

\* What was ahead is among the longer list, or still ahead of it.
LEMMA RestExtends ==
    ASSUME RowsInv, CreatedInv, NEW q, NEW items, NEW settled, ItemsStand(q, items, settled),
           NEW rows, NEW k, NEW new, Rest(rows, q, items), Extended(new, items, rows, k),
           new \in Seq(Universe(q)), k = Len(rows) \/ k # 0, NEW x \in ListRows(q)
    PROVE  /\ \A n \in 1..Len(items) : n \in 1..Len(new) /\ new[n] = items[n]
           /\ StandsAhead(q, items, x) => Ahead(q, items, x)
           /\ Ahead(q, items, x) =>
                 \/ \E n \in 1..Len(new) : new[n] = x
                 \/ k # Len(rows) /\ Ahead(q, new, x) /\ StandsAhead(q, new, x)
           /\ k < Len(rows) => new # <<>> /\ new[Len(new)] = rows[k]
                               /\ \E y \in ListRows(q) : StandsAhead(q, new, y)
<1>0. q \in WalkRequest
  BY DEF ItemsStand
<1>1. PICK T, U : T = ListRows(q) /\ U = Universe(q)
  OBVIOUS
<1>2. T \subseteq U
  BY <1>1, ListInUniverse
<1>3. PICK l \in Nat : l = Len(items)
  BY DEF ItemsStand
<1>4. (\A n \in 1..l : items[n] \in U)
  BY <1>1, <1>3 DEF ItemsStand
<1>5. /\ Len(rows) \in Nat /\ \A i \in 1..Len(rows) : rows[i] \in T /\ rows[i] \in U
      /\ \A i, j \in 1..Len(rows) : i < j => Prec(q, rows[i], rows[j])
      /\ Ahead(q, items, x) => \E i \in 1..Len(rows) : rows[i] = x
  BY <1>1, <1>2 DEF Rest
<1>6. /\ k \in Nat /\ k <= Len(rows) /\ Len(new) = l + k
      /\ \A n \in 1..l : new[n] = items[n]
      /\ \A i \in 1..k : new[l + i] = rows[i]
  BY <1>3, <1>5 DEF Extended
<1>7. StandsAhead(q, items, x) => Ahead(q, items, x)
  <2> SUFFICES ASSUME StandsAhead(q, items, x), items # <<>> PROVE Prec(q, items[l], x)
    BY <1>3 DEF Ahead
  <2>1. l # 0
    BY <1>3 DEF ItemsStand
  <2>2. items[l] \in U /\ x \in U
    BY <1>1, <1>2, <1>4, <2>1
  <2>3. StandsBefore(q, items[l], x)
    BY <1>3 DEF StandsAhead
  <2> QED BY <1>0, <1>1, <2>2, <2>3, StandingsOrder
<1>8. ASSUME k < Len(rows), NEW i \in 1..Len(rows), i > k
      PROVE  Ahead(q, new, rows[i]) /\ StandsAhead(q, new, rows[i])
  <2>1. k \in 1..Len(rows) /\ k \in 1..k
    BY <1>5, <1>6, <1>8
  <2>2. new[Len(new)] = rows[k]
    BY <1>6, <2>1
  <2>3. Prec(q, rows[k], rows[i])
    BY <1>5, <1>8, <2>1
  <2>4. ~Prec(q, rows[i], rows[i])
    BY <1>0, <1>1, <1>5, PrecOrders
  <2>5. rows[k] # rows[i]
    BY <2>3, <2>4
  <2>6. Standing(q, rows[k]) # Standing(q, rows[i])
    BY <1>0, <1>1, <1>5, <2>1, <2>5, OneOfEach
  <2>7. StandsBefore(q, rows[k], rows[i])
    BY <1>0, <1>1, <1>5, <2>1, <2>3, <2>6, StandingsOrder
  <2> QED BY <2>2, <2>3, <2>7 DEF Ahead, StandsAhead
<1>9. Ahead(q, items, x) =>
         \/ \E n \in 1..Len(new) : new[n] = x
         \/ k # Len(rows) /\ Ahead(q, new, x) /\ StandsAhead(q, new, x)
  <2> SUFFICES ASSUME Ahead(q, items, x)
               PROVE  \/ \E n \in 1..Len(new) : new[n] = x
                      \/ k # Len(rows) /\ Ahead(q, new, x) /\ StandsAhead(q, new, x)
    OBVIOUS
  <2>1. PICK i \in 1..Len(rows) : rows[i] = x
    BY <1>5
  <2>2. CASE i <= k
    <3>1. i \in 1..k /\ l + i \in 1..Len(new)
      BY <1>6, <2>2
    <3> QED BY <1>6, <2>1, <3>1
  <2>3. CASE i > k
    <3>1. k < Len(rows)
      BY <1>5, <1>6, <2>3
    <3> QED BY <1>6, <1>8, <2>1, <2>3, <3>1
  <2> QED BY <1>6, <2>2, <2>3
<1>10. ASSUME k < Len(rows)
       PROVE  new # <<>> /\ new[Len(new)] = rows[k] /\ \E y \in ListRows(q) : StandsAhead(q, new, y)
  <2>1. k \in 1..k /\ k + 1 \in 1..Len(rows) /\ k + 1 > k /\ Len(new) # 0
    BY <1>5, <1>6, <1>10
  <2>2. new[Len(new)] = rows[k]
    BY <1>6, <2>1
  <2>3. new # <<>>
    BY <2>1
  <2>4. rows[k + 1] \in T /\ StandsAhead(q, new, rows[k + 1])
    BY <1>5, <1>8, <1>10, <2>1
  <2> QED BY <1>1, <2>2, <2>3, <2>4
<1>11. \A n \in 1..Len(items) : n \in 1..Len(new) /\ new[n] = items[n]
  <2> SUFFICES ASSUME NEW n \in 1..l
               PROVE  n \in 1..Len(new) /\ new[n] = items[n]
    BY <1>3
  <2>1. n \in Nat /\ 1 <= n /\ n <= l + k
    BY <1>6
  <2>2. n \in 1..Len(new)
    BY <1>6, <2>1
  <2> QED BY <1>6, <2>2
<1> QED BY <1>7, <1>9, <1>10, <1>11

-----------------------------------------------------------------------------
(* The timeline's steps.                                                   *)

LEMMA TimelineGoesOn ==
    ASSUME RevisionsKept, CreatedInv, SeriesKept, NEW u, reader' = u, u = NoReader \/ ReaderStands(u),
           NEW ws, walks' = ws, IsSeq(ws), \A n \in DOMAIN ws : WalkStands(ws[n])
    PROVE  TimelineInv'
<1>1. u = NoReader \/ ReaderStands(u)'
  BY ReaderStays
<1>2. \A n \in DOMAIN ws : WalkStands(ws[n])'
  <2> SUFFICES ASSUME NEW n \in DOMAIN ws PROVE WalkStands(ws[n])'
    OBVIOUS
  <2>1. PICK w : w = ws[n]
    OBVIOUS
  <2>2. WalkStands(w)
    BY <2>1
  <2>3. WalkStands(w)'
    BY <2>2, WalkStays
  <2> QED BY <2>1, <2>3
<1>3. CreatedInv'
  BY DEF SeriesKept
<1>4. reader' = NoReader \/ ReaderStands(reader)'
  BY <1>1
<1>5. IsSeq(walks)'
  BY DEF IsSeq, ToSet
<1>6. \A n \in DOMAIN walks' : WalkStands(walks[n])'
  BY <1>2
<1> QED BY <1>3, <1>4, <1>5, <1>6 DEF TimelineInv

\* Others insert rows, or nothing is done.
LEMMA TimelineStays ==
    ASSUME RevisionsKept, TimelineInv, UNCHANGED timelineVars
    PROVE  TimelineInv'
<1>1. created' = created /\ reader' = reader /\ walks' = walks
  BY DEF timelineVars
<1>2. SeriesKept /\ CreatedInv
  BY <1>1 DEF TimelineInv, SeriesKept, CreatedInv
<1>3. PICK u, ws : u = reader /\ ws = walks
  OBVIOUS
<1>4. (u = NoReader \/ ReaderStands(u)) /\ IsSeq(ws) /\ \A n \in DOMAIN ws : WalkStands(ws[n])
  BY <1>3 DEF TimelineInv
<1> QED BY <1>1, <1>2, <1>3, <1>4, TimelineGoesOn

LEMMA InsertSeriesKeeps ==
    ASSUME RowsInv, TimelineInv, UNCHANGED revisionVars, NEW s \in LaterSeries, InsertSeries(s)
    PROVE  TimelineInv'
<1>0. RevisionsKept
  BY UnchangedKeeps
<1>1. reader' = reader /\ walks' = walks /\ DOMAIN created' = DOMAIN created \cup {s}
  BY DEF InsertSeries
<1>2. s \in DOMAIN SeriesRow
  BY TimelineAssumption
<1>3. SeriesKept /\ CreatedInv
  BY <1>1, <1>2 DEF TimelineInv, SeriesKept, CreatedInv
<1>4. PICK u, ws : u = reader /\ ws = walks
  OBVIOUS
<1>5. (u = NoReader \/ ReaderStands(u)) /\ IsSeq(ws) /\ \A n \in DOMAIN ws : WalkStands(ws[n])
  BY <1>4 DEF TimelineInv
<1> QED BY <1>0, <1>1, <1>3, <1>4, <1>5, TimelineGoesOn

\* Every row is listed when the limit is no limit.
LEMMA ListedIsList ==
    ASSUME RowsInv, CreatedInv, NEW q \in WalkRequest, NEW n \in Nat
    PROVE  \A x \in ToSet(Listed(q, <<>>, n)) : x \in ListRows(q)
<1>1. PICK key : key = [x \in ListRows(q) |-> CursorOf(q, x)]
  OBVIOUS
<1>2. DOMAIN key = ListRows(q) /\ IsFiniteSet(DOMAIN key) /\ Ordered(key)
  BY <1>1, ListIsOrdered
<1>3. PICK rows : Behind(rows, key, <<>>) /\ \A m : Keyset(key, <<>>, m) = FirstOf(rows, m)
  BY <1>2, KeysetIs
<1>4. PICK T : T = ListRows(q)
  OBVIOUS
<1>5. rows \in Seq(T)
  BY <1>2, <1>3, <1>4 DEF Behind
<1>6. PICK f : f = Listed(q, <<>>, n)
  OBVIOUS
<1>7. f = FirstOf(rows, n)
  BY <1>1, <1>3, <1>6, ListedIs
<1>8. f \in Seq(T)
  BY <1>5, <1>7, FrontIs
<1>9. \A x \in ToSet(f) : x \in T
  BY <1>8 DEF ToSet
<1> QED BY <1>4, <1>6, <1>9

LEMMA EverythingCounts ==
    ASSUME RowsInv
    PROVE  Everything \in Nat
<1>1. Cardinality(revisions) \in Nat /\ Cardinality(DOMAIN SeriesRow) \in Nat
  BY TimelineAssumption, FS_CardinalityType DEF RowsInv
<1> QED BY <1>1 DEF Everything

LEMMA BeginWalkKeeps ==
    ASSUME RowsInv, TimelineInv, UNCHANGED revisionVars, NEW q \in WalkRequest, BeginWalk(q)
    PROVE  TimelineInv'
<1>0. RevisionsKept
  BY UnchangedKeeps
<1>1. created' = created /\ walks' = walks
  BY DEF BeginWalk
<1>2. SeriesKept /\ CreatedInv
  BY <1>1 DEF TimelineInv, SeriesKept, CreatedInv
<1>3. PICK owed : owed = {Standing(q, x) : x \in ToSet(Listed(q, <<>>, Everything))}
  OBVIOUS
<1>4. PICK fixed : fixed = FixedList(q) /\ fixed \in BOOLEAN
  BY DEF FixedList
<1>5. PICK u : u = [phase |-> "reading", request |-> q, cursor |-> <<>>, items |-> <<>>, more |-> FALSE,
                    owed |-> owed, settled |-> fixed]
  OBVIOUS
<1>6. reader' = u
  BY <1>3, <1>4, <1>5 DEF BeginWalk, FixedList
<1>7. /\ u.request = q /\ u.cursor = <<>> /\ u.items = <<>> /\ u.more = FALSE /\ u.owed = owed /\ u.settled = fixed
      /\ u = [phase |-> "reading", request |-> u.request, cursor |-> u.cursor, items |-> u.items,
              more |-> u.more, owed |-> u.owed, settled |-> u.settled]
  BY <1>5
<1>8. ItemsStand(q, <<>>, fixed)
  <2>1. <<>> \in Seq(Universe(q)) /\ Len(<<>>) = 0
    OBVIOUS
  <2> QED BY <1>4, <2>1 DEF ItemsStand
<1>9. ASSUME NEW st \in owed PROVE \E x \in ListRows(q) : Standing(q, x) = st /\ StandsAhead(q, <<>>, x)
  <2>1. PICK x \in ToSet(Listed(q, <<>>, Everything)) : st = Standing(q, x)
    BY <1>3
  <2>2. x \in ListRows(q)
    BY <1>2, <2>1, EverythingCounts, ListedIsList
  <2> QED BY <2>1, <2>2 DEF StandsAhead
<1>10. \A x \in ListRows(q) : Ahead(q, <<>>, x)
  BY DEF Ahead
<1>11. ReaderStands(u)
  BY <1>7, <1>8, <1>9, <1>10 DEF ReaderStands
<1>12. PICK ws : ws = walks
  OBVIOUS
<1>13. IsSeq(ws) /\ \A n \in DOMAIN ws : WalkStands(ws[n])
  BY <1>12 DEF TimelineInv
<1> QED BY <1>0, <1>1, <1>2, <1>6, <1>11, <1>12, <1>13, TimelineGoesOn

LEMMA NextPageStands ==
    ASSUME RowsInv, CreatedInv, NEW u, ReaderStands(u), NEW page, page = Page(u.request, u.cursor), page.more,
           NEW v, v = [phase |-> "reading", request |-> u.request, cursor |-> page.cursor,
                       items |-> u.items \o page.items, more |-> page.more, owed |-> u.owed,
                       settled |-> u.settled]
    PROVE  ReaderStands(v)
<1>1. PICK q, items, settled, new, owed :
        q = u.request /\ items = u.items /\ settled = u.settled /\ new = items \o page.items /\ owed = u.owed
  OBVIOUS
<1>2. ItemsStand(q, items, settled)
  BY <1>1 DEF ReaderStands
<1>3. PICK c : c = u.cursor /\ c = IF items = <<>> THEN <<>> ELSE CursorOf(q, items[Len(items)])
  BY <1>1 DEF ReaderStands
<1>4. page = Page(q, c)
  BY <1>1, <1>3
<1>5. PICK rows, k : PageFits(page, rows, k, q, items)
  BY <1>2, <1>3, <1>4, PageExtends
<1>6. /\ Rest(rows, q, items) /\ Extended(new, items, rows, k) /\ new \in Seq(Universe(q))
      /\ page.more = (Len(rows) > k)
      /\ Len(rows) > k => k \in Nat \ {0} /\ page.cursor = CursorOf(q, rows[k])
  BY <1>1, <1>5 DEF PageFits
<1>7. k \in Nat \ {0} /\ Len(rows) \in Nat /\ k < Len(rows) /\ page.cursor = CursorOf(q, rows[k])
  <2>1. Len(rows) > k /\ k \in Nat \ {0} /\ page.cursor = CursorOf(q, rows[k])
    BY <1>6, Zenon
  <2>2. Len(rows) \in Nat
    BY <1>6 DEF Rest
  <2> QED BY <2>1, <2>2
<1>8. ItemsStand(q, new, settled)
  BY <1>2, <1>6, ItemsExtend
<1>9. ASSUME NEW x \in ListRows(q)
      PROVE  /\ StandsAhead(q, items, x) => Ahead(q, items, x)
             /\ Ahead(q, items, x) =>
                   \/ \E n \in 1..Len(new) : new[n] = x
                   \/ Ahead(q, new, x) /\ StandsAhead(q, new, x)
  BY <1>2, <1>6, <1>7, RestExtends
<1>10. PICK z : z \in ListRows(q)
  <2>1. Len(rows) \in 1..Len(rows)
    BY <1>7
  <2> QED BY <1>6, <2>1 DEF Rest
<1>11. /\ \A n \in 1..Len(items) : n \in 1..Len(new) /\ new[n] = items[n]
      /\ new # <<>> /\ new[Len(new)] = rows[k] /\ \E y \in ListRows(q) : StandsAhead(q, new, y)
  BY <1>2, <1>6, <1>7, <1>10, RestExtends
<1>12. ASSUME NEW st \in owed
       PROVE  Got(q, new, st) \/ \E x \in ListRows(q) : Standing(q, x) = st /\ StandsAhead(q, new, x)
  <2>1. CASE Got(q, items, st)
    BY <1>11, <2>1 DEF Got
  <2>2. CASE \E x \in ListRows(q) : Standing(q, x) = st /\ StandsAhead(q, items, x)
    <3>1. PICK x \in ListRows(q) : Standing(q, x) = st /\ StandsAhead(q, items, x)
      BY <2>2
    <3>2. (\E n \in 1..Len(new) : new[n] = x) \/ StandsAhead(q, new, x)
      BY <1>9, <3>1
    <3> QED BY <3>1, <3>2 DEF Got
  <2> QED BY <1>1, <2>1, <2>2 DEF ReaderStands
<1>13. settled => \A x \in ListRows(q) : (\E n \in 1..Len(new) : new[n] = x) \/ Ahead(q, new, x)
  <2> SUFFICES ASSUME settled, NEW x \in ListRows(q)
               PROVE  (\E n \in 1..Len(new) : new[n] = x) \/ Ahead(q, new, x)
    OBVIOUS
  <2>1. (\E n \in 1..Len(items) : items[n] = x) \/ Ahead(q, items, x)
    BY <1>1 DEF ReaderStands
  <2> QED BY <1>9, <1>11, <2>1
<1>14. /\ v.request = q /\ v.cursor = page.cursor /\ v.items = new /\ v.owed = owed /\ v.settled = settled
       /\ v = [phase |-> "reading", request |-> v.request, cursor |-> v.cursor, items |-> v.items,
               more |-> v.more, owed |-> v.owed, settled |-> v.settled]
  BY <1>1
<1>15. v.cursor = IF v.items = <<>> THEN <<>> ELSE CursorOf(v.request, v.items[Len(v.items)])
  BY <1>7, <1>11, <1>14
<1>16. ItemsStand(v.request, v.items, v.settled)
  BY <1>8, <1>14
<1>17. \A st \in v.owed : \/ Got(v.request, v.items, st)
                         \/ \E x \in ListRows(v.request) : Standing(v.request, x) = st /\ StandsAhead(v.request, v.items, x)
  <2>1. v.request = q /\ v.items = new /\ v.owed = owed
    BY <1>14
  <2> QED BY <1>12, <2>1, Zenon
<1>18. \E x \in ListRows(v.request) : StandsAhead(v.request, v.items, x)
  BY <1>11, <1>14
<1>19. v.settled => \A x \in ListRows(v.request) :
                       (\E n \in 1..Len(v.items) : v.items[n] = x) \/ Ahead(v.request, v.items, x)
  BY <1>13, <1>14
<1>20. v = [phase |-> "reading", request |-> v.request, cursor |-> v.cursor, items |-> v.items,
            more |-> v.more, owed |-> v.owed, settled |-> v.settled]
  BY <1>14
<1> QED BY <1>15, <1>16, <1>17, <1>18, <1>19, <1>20 DEF ReaderStands

LEMMA LastPageStands ==
    ASSUME RowsInv, CreatedInv, NEW u, ReaderStands(u), NEW page, page = Page(u.request, u.cursor), ~page.more,
           NEW w, w = [request |-> u.request, items |-> u.items \o page.items, owed |-> u.owed,
                       settled |-> u.settled, promised |-> u.more, last |-> page.items]
    PROVE  WalkStands(w)
<1>1. PICK q, items, settled, new, owed :
        q = u.request /\ items = u.items /\ settled = u.settled /\ new = items \o page.items /\ owed = u.owed
  OBVIOUS
<1>2. ItemsStand(q, items, settled)
  BY <1>1 DEF ReaderStands
<1>3. PICK c : c = u.cursor /\ c = IF items = <<>> THEN <<>> ELSE CursorOf(q, items[Len(items)])
  BY <1>1 DEF ReaderStands
<1>4. page = Page(q, c)
  BY <1>1, <1>3
<1>5. PICK rows, k : PageFits(page, rows, k, q, items)
  BY <1>2, <1>3, <1>4, PageExtends
<1>6. /\ Rest(rows, q, items) /\ Extended(new, items, rows, k) /\ new \in Seq(Universe(q))
      /\ page.more = (Len(rows) > k) /\ k = Len(page.items) /\ page.items \in Seq(ListRows(q))
  BY <1>1, <1>5 DEF PageFits
<1>7. Len(rows) \in Nat /\ k = Len(rows)
  <2>1. ~(Len(rows) > k)
    BY <1>6, Zenon
  <2>2. Len(rows) \in Nat /\ k \in 0..Len(rows)
    BY <1>6 DEF Rest, Extended
  <2> QED BY <2>1, <2>2
<1>8. ItemsStand(q, new, settled)
  BY <1>2, <1>6, ItemsExtend
<1>9. ASSUME NEW x \in ListRows(q)
      PROVE  /\ StandsAhead(q, items, x) => Ahead(q, items, x)
             /\ Ahead(q, items, x) => \E n \in 1..Len(new) : new[n] = x
             /\ \A n \in 1..Len(items) : n \in 1..Len(new) /\ new[n] = items[n]
  BY <1>2, <1>6, <1>7, RestExtends
<1>10. \A n \in 1..Len(items) : n \in 1..Len(new) /\ new[n] = items[n]
  BY <1>6, <1>7, <1>2 DEF Extended, ItemsStand
<1>11. ASSUME NEW st \in owed PROVE Got(q, new, st)
  <2>1. CASE Got(q, items, st)
    BY <1>10, <2>1 DEF Got
  <2>2. CASE \E x \in ListRows(q) : Standing(q, x) = st /\ StandsAhead(q, items, x)
    <3>1. PICK x \in ListRows(q) : Standing(q, x) = st /\ StandsAhead(q, items, x)
      BY <2>2
    <3>2. \E n \in 1..Len(new) : new[n] = x
      BY <1>9, <3>1
    <3> QED BY <3>1, <3>2 DEF Got
  <2> QED BY <1>1, <2>1, <2>2 DEF ReaderStands
<1>12. u.more => page.items # <<>>
  <2> SUFFICES ASSUME u.more PROVE page.items # <<>>
    OBVIOUS
  <2>1. PICK x \in ListRows(q) : StandsAhead(q, items, x)
    BY <1>1 DEF ReaderStands
  <2>2. PICK i \in 1..Len(rows) : rows[i] = x
    BY <1>6, <1>9, <2>1 DEF Rest
  <2>3. Len(page.items) # 0
    BY <1>6, <1>7, <2>2
  <2> QED BY <2>3
<1>13. settled => \A x \in ListRows(q) : \E n \in 1..Len(new) : new[n] = x
  <2> SUFFICES ASSUME settled, NEW x \in ListRows(q) PROVE \E n \in 1..Len(new) : new[n] = x
    OBVIOUS
  <2>1. (\E n \in 1..Len(items) : items[n] = x) \/ Ahead(q, items, x)
    BY <1>1 DEF ReaderStands
  <2> QED BY <1>9, <1>10, <2>1
<1>14. /\ w.request = q /\ w.items = new /\ w.owed = owed /\ w.settled = settled /\ w.promised = u.more
       /\ w.last = page.items
  BY <1>1
<1> QED BY <1>8, <1>11, <1>12, <1>13, <1>14 DEF WalkStands

LEMMA ReadPageKeeps ==
    ASSUME RowsInv, TimelineInv, UNCHANGED revisionVars, ReadPage
    PROVE  TimelineInv'
<1>0. RevisionsKept
  BY UnchangedKeeps
<1>1. created' = created /\ reader # NoReader
  BY DEF ReadPage
<1>2. SeriesKept /\ CreatedInv
  BY <1>1 DEF TimelineInv, SeriesKept, CreatedInv
<1>3. PICK u, ws : u = reader /\ ws = walks
  OBVIOUS
<1>4. ReaderStands(u) /\ IsSeq(ws) /\ \A n \in DOMAIN ws : WalkStands(ws[n])
  BY <1>1, <1>3 DEF TimelineInv
<1>5. PICK page : page = Page(u.request, u.cursor)
  OBVIOUS
<1>6. PICK next : next = [u EXCEPT !.items = @ \o page.items, !.more = page.more, !.cursor = page.cursor]
  OBVIOUS
<1>7. IF page.more THEN reader' = next /\ walks' = ws
      ELSE /\ reader' = NoReader
           /\ walks' = Append(ws, [request |-> u.request, items |-> next.items, owed |-> u.owed,
                                   settled |-> u.settled, promised |-> u.more, last |-> page.items])
  BY <1>3, <1>5, <1>6 DEF ReadPage
<1>8. next = [phase |-> "reading", request |-> u.request, cursor |-> page.cursor,
              items |-> u.items \o page.items, more |-> page.more, owed |-> u.owed, settled |-> u.settled]
  <2>1. PICK q, c, i, m, o, t : /\ u = [phase |-> "reading", request |-> q, cursor |-> c, items |-> i,
                                        more |-> m, owed |-> o, settled |-> t]
                                /\ q = u.request /\ i = u.items /\ o = u.owed /\ t = u.settled
    BY <1>4 DEF ReaderStands
  <2>2. next = [u EXCEPT !.items = i \o page.items, !.more = page.more, !.cursor = page.cursor]
    BY <1>6, <2>1
  <2>3. next = [phase |-> "reading", request |-> q, cursor |-> page.cursor,
                items |-> i \o page.items, more |-> page.more, owed |-> o, settled |-> t]
    BY <2>1, <2>2
  <2> QED BY <2>1, <2>3
<1>9. CASE page.more
  <2>1. ReaderStands(next)
    BY <1>2, <1>4, <1>5, <1>8, <1>9, NextPageStands
  <2> QED BY <1>0, <1>2, <1>4, <1>7, <1>9, <2>1, TimelineGoesOn
<1>10. CASE ~page.more
  <2>1. PICK w : w = [request |-> u.request, items |-> u.items \o page.items, owed |-> u.owed,
                      settled |-> u.settled, promised |-> u.more, last |-> page.items]
    OBVIOUS
  <2>2. WalkStands(w)
    BY <1>2, <1>4, <1>5, <1>10, <2>1, LastPageStands
  <2>3. next.items = u.items \o page.items
    BY <1>8
  <2>4. PICK us : us = Append(ws, w)
    OBVIOUS
  <2>5. reader' = NoReader /\ walks' = us
    BY <1>7, <1>10, <2>1, <2>3, <2>4
  <2>6. /\ IsSeq(us) /\ DOMAIN us = DOMAIN ws \cup {Len(ws) + 1}
        /\ (\A n \in DOMAIN ws : us[n] = ws[n]) /\ us[Len(ws) + 1] = w
    BY <1>4, <2>4, AppendSeq
  <2>7. \A n \in DOMAIN us : WalkStands(us[n])
    BY <1>4, <2>2, <2>6
  <2> QED BY <1>0, <1>2, <2>5, <2>6, <2>7, TimelineGoesOn
<1> QED BY <1>9, <1>10

LEMMA TimelineStepKeeps ==
    ASSUME RowsInv, TimelineInv, UNCHANGED revisionVars, TimelineNext
    PROVE  TimelineInv'
BY BeginWalkKeeps, ReadPageKeeps, InsertSeriesKeeps DEF TimelineNext

-----------------------------------------------------------------------------
(* What the walks then show.                                               *)

LEMMA WalksAreComplete == TimelineInv => WalkIsComplete
<1> SUFFICES ASSUME TimelineInv PROVE WalkIsComplete
  OBVIOUS
<1>1. ASSUME NEW w, ItemsStand(w.request, w.items, w.settled)
      PROVE  /\ w.request \in WalkRequest
             /\ \A n \in 1..(Len(w.items) - 1) :
                   Before(CursorOf(w.request, w.items[n]), CursorOf(w.request, w.items[n + 1]))
  <2>1. w.request \in WalkRequest /\ Len(w.items) \in Nat
    BY <1>1 DEF ItemsStand
  <2>2. ASSUME NEW n \in 1..(Len(w.items) - 1) PROVE Prec(w.request, w.items[n], w.items[n + 1])
    <3>1. n \in 1..Len(w.items) /\ n + 1 \in 1..Len(w.items) /\ n < n + 1
      BY <2>1
    <3> QED BY <1>1, <3>1 DEF ItemsStand
  <2> QED BY <2>1, <2>2 DEF Prec
<1>2. WalkIsOrdered
  <2>1. \A w \in ToSet(walks) : ItemsStand(w.request, w.items, w.settled)
    BY DEF TimelineInv, WalkStands, ToSet
  <2>2. reader # NoReader => ItemsStand(reader.request, reader.items, reader.settled)
    BY DEF TimelineInv, ReaderStands
  <2>3. ASSUME NEW w \in ToSet(walks) \cup (IF reader = NoReader THEN {} ELSE {reader})
        PROVE  ItemsStand(w.request, w.items, w.settled)
    BY <2>1, <2>2
  <2> QED BY <1>1, <2>3 DEF WalkIsOrdered
<1>3. WalkMissesNothing
  <2> SUFFICES ASSUME NEW n \in DOMAIN walks, NEW st \in walks[n].owed
               PROVE  st \in {Standing(walks[n].request, x) : x \in ToSet(walks[n].items)}
    BY DEF WalkMissesNothing
  <2>1. PICK w : w = walks[n] /\ WalkStands(w)
    BY DEF TimelineInv
  <2>2. w.items \in Seq(Universe(w.request))
    BY <2>1 DEF WalkStands, ItemsStand
  <2>3. PICK m \in 1..Len(w.items) : Standing(w.request, w.items[m]) = st
    BY <2>1 DEF WalkStands, Got
  <2>4. w.items[m] \in ToSet(w.items)
    BY <2>2, <2>3 DEF ToSet
  <2> QED BY <2>1, <2>3, <2>4
<1>4. MoreMeansMore
  BY DEF TimelineInv, WalkStands, MoreMeansMore
<1> QED BY <1>2, <1>3, <1>4 DEF WalkIsComplete

LEMMA WalksReplay == RowsInv /\ TimelineInv => WalkReplays
<1> SUFFICES ASSUME RowsInv, TimelineInv, NEW i \in DOMAIN walks, walks[i].settled
             PROVE  walks[i].items = Listed(walks[i].request, <<>>, Everything)
  BY DEF WalkReplays
<1>1. PICK w : w = walks[i] /\ WalkStands(w)
  BY DEF TimelineInv
<1>2. PICK q, items : q = w.request /\ items = w.items
  OBVIOUS
<1>3. ItemsStand(q, items, w.settled) /\ \A x \in ListRows(q) : \E n \in 1..Len(items) : items[n] = x
  BY <1>1, <1>2 DEF WalkStands
<1>4. q \in WalkRequest /\ FixedList(q) /\ \A n \in 1..Len(items) : items[n] \in ListRows(q)
  BY <1>1, <1>3 DEF ItemsStand
<1>5. PICK T : T = ListRows(q)
  OBVIOUS
<1>6. Len(items) \in Nat /\ DOMAIN items = 1..Len(items) /\ items \in Seq(T)
  <2>1. items \in Seq(Universe(q))
    BY <1>3 DEF ItemsStand
  <2>2. Len(items) \in Nat /\ items = [n \in 1..Len(items) |-> items[n]]
    BY <2>1
  <2>3. items \in [1..Len(items) -> T]
    BY <1>4, <1>5, <2>2
  <2> QED BY <2>2, <2>3
<1>7. PICK key : key = [x \in ListRows(q) |-> CursorOf(q, x)]
  OBVIOUS
<1>8. CreatedInv
  BY DEF TimelineInv
<1>9. /\ DOMAIN key = T /\ IsFiniteSet(DOMAIN key) /\ Ordered(key)
      /\ \A x, y \in T : Before(key[x], key[y]) <=> Prec(q, x, y)
      /\ T \subseteq revisions
  BY <1>4, <1>5, <1>7, <1>8, ListIsOrdered DEF FixedList
<1>10. items = InOrder(key)
  <2>1. \A m, n \in DOMAIN items : m < n => Before(key[items[m]], key[items[n]])
    BY <1>3, <1>4, <1>5, <1>6, <1>9 DEF ItemsStand
  <2>2. \A x \in DOMAIN key : \E n \in DOMAIN items : items[n] = x
    BY <1>3, <1>5, <1>6, <1>9
  <2> QED BY <1>6, <1>9, <2>1, <2>2, OnlyOneOrder
<1>11. Len(InOrder(key)) = Cardinality(T)
  BY <1>9, InOrderSorts
<1>12. Cardinality(T) \in Nat /\ Cardinality(T) <= Everything /\ Everything \in Nat
  <2>1. Cardinality(T) <= Cardinality(revisions)
    BY <1>9, FS_Subset DEF RowsInv
  <2>2. Cardinality(T) \in Nat /\ Cardinality(revisions) \in Nat /\ Cardinality(DOMAIN SeriesRow) \in Nat
    BY <1>9, TimelineAssumption, FS_CardinalityType DEF RowsInv
  <2> QED BY <2>1, <2>2 DEF Everything
<1>13. Listed(q, <<>>, Everything) = FirstOf(items, Everything)
  <2>1. Listed(q, <<>>, Everything) = Keyset(key, <<>>, Everything)
    BY <1>4, <1>7, ListedIs
  <2>2. {x \in DOMAIN key : <<>> = <<>> \/ Before(<<>>, key[x])} = DOMAIN key
    OBVIOUS
  <2>3. [x \in DOMAIN key |-> key[x]] = key
    BY <1>7
  <2> QED BY <1>10, <2>1, <2>2, <2>3 DEF Keyset, FirstOf
<1>14. FirstOf(items, Everything) = items
  <2>1. PICK f : f = FirstOf(items, Everything)
    OBVIOUS
  <2>2. /\ f \in Seq(T) /\ Len(f) = Len(items)
        /\ \A n \in 1..Len(f) : f[n] = items[n]
    BY <1>6, <1>10, <1>11, <1>12, <2>1, FrontIs
  <2>3. f = items
    BY <1>6, <2>2, SeqEqual
  <2> QED BY <2>1, <2>3
<1> QED BY <1>1, <1>2, <1>13, <1>14

-----------------------------------------------------------------------------
(* All readers together.                                                   *)

ReadersInv == RowsInv /\ ValuationsInv /\ RunsInv /\ TimelineInv /\ QualityInv

LEMMA ReadersStart == ReadersInit => ReadersInv
<1> SUFFICES ASSUME ReadersInit PROVE ReadersInv
  OBVIOUS
<1>1. RowsInv
  BY RowsInit DEF ReadersInit, MarketInit
<1>2. ValuationsInv
  BY NothingIsSeq, EmptyDomain DEF ReadersInit, MarketInit, ValuationInit, ValuationsInv
<1>3. RunsInv
  BY DEF ReadersInit, MarketInit, RunsInv
<1>4. TimelineInv
  BY NothingIsSeq, EmptyDomain DEF ReadersInit, TimelineInit, TimelineInv, CreatedInv
<1>5. QualityInv
  BY NothingIsSeq, EmptyDomain DEF ReadersInit, QualityInit, QualityInv
<1> QED BY <1>1, <1>2, <1>3, <1>4, <1>5 DEF ReadersInv

\* Rows are inserted, committed or rolled back, the clock moves, or the tables
\* stay as they are, and nobody reads.
LEMMA OthersWait ==
    ASSUME ReadersInv, RevisionsKept, UNCHANGED <<valuationVars, riskRuns, timelineVars, qualityVars>>
    PROVE  ReadersInv'
<1>1. RowsInv' /\ Visible \subseteq Visible'
  BY DEF RevisionsKept
<1>2. ValuationsInv'
  BY ValuationsStay DEF ReadersInv
<1>3. ValuationsGrow
  BY DEF ValuationsGrow, valuationVars
<1>4. RunsInv'
  BY <1>1, <1>3, RunsStay DEF ReadersInv
<1>5. TimelineInv'
  BY TimelineStays DEF ReadersInv
<1>6. QualityInv'
  BY QualityStays DEF ReadersInv
<1> QED BY <1>1, <1>2, <1>4, <1>5, <1>6 DEF ReadersInv

LEMMA PersistGrows ==
    ASSUME ValuationsInv, PersistValuation
    PROVE  ValuationsGrow
<1>1. IsSeq(valuations)
  BY DEF ValuationsInv
<1>2. PICK e : valuations' = Append(valuations, e)
  BY DEF PersistValuation
<1>3. /\ DOMAIN Append(valuations, e) = DOMAIN valuations \cup {Len(valuations) + 1}
      /\ \A n \in DOMAIN valuations : Append(valuations, e)[n] = valuations[n]
  BY <1>1, AppendSeq
<1> QED BY <1>2, <1>3 DEF ValuationsGrow

LEMMA ValuationStepKeeps ==
    ASSUME ReadersInv, ValuationStep
    PROVE  ReadersInv'
<1>0. RowsInv /\ ValuationsInv /\ RunsInv /\ TimelineInv /\ QualityInv
  BY DEF ReadersInv
<1>1. UNCHANGED timelineVars /\ UNCHANGED qualityVars
  BY DEF ValuationStep
<1>2. CASE RevisionNext({a \in Arrival : a.kind # "observation"}) /\ UNCHANGED valuationVars /\ UNCHANGED riskRuns
  <2>1. PICK A \in SUBSET Arrival : A = {a \in Arrival : a.kind # "observation"}
    OBVIOUS
  <2>2. RevisionsKept
    BY <1>0, <1>2, <2>1, RevisionStepKeeps
  <2> QED BY <1>1, <1>2, <2>2, OthersWait
<1>3. ASSUME UNCHANGED revisionVars, ValuationsInv', RunsInv' PROVE ReadersInv'
  <2>1. RevisionsKept
    BY <1>0, <1>3, UnchangedKeeps
  <2>2. TimelineInv' /\ QualityInv'
    BY <1>0, <1>1, <2>1, TimelineStays, QualityStays
  <2>3. RowsInv'
    BY <2>1 DEF RevisionsKept
  <2> QED BY <1>3, <2>2, <2>3 DEF ReadersInv
<1>4. CASE /\ (\E q \in VRequest : BeginValuation(q)) \/ LoadPrices \/ PersistValuation \/ FailValuation
           /\ UNCHANGED revisionVars /\ UNCHANGED riskRuns
  <2>1. ValuationsInv'
    BY <1>0, <1>4, BeginValuationKeeps, LoadPricesKeeps, PersistValuationKeeps, FailValuationKeeps
  <2>2. ValuationsGrow
    <3>1. CASE PersistValuation
      BY <1>0, <3>1, PersistGrows
    <3>2. CASE (\E q \in VRequest : BeginValuation(q)) \/ LoadPrices \/ FailValuation
      <4>1. valuations' = valuations
        BY <3>2 DEF BeginValuation, LoadPrices, FailValuation
      <4> QED BY <4>1 DEF ValuationsGrow
    <3> QED BY <1>4, <3>1, <3>2
  <2>3. Visible \subseteq Visible'
    BY <1>0, <1>4, UnchangedKeeps
  <2>4. RunsInv'
    BY <1>0, <1>4, <2>2, <2>3, RunsStay
  <2> QED BY <1>3, <1>4, <2>1, <2>4
<1>5. CASE /\ \E n \in DOMAIN valuations, a \in Holder : SubmitRun(n, a)
           /\ UNCHANGED <<revisionVars, valuationVars>>
  <2>1. RunsInv'
    BY <1>0, <1>5, SubmitRunKeeps
  <2>2. UNCHANGED revisionVars /\ UNCHANGED valuationVars
    BY <1>5
  <2>3. ValuationsInv'
    <3>1. RevisionsKept
      BY <1>0, <2>2, UnchangedKeeps
    <3> QED BY <1>0, <2>2, <3>1, ValuationsStay
  <2> QED BY <1>3, <2>1, <2>2, <2>3
<1> QED BY <1>2, <1>4, <1>5 DEF ValuationStep, MarketNext, ValuationNext

\* Steps of the timeline or of quality: the valuations see at most new rows.
LEMMA ValuationsWait ==
    ASSUME ReadersInv, UNCHANGED revisionVars, UNCHANGED <<valuationVars, riskRuns>>
    PROVE  RevisionsKept /\ RowsInv' /\ ValuationsInv' /\ RunsInv'
<1>1. RevisionsKept
  BY UnchangedKeeps DEF ReadersInv
<1>2. RowsInv' /\ Visible \subseteq Visible'
  BY <1>1 DEF RevisionsKept
<1>3. ValuationsInv'
  BY <1>1, ValuationsStay DEF ReadersInv
<1>4. ValuationsGrow
  BY DEF ValuationsGrow, valuationVars
<1>5. RunsInv'
  BY <1>2, <1>4, RunsStay DEF ReadersInv
<1> QED BY <1>1, <1>2, <1>3, <1>5

LEMMA ObservedKeeps ==
    ASSUME ReadersInv, Observed, UNCHANGED <<valuationVars, riskRuns, timelineVars, qualityVars>>
    PROVE  ReadersInv'
<1>1. PICK A \in SUBSET Arrival : A = {a \in Arrival : a.kind = "observation"}
  OBVIOUS
<1>2. RevisionNext(A)
  BY <1>1 DEF Observed
<1>3. RevisionsKept
  BY <1>2, RevisionStepKeeps DEF ReadersInv
<1> QED BY <1>3, OthersWait

LEMMA WalkStepKeeps ==
    ASSUME ReadersInv, TimelineStep
    PROVE  ReadersInv'
<1>1. UNCHANGED <<valuationVars, riskRuns>> /\ UNCHANGED qualityVars
  BY DEF TimelineStep
<1>2. CASE TimelineNext /\ UNCHANGED revisionVars
  <2>1. RevisionsKept /\ RowsInv' /\ ValuationsInv' /\ RunsInv'
    BY <1>1, <1>2, ValuationsWait
  <2>2. TimelineInv'
    BY <1>2, TimelineStepKeeps DEF ReadersInv
  <2>3. QualityInv'
    BY <1>1, <2>1, QualityStays DEF ReadersInv
  <2> QED BY <2>1, <2>2, <2>3 DEF ReadersInv
<1>3. CASE Observed /\ UNCHANGED timelineVars
  BY <1>1, <1>3, ObservedKeeps
<1> QED BY <1>2, <1>3 DEF TimelineStep

LEMMA QualityStepKeeps ==
    ASSUME ReadersInv, QualityStep
    PROVE  ReadersInv'
<1>1. UNCHANGED <<valuationVars, riskRuns>>
  BY DEF QualityStep
<1>2. CASE QualityNext /\ UNCHANGED <<revisionVars, timelineVars>>
  <2>1. RevisionsKept /\ RowsInv' /\ ValuationsInv' /\ RunsInv'
    BY <1>1, <1>2, ValuationsWait
  <2>2. TimelineInv'
    BY <1>2, <2>1, TimelineStays DEF ReadersInv
  <2>3. UNCHANGED revisionVars /\ RowsInv /\ QualityInv /\ CreatedInv
    BY <1>2 DEF ReadersInv, TimelineInv
  <2>4. QualityInv'
    BY <1>2, <2>3, BeginQualityKeeps, EvaluateInputKeeps DEF QualityNext
  <2> QED BY <2>1, <2>2, <2>4 DEF ReadersInv
<1>3. CASE (\E s \in LaterSeries : InsertSeries(s)) /\ UNCHANGED <<revisionVars, qualityVars>>
  <2>1. RevisionsKept /\ RowsInv' /\ ValuationsInv' /\ RunsInv'
    BY <1>1, <1>3, ValuationsWait
  <2>2. TimelineInv'
    BY <1>3, InsertSeriesKeeps DEF ReadersInv
  <2>3. QualityInv'
    BY <1>3, <2>1, QualityStays DEF ReadersInv
  <2> QED BY <2>1, <2>2, <2>3 DEF ReadersInv
<1>4. CASE Observed /\ UNCHANGED <<timelineVars, qualityVars>>
  BY <1>1, <1>4, ObservedKeeps
<1> QED BY <1>2, <1>3, <1>4 DEF QualityStep

LEMMA ReadersGoOn == ReadersInv /\ [ReadersNext]_readersVars => ReadersInv'
<1> SUFFICES ASSUME ReadersInv, [ReadersNext]_readersVars PROVE ReadersInv'
  OBVIOUS
<1>1. CASE ReadersNext
  BY <1>1, ValuationStepKeeps, WalkStepKeeps, QualityStepKeeps DEF ReadersNext
<1>2. CASE UNCHANGED readersVars
  <2>1. UNCHANGED revisionVars /\ UNCHANGED <<valuationVars, riskRuns, timelineVars, qualityVars>>
    BY <1>2 DEF readersVars, marketVars
  <2>2. RevisionsKept
    BY <2>1, UnchangedKeeps DEF ReadersInv
  <2> QED BY <2>1, <2>2, OthersWait
<1> QED BY <1>1, <1>2

-----------------------------------------------------------------------------
(* What is sealed verifies.                                                *)

NumStep(e, g) ==
    [s \in SUBSET DOMAIN e.path |->
        IF s = {} THEN e.price
        ELSE LET m == Max(s) IN
             IF e.path[m].direction = "direct" THEN g[s \ {m}] * e.path[m].rate ELSE g[s \ {m}]]

DenStep(e, g) ==
    [s \in SUBSET DOMAIN e.path |->
        IF s = {} THEN 1
        ELSE LET m == Max(s) IN
             IF e.path[m].direction = "direct" THEN g[s \ {m}] ELSE g[s \ {m}] * e.path[m].rate]

LEMMA FractionUnfolds ==
    ASSUME NEW e
    PROVE  /\ Numerator(e) = (CHOOSE g : g = NumStep(e, g))[DOMAIN e.path]
           /\ Denominator(e) = (CHOOSE g : g = DenStep(e, g))[DOMAIN e.path]
<1>1. Numerator(e) = (CHOOSE g : g = NumStep(e, g))[DOMAIN e.path]
  BY DEF Numerator, FoldLeft, MapThenFoldSet, NumStep
<1>2. Denominator(e) = (CHOOSE g : g = DenStep(e, g))[DOMAIN e.path]
  BY DEF Denominator, FoldLeft, MapThenFoldSet, DenStep
<1> QED BY <1>1, <1>2

\* Paths of the metric histories have at most one step.
LEMMA EmptyFraction ==
    ASSUME NEW e, e.path = <<>>
    PROVE  Numerator(e) = e.price /\ Denominator(e) = 1
<1>0. DOMAIN e.path = {} /\ SUBSET (DOMAIN e.path) = {{}}
  BY EmptyDomain
<1>1. PICK n : n = CHOOSE g : g = NumStep(e, g)
  OBVIOUS
<1>2. \A g : NumStep(e, g) = [s \in {{}} |-> e.price]
  BY <1>0 DEF NumStep
<1>3. \E g : g = NumStep(e, g)
  BY <1>2
<1>4. n = [s \in {{}} |-> e.price]
  BY <1>1, <1>2, <1>3
<1>5. PICK d : d = CHOOSE g : g = DenStep(e, g)
  OBVIOUS
<1>6. \A g : DenStep(e, g) = [s \in {{}} |-> 1]
  BY <1>0 DEF DenStep
<1>7. \E g : g = DenStep(e, g)
  BY <1>6
<1>8. d = [s \in {{}} |-> 1]
  BY <1>5, <1>6, <1>7
<1>9. n[{}] = e.price /\ d[{}] = 1
  BY <1>4, <1>8
<1>10. Numerator(e) = n[DOMAIN e.path] /\ Denominator(e) = d[DOMAIN e.path]
  BY <1>1, <1>5, FractionUnfolds
<1> QED BY <1>0, <1>9, <1>10

LEMMA OneSetMax == Max({1}) = 1
BY DEF Max

LEMMA OneStepFraction ==
    ASSUME NEW e, NEW x, e.path = <<x>>
    PROVE  /\ Numerator(e) = IF x.direction = "direct" THEN e.price * x.rate ELSE e.price
           /\ Denominator(e) = IF x.direction = "direct" THEN 1 ELSE 1 * x.rate
<1>0. DOMAIN e.path = {1} /\ e.path[1] = x
  OBVIOUS
<1>1. SUBSET (DOMAIN e.path) = {{}, {1}} /\ {1} \ {1} = {} /\ {1} # {}
  BY <1>0
<1>2. PICK a : a = IF x.direction = "direct" THEN e.price * x.rate ELSE e.price
  OBVIOUS
<1>3. PICK b : b = IF x.direction = "direct" THEN 1 ELSE 1 * x.rate
  OBVIOUS
<1>4. PICK n : n = CHOOSE g : g = NumStep(e, g)
  OBVIOUS
<1>5. ASSUME NEW g, g[{}] = e.price
      PROVE  NumStep(e, g) = [s \in {{}, {1}} |-> IF s = {} THEN e.price ELSE a]
  BY <1>0, <1>1, <1>2, <1>5, OneSetMax DEF NumStep
<1>6. n = NumStep(e, n)
  <2>1. PICK w : w = [s \in {{}, {1}} |-> IF s = {} THEN e.price ELSE a]
    OBVIOUS
  <2>2. w = NumStep(e, w)
    BY <1>5, <2>1
  <2> QED BY <1>4, <2>2
<1>7. n[{}] = e.price
  BY <1>1, <1>6 DEF NumStep
<1>8. n[{1}] = a
  BY <1>1, <1>5, <1>6, <1>7
<1>9. PICK d : d = CHOOSE g : g = DenStep(e, g)
  OBVIOUS
<1>10. ASSUME NEW g, g[{}] = 1
       PROVE  DenStep(e, g) = [s \in {{}, {1}} |-> IF s = {} THEN 1 ELSE b]
  BY <1>0, <1>1, <1>3, <1>10, OneSetMax DEF DenStep
<1>11. d = DenStep(e, d)
  <2>1. PICK w : w = [s \in {{}, {1}} |-> IF s = {} THEN 1 ELSE b]
    OBVIOUS
  <2>2. w = DenStep(e, w)
    BY <1>10, <2>1
  <2> QED BY <1>9, <2>2
<1>12. d[{}] = 1
  BY <1>1, <1>11 DEF DenStep
<1>13. d[{1}] = b
  BY <1>1, <1>10, <1>11, <1>12
<1> QED BY <1>0, <1>2, <1>3, <1>4, <1>8, <1>9, <1>13, FractionUnfolds

\* A whole number of units has no digits to lose.
LEMMA WholeIsExact ==
    ASSUME NEW a \in Nat \ {0}
    PROVE  RoundAway(a, 1) = a * Digits /\ a * Digits \in Nat \ {0}
<1>1. Digits \in Nat \ {0}
  BY MarketAssumption
<1>2. PICK k \in Nat \ {0} : k = a * Digits
  BY <1>1
<1>3. 2 * a * Digits = 2 * k
  BY <1>1, <1>2
<1>4. (2 * k + 1) \div 2 = k
  OBVIOUS
<1>5. RoundAway(a, 1) = (2 * a * Digits + 1) \div (2 * 1)
  BY DEF RoundAway
<1> QED BY <1>2, <1>3, <1>4, <1>5

\* One quote between the quote currency and USD, as the histories choose it.
QuoteFits(x, c) ==
    /\ x \in Visible /\ x.kind = "fx"
    /\ {x.of, x.in} = {c, "USD"} /\ x.of # x.in
    /\ x.value \in Nat \ {0}

LEMMA FXEntryFields ==
    ASSUME NEW x
    PROVE  /\ FXEntry(x).id = x.id /\ FXEntry(x).pair = <<x.of, x.in>>
           /\ FXEntry(x).direction = MetricDirection(x) /\ FXEntry(x).obs = x.obs
           /\ FXEntry(x).rate = x.value /\ FXEntry(x).source = x.source /\ FXEntry(x).system = x.system
BY DEF FXEntry, Pair

\* A quote of the history has one of two orientations.
LEMMA QuoteOrientation ==
    ASSUME NEW x, NEW c, QuoteFits(x, c), c # "USD"
    PROVE  \/ x.of = c /\ x.in = "USD" /\ MetricDirection(x) = "direct"
           \/ x.of = "USD" /\ x.in = c /\ MetricDirection(x) = "inverse"
BY DEF QuoteFits, MetricDirection

LEMMA QuoteVerifies ==
    ASSUME NEW x, NEW c, QuoteFits(x, c), c # "USD"
    PROVE  /\ VerifyMetricFX(FXEntry(x), Visible)
           /\ FXFrom(FXEntry(x)) = c /\ FXTo(FXEntry(x)) = "USD"
<1>1. PICK f : f = FXEntry(x)
  OBVIOUS
<1>2. /\ f.id = x.id /\ f.pair = <<x.of, x.in>> /\ f.direction = MetricDirection(x)
      /\ f.obs = x.obs /\ f.rate = x.value /\ f.source = x.source /\ f.system = x.system
  BY <1>1, FXEntryFields
<1>3. \/ x.of = c /\ x.in = "USD" /\ f.direction = "direct"
      \/ x.of = "USD" /\ x.in = c /\ f.direction = "inverse"
  BY <1>2, QuoteOrientation
<1>4. x \in Row(Visible, "fx", f.id)
  BY <1>2 DEF Row, QuoteFits
<1>5. f.pair = Pair(x) /\ SameClocks(f, x)
  BY <1>2 DEF Pair, SameClocks
<1>6. VerifyMetricFX(f, Visible)
  BY <1>2, <1>3, <1>4, <1>5 DEF VerifyMetricFX
<1>7. FXFrom(f) = c /\ FXTo(f) = "USD"
  BY <1>2, <1>3 DEF FXFrom, FXTo
<1> QED BY <1>1, <1>6, <1>7

\* The conversion of an entry is the one evidence computes again.
LEMMA ConvertedVerifies ==
    ASSUME NEW e, NEW x, NEW c, QuoteFits(x, c), c # "USD",
           e.price \in Nat \ {0}, e.quote = c, e.path = <<FXEntry(x)>>,
           e.usd = <<ConvertToUSD(e.price, x)>>, ConvertToUSD(e.price, x) > 0
    PROVE  ValidUSDConversion(e)
<1>1. PICK f : f = FXEntry(x)
  OBVIOUS
<1>2. f.direction = MetricDirection(x) /\ f.rate = x.value /\ x.value \in Nat \ {0}
  BY <1>1, FXEntryFields DEF QuoteFits
<1>3. FXFrom(f) = c /\ FXTo(f) = "USD"
  BY <1>1, QuoteVerifies
<1>4. PICK p : p = e.path
  OBVIOUS
<1>5. p = <<f>> /\ Len(p) = 1 /\ DOMAIN p = {1} /\ p[1] = f /\ p # <<>>
  BY <1>1, <1>4
<1>6. RoundAway(Numerator(e), Denominator(e)) = ConvertToUSD(e.price, x)
  <2>1. e.path = <<f>>
    BY <1>4, <1>5
  <2>2. CASE MetricDirection(x) = "direct"
    <3>1. Numerator(e) = e.price * x.value /\ Denominator(e) = 1
      BY <1>2, <2>1, <2>2, OneStepFraction
    <3> QED BY <2>2, <3>1 DEF ConvertToUSD
  <2>3. CASE MetricDirection(x) # "direct"
    <3>1. Numerator(e) = e.price /\ Denominator(e) = 1 * x.value
      BY <1>2, <2>1, <2>3, OneStepFraction
    <3>2. 1 * x.value = x.value
      BY <1>2
    <3> QED BY <2>3, <3>1, <3>2 DEF ConvertToUSD
  <2> QED BY <2>2, <2>3
<1>7. e.usd # <<>> /\ e.usd[1] = ConvertToUSD(e.price, x)
  OBVIOUS
<1>8. \A k \in 1..(Len(p) - 1) : FXTo(p[k]) = FXFrom(p[k + 1])
  BY <1>5
<1>9. \A k \in DOMAIN p : p[k].rate > 0
  BY <1>2, <1>5
<1>10. e.price > 0
  OBVIOUS
<1> QED BY <1>3, <1>4, <1>5, <1>6, <1>7, <1>8, <1>9, <1>10 DEF ValidUSDConversion

LEMMA USDVerifies ==
    ASSUME NEW e, e.price \in Nat \ {0}, e.quote = "USD", e.path = <<>>, e.usd = <<e.price * Digits>>
    PROVE  ValidUSDConversion(e)
<1>1. PICK k : k = e.price * Digits
  OBVIOUS
<1>2. RoundAway(e.price, 1) = k /\ k \in Nat \ {0}
  BY <1>1, WholeIsExact
<1>3. e.usd # <<>> /\ e.usd[1] = k
  BY <1>1
<1>4. Numerator(e) = e.price /\ Denominator(e) = 1
  BY EmptyFraction
<1>5. RoundAway(Numerator(e), Denominator(e)) = e.usd[1]
  BY <1>2, <1>3, <1>4
<1>6. e.price > 0 /\ k > 0
  BY <1>2
<1> QED BY <1>3, <1>5, <1>6 DEF ValidUSDConversion

\* The rows an entry names are rows of the tables, with their raw objects.
Objects == {s.raw : s \in revisions}

LEMMA ObjectsAreThere ==
    ASSUME NEW e
    PROVE  \A r \in EntryRows(e, Visible) : r.raw \in Objects
<1>1. EntryRows(e, Visible) \subseteq revisions
  BY DEF EntryRows, Visible
<1> QED BY <1>1 DEF Objects

\* A row says what was delivered.
LEMMA RowIsArrival ==
    ASSUME RowsInv, NEW x \in revisions
    PROVE  \E a \in Arrival : /\ x.kind = a.kind /\ x.of = a.of /\ x.in = a.in /\ x.value = a.value
BY DEF RowsInv, Stamped

LEMMA HistoryQuotesFit ==
    ASSUME RowsInv, NEW c, NEW q, NEW x \in Between(InWindow("fx", q), c, "USD")
    PROVE  QuoteFits(x, c)
<1>1. x \in Visible /\ x \in revisions /\ x.kind = "fx" /\ {x.of, x.in} = {c, "USD"}
  BY DEF Between, InWindow, EligibleRows, Visible
<1>2. PICK a \in Arrival : x.kind = a.kind /\ x.of = a.of /\ x.in = a.in /\ x.value = a.value
  BY <1>1, RowIsArrival
<1>3. a.value \in Nat \ {0} /\ a.of # a.in
  BY <1>1, <1>2, MarketAssumption
<1> QED BY <1>1, <1>2, <1>3 DEF QuoteFits

\* Every quote of a history fits its currency.
QuotesFit(h, k, c) ==
    /\ k \in Nat /\ DOMAIN h = 1..k
    /\ \A n \in DOMAIN h : QuoteFits(h[n], c)

LEMMA HistoryFits ==
    ASSUME RowsInv, NEW c, NEW q
    PROVE  \E k : QuotesFit(LoadMetricFXHistory(c, q), k, c)
<1>1. PICK h : h = LoadMetricFXHistory(c, q)
  OBVIOUS
<1>2. Len(h) \in Nat /\ DOMAIN h = 1..Len(h) /\ \A n \in DOMAIN h : h[n] \in Between(InWindow("fx", q), c, "USD")
  BY <1>1, HistoryIs
<1>3. \A n \in DOMAIN h : QuoteFits(h[n], c)
  BY <1>2, HistoryQuotesFit
<1>4. QuotesFit(h, Len(h), c)
  BY <1>2, <1>3 DEF QuotesFit
<1> QED BY <1>1, <1>4

LEMMA DirectIsPositive ==
    ASSUME NEW p \in Nat \ {0}, NEW x, x.value \in Nat \ {0}, MetricDirection(x) = "direct"
    PROVE  ConvertToUSD(p, x) > 0
<1>1. PICK k \in Nat \ {0} : k = p * x.value
  OBVIOUS
<1>2. ConvertToUSD(p, x) = RoundAway(k, 1)
  BY <1>1 DEF ConvertToUSD
<1>3. RoundAway(k, 1) = k * Digits /\ k * Digits \in Nat \ {0}
  BY WholeIsExact
<1>4. PICK m \in Nat \ {0} : m = k * Digits
  BY <1>3
<1>5. m > 0
  OBVIOUS
<1> QED BY <1>2, <1>3, <1>4, <1>5

\* What a price or a unit of cash becomes in USD is positive.
LEMMA PriceStaysPositive ==
    ASSUME PricesStayPositive, RowsInv, NEW r \in revisions, r.kind = "price", NEW x, QuoteFits(x, r.in),
           r.in # "USD"
    PROVE  r.value \in Nat \ {0} /\ ConvertToUSD(r.value, x) > 0
<1>1. PICK p \in Arrival : r.kind = p.kind /\ r.of = p.of /\ r.in = p.in /\ r.value = p.value
  BY RowIsArrival
<1>2. x \in revisions /\ x.kind = "fx" /\ x.value \in Nat \ {0}
  BY DEF QuoteFits, Visible
<1>3. PICK a \in Arrival : x.kind = a.kind /\ x.of = a.of /\ x.in = a.in /\ x.value = a.value
  BY <1>2, RowIsArrival
<1>4. p.kind = "price" /\ p.value \in Nat \ {0}
  BY <1>1 DEF PricesStayPositive
<1>5. \/ x.of = r.in /\ x.in = "USD" /\ MetricDirection(x) = "direct"
      \/ x.of = "USD" /\ x.in = r.in /\ MetricDirection(x) = "inverse"
  BY QuoteOrientation
<1>6. CASE MetricDirection(x) = "direct"
  BY <1>1, <1>2, <1>4, <1>6, DirectIsPositive
<1>7. CASE x.of = "USD" /\ x.in = r.in
  <2>1. a.kind = "fx" /\ a.of = "USD" /\ p.in = a.in
    BY <1>1, <1>2, <1>3, <1>7
  <2>2. ConvertToUSD(p.value, a) > 0
    BY <1>4, <2>1 DEF PricesStayPositive
  <2>3. ConvertToUSD(r.value, x) = ConvertToUSD(p.value, a)
    BY <1>1, <1>3 DEF ConvertToUSD, MetricDirection
  <2> QED BY <1>1, <1>4, <2>2, <2>3
<1> QED BY <1>5, <1>6, <1>7

LEMMA CashStaysPositive ==
    ASSUME PricesStayPositive, RowsInv, NEW l \in DOMAIN SnapshotLine, IsCash(l), Native(l) # "USD",
           NEW x, QuoteFits(x, Native(l))
    PROVE  ConvertToUSD(1, x) > 0
<1>1. PICK c : c = Native(l)
  OBVIOUS
<1>2. x \in revisions /\ x.kind = "fx" /\ x.value \in Nat \ {0}
  BY DEF QuoteFits, Visible
<1>3. PICK a \in Arrival : x.kind = a.kind /\ x.of = a.of /\ x.in = a.in /\ x.value = a.value
  BY <1>2, RowIsArrival
<1>4. \/ x.of = c /\ x.in = "USD" /\ MetricDirection(x) = "direct"
      \/ x.of = "USD" /\ x.in = c /\ MetricDirection(x) = "inverse"
  BY <1>1, QuoteOrientation
<1>5. CASE MetricDirection(x) = "direct"
  <2>1. 1 \in Nat \ {0}
    OBVIOUS
  <2> QED BY <1>2, <1>5, <2>1, DirectIsPositive
<1>6. CASE x.of = "USD" /\ x.in = c
  <2>1. a.kind = "fx" /\ a.of = "USD" /\ Native(l) = a.in
    BY <1>1, <1>2, <1>3, <1>6
  <2>2. ConvertToUSD(1, a) > 0
    BY <2>1 DEF PricesStayPositive
  <2>3. ConvertToUSD(1, x) = ConvertToUSD(1, a)
    BY <1>3 DEF ConvertToUSD, MetricDirection
  <2> QED BY <2>2, <2>3
<1> QED BY <1>4, <1>5, <1>6

\* An entry stands with what can be seen now.
Verifies(i, e, inCash) == EntryStands(i, e, inCash, Visible, Objects)

LEMMA PriceVerifies ==
    ASSUME PricesStayPositive, RowsInv, NEW i, NEW r \in Visible, r.kind = "price", r.of = i,
           NEW h, NEW k, QuotesFit(h, k, r.in) \/ r.in = "USD",
           NEW maxAge, NEW e, e = PriceEntry(r, h, maxAge), e.usd # <<>>
    PROVE  Verifies(i, e, FALSE)
<1>0. r \in revisions
  BY DEF Visible
<1>1. PICK fx : fx = SelectMetricFX(h, r.obs, maxAge)
  OBVIOUS
<1>2. /\ e.id = r.id /\ e.constant = FALSE /\ e.obs = r.obs /\ e.price = r.value /\ e.quote = r.in
      /\ e.source = r.source /\ e.system = r.system
      /\ e.usd = IF r.in = "USD" THEN <<r.value * Digits>>
                 ELSE IF fx = <<>> THEN <<>> ELSE <<ConvertToUSD(r.value, fx[1])>>
      /\ e.path = IF r.in = "USD" \/ fx = <<>> THEN <<>> ELSE <<FXEntry(fx[1])>>
  BY <1>1 DEF PriceEntry
<1>3. VerifyMetricPrice(i, e, Visible)
  <2>1. r \in Row(Visible, "price", e.id)
    BY <1>2 DEF Row
  <2>2. SameClocks(e, r)
    BY <1>2 DEF SameClocks
  <2> QED BY <1>2, <2>1, <2>2 DEF VerifyMetricPrice
<1>4. \A s \in EntryRows(e, Visible) : s.raw \in Objects
  BY ObjectsAreThere
<1>5. r.value \in Nat \ {0}
  <2>1. PICK p \in Arrival : r.kind = p.kind /\ r.of = p.of /\ r.in = p.in /\ r.value = p.value
    BY <1>0, RowIsArrival
  <2> QED BY <2>1 DEF PricesStayPositive
<1>6. ValidUSDConversion(e) /\ \A n \in DOMAIN e.path : VerifyMetricFX(e.path[n], Visible)
  <2>1. CASE r.in = "USD"
    <3>1. e.quote = "USD" /\ e.path = <<>> /\ e.usd = <<e.price * Digits>> /\ e.price \in Nat \ {0}
      BY <1>2, <1>5, <2>1
    <3>2. DOMAIN e.path = {}
      BY <3>1, EmptyDomain
    <3> QED BY <3>1, <3>2, USDVerifies
  <2>2. CASE r.in # "USD"
    <3>1. fx # <<>>
      BY <1>2, <2>2
    <3>2. k \in Nat /\ DOMAIN h = 1..k /\ \A n \in DOMAIN h : QuoteFits(h[n], r.in)
      BY <2>2 DEF QuotesFit
    <3>3. PICK n \in DOMAIN h : fx = <<h[n]>>
      <4>1. PICK at : at = r.obs
        OBVIOUS
      <4>2. LET f == SelectMetricFX(h, at, maxAge) IN
            f = <<>> \/ \E n \in DOMAIN h : f = <<h[n]>> /\ h[n].obs <= at
        BY <3>2, MetricFXIs
      <4> QED BY <1>1, <3>1, <4>1, <4>2
    <3>4. PICK x : x = h[n]
      OBVIOUS
    <3>5. fx[1] = x /\ QuoteFits(x, r.in)
      BY <3>2, <3>3, <3>4
    <3>6. e.path = <<FXEntry(x)>> /\ e.usd = <<ConvertToUSD(e.price, x)>>
      BY <1>2, <2>2, <3>1, <3>5
    <3>7. ConvertToUSD(e.price, x) > 0
      BY <1>0, <1>2, <2>2, <3>5, PriceStaysPositive
    <3>8. ValidUSDConversion(e)
      BY <1>2, <1>5, <2>2, <3>5, <3>6, <3>7, ConvertedVerifies
    <3>9. VerifyMetricFX(FXEntry(x), Visible)
      BY <2>2, <3>5, QuoteVerifies
    <3>10. \A m \in DOMAIN e.path : e.path[m] = FXEntry(x)
      BY <3>6
    <3> QED BY <3>8, <3>9, <3>10
  <2> QED BY <2>1, <2>2
<1> QED BY <1>3, <1>4, <1>6 DEF Verifies, EntryStands

LEMMA InstrumentIs ==
    ASSUME NEW l \in DOMAIN SnapshotLine
    PROVE  InstrumentRow[Instr(l)].native = Native(l) /\ InstrumentRow[Instr(l)].kind = SnapshotLine[l].type
<1>1. InstrumentRow[Instr(l)] = [kind |-> SnapshotLine[l].type, native |-> Native(l)]
  BY MarketAssumption
<1>2. PICK t, c : t = SnapshotLine[l].type /\ c = Native(l)
  OBVIOUS
<1>3. PICK r : r = InstrumentRow[Instr(l)]
  OBVIOUS
<1>4. r = [kind |-> t, native |-> c]
  BY <1>1, <1>2, <1>3
<1>5. r.kind = t /\ r.native = c
  BY <1>4
<1> QED BY <1>2, <1>3, <1>5

LEMMA CashVerifies ==
    ASSUME PricesStayPositive, RowsInv, NEW l \in DOMAIN SnapshotLine, IsCash(l), Native(l) # "USD",
           NEW x, QuoteFits(x, Native(l)), NEW e, e = CashEntry(x, Native(l))
    PROVE  Verifies(Instr(l), e, TRUE)
<1>1. PICK c : c = Native(l)
  OBVIOUS
<1>2. /\ e.id = x.id /\ e.constant = FALSE /\ e.obs = x.obs /\ e.price = 1 /\ e.quote = c
      /\ e.usd = <<ConvertToUSD(1, x)>> /\ e.path = <<FXEntry(x)>>
      /\ e.source = x.source /\ e.system = x.system
  BY <1>1 DEF CashEntry
<1>3. InstrumentRow[Instr(l)].native = c
  BY <1>1, InstrumentIs
<1>4. VerifyMetricCash(e, Visible)
  <2>1. x \in Row(Visible, "fx", e.id)
    BY <1>2 DEF Row, QuoteFits
  <2>2. SameClocks(e, x)
    BY <1>2 DEF SameClocks
  <2>3. \/ x.of = c /\ x.in = "USD"
        \/ x.of = "USD" /\ x.in = c
    BY <1>1, QuoteOrientation
  <2> QED BY <1>1, <1>2, <2>1, <2>2, <2>3 DEF VerifyMetricCash
<1>5. ValidUSDConversion(e)
  <2>1. ConvertToUSD(e.price, x) > 0
    BY <1>2, CashStaysPositive
  <2>2. e.price \in Nat \ {0} /\ e.usd = <<ConvertToUSD(e.price, x)>>
    BY <1>2
  <2> QED BY <1>1, <1>2, <2>1, <2>2, ConvertedVerifies
<1>6. \A n \in DOMAIN e.path : VerifyMetricFX(e.path[n], Visible)
  <2>1. VerifyMetricFX(FXEntry(x), Visible)
    BY <1>1, QuoteVerifies
  <2>2. \A n \in DOMAIN e.path : e.path[n] = FXEntry(x)
    BY <1>2
  <2> QED BY <2>1, <2>2
<1>7. \A s \in EntryRows(e, Visible) : s.raw \in Objects
  BY ObjectsAreThere
<1> QED BY <1>2, <1>3, <1>4, <1>5, <1>6, <1>7 DEF Verifies, EntryStands

LEMMA DayBegins ==
    ASSUME NEW d \in Int
    PROVE  d * DayLength \in Int /\ Day(d * DayLength) = d
<1>1. DayLength \in Nat \ {0}
  BY QualityAssumption
<1>2. (d * DayLength) \div DayLength = d
  BY <1>1
<1> QED BY <1>1, <1>2 DEF Day

LEMMA ConstantVerifies ==
    ASSUME NEW l \in DOMAIN SnapshotLine, Native(l) = "USD", NEW d \in Int
    PROVE  Verifies(Instr(l), ConstantEntry(d), TRUE)
<1>1. PICK e : e = ConstantEntry(d)
  OBVIOUS
<1>2. /\ e.constant = TRUE /\ e.obs = d * DayLength /\ e.price = 1 /\ e.quote = "USD"
      /\ e.usd = <<Digits>> /\ e.path = <<>> /\ e.source = NoTime /\ e.system = NoTime
  BY <1>1 DEF ConstantEntry
<1>3. InstrumentRow[Instr(l)].native = "USD"
  BY InstrumentIs
<1>4. e.obs = Day(e.obs) * DayLength
  BY <1>2, DayBegins
<1>5. ValidConstantCash(e)
  BY <1>2, <1>4 DEF ValidConstantCash
<1> QED BY <1>1, <1>2, <1>3, <1>5 DEF Verifies, EntryStands

\* The last entry of a day.
LastOf(S, d) ==
    CHOOSE f \in {g \in S : Day(g.obs) = d} : \A g \in S : Day(g.obs) = d => f.obs >= g.obs

\* The two services agree on the last price of a day when every entry is in USD.
LEMMA HistoriesAgree ==
    ASSUME NEW S, \A e \in S : e.usd # <<>>,
           \A d \in EntryDays(S) : \E f \in S : Day(f.obs) = d /\ \A g \in S : Day(g.obs) = d => f.obs >= g.obs
    PROVE  AggregateHistory(S) = ExpectedHistory(S)
<1>1. ASSUME NEW d \in EntryDays(S)
      PROVE  LastOf(S, d).usd # <<>>
  <2>1. LastOf(S, d) \in {g \in S : Day(g.obs) = d}
    BY DEF LastOf
  <2> QED BY <2>1
<1>2. AggregateHistory(S) =
          [d \in EntryDays(S) |-> IF LastOf(S, d).usd = <<>> THEN LastOf(S, d).price * Digits
                                  ELSE LastOf(S, d).usd[1]]
  BY DEF AggregateHistory, LastOf
<1>3. ExpectedHistory(S) = [d \in EntryDays(S) |-> LastOf(S, d).usd[1]]
  BY DEF ExpectedHistory, LastOf, EntryDays
<1> QED BY <1>1, <1>2, <1>3

LEMMA FiniteHasLast ==
    ASSUME NEW S, IsFiniteSet(S), \A e \in S : e.obs \in Int
    PROVE  \A d \in EntryDays(S) : \E f \in S : Day(f.obs) = d /\ \A g \in S : Day(g.obs) = d => f.obs >= g.obs
<1> TAKE d \in EntryDays(S)
<1>1. PICK T : T = {e \in S : Day(e.obs) = d}
  OBVIOUS
<1>2. T # {} /\ T \in SUBSET S
  BY <1>1 DEF EntryDays
<1>3. PICK N : N = {e.obs : e \in T}
  OBVIOUS
<1>4. IsFiniteSet(T)
  BY <1>2, FS_Subset
<1>5. IsFiniteSet(N)
  <2>1. PICK f : f = [e \in T |-> e.obs]
    OBVIOUS
  <2>2. N = {f[e] : e \in T}
    BY <1>3, <2>1
  <2>3. f \in [T -> Int]
    BY <1>2, <2>1
  <2>4. f \in Surjection(T, N)
    BY <1>3, <2>1 DEF Surjection
  <2> QED BY <1>4, <2>4, FS_Surjection
<1>6. N \in SUBSET Int /\ N # {}
  BY <1>2, <1>3
<1>7. Max(N) \in N /\ \A y \in N : Max(N) >= y
  BY <1>5, <1>6, MinMaxExist
<1>8. PICK m \in N : \A y \in N : m >= y
  BY <1>7
<1>9. PICK f \in T : f.obs = m
  BY <1>3
<1> QED BY <1>1, <1>2, <1>3, <1>8, <1>9

\* The image of a finite set is finite.
LEMMA FiniteImage ==
    ASSUME NEW T, IsFiniteSet(T), NEW f, NEW N, \A y \in N : \E x \in T : y = f[x]
    PROVE  IsFiniteSet(N)
<1>1. PICK M : M = {f[x] : x \in T}
  OBVIOUS
<1>2. PICK g : g = [x \in T |-> f[x]]
  OBVIOUS
<1>3. g \in Surjection(T, M)
  BY <1>1, <1>2 DEF Surjection
<1>4. IsFiniteSet(M)
  BY <1>3, FS_Surjection
<1>5. N \in SUBSET M
  BY <1>1
<1> QED BY <1>4, <1>5, FS_Subset

LEMMA PricesOfPair ==
    ASSUME RowsInv, NEW i, NEW c, NEW q
    PROVE  /\ LoadMetricPriceHistory(i, c, q) \in SUBSET Visible
           /\ \A r \in LoadMetricPriceHistory(i, c, q) : r.kind = "price" /\ r.of = i /\ r.in = c
<1>1. PICK S : S = {r \in InWindow("price", q) : Pair(r) = <<i, c>>}
  OBVIOUS
<1>2. S \subseteq revisions
  BY <1>1 DEF InWindow, EligibleRows, Visible
<1>3. ASSUME NEW t \in {r.obs : r \in S}
      PROVE  FirstRow({r \in S : r.obs = t}, q) \in S
  <2>1. PICK T : T = {r \in S : r.obs = t}
    OBVIOUS
  <2>2. T \subseteq revisions /\ T # {}
    BY <1>2, <2>1
  <2>3. FirstRow(T, q) \in T
    BY <2>2, FirstRowIs
  <2> QED BY <2>1, <2>3
<1>4. PICK H : H = LoadMetricPriceHistory(i, c, q)
  OBVIOUS
<1>5. H = {FirstRow({r \in S : r.obs = t}, q) : t \in {r.obs : r \in S}}
  BY <1>1, <1>4 DEF LoadMetricPriceHistory
<1>6. \A r \in H : r \in S
  BY <1>3, <1>5
<1>7. \A r \in S : r \in Visible /\ r.kind = "price" /\ r.of = i /\ r.in = c
  BY <1>1 DEF InWindow, EligibleRows, Pair
<1> QED BY <1>4, <1>6, <1>7

\* Cash entries are quotes of the history, and as many as its days at most.
IsCashOf(e, c) == \E x : QuoteFits(x, c) /\ e = CashEntry(x, c)

LEMMA CashHistoryQuotes ==
    ASSUME RowsInv, NEW c, NEW h, NEW k, QuotesFit(h, k, c), NEW maxAge \in Nat
    PROVE  /\ \A e \in BuildCashHistory(c, h, maxAge) : IsCashOf(e, c)
           /\ IsFiniteSet(BuildCashHistory(c, h, maxAge))
<1>0. k \in Nat /\ DOMAIN h = 1..k /\ \A n \in DOMAIN h : QuoteFits(h[n], c)
  BY DEF QuotesFit
<1>1. IsFiniteSet(1..k)
  BY <1>0, k \in Int, 1 \in Int, FS_Interval, Zenon
<1>2. ASSUME NEW d \in {Day(h[n].obs) : n \in DOMAIN h}
      PROVE  IsCashOf(CashEntry(SelectMetricFX(h, h[Min({n \in DOMAIN h : Day(h[n].obs) = d})].obs, maxAge)[1], c), c)
  <2>1. PICK N : N = {n \in DOMAIN h : Day(h[n].obs) = d}
    OBVIOUS
  <2>2. N # {} /\ N \in SUBSET (1..k)
    BY <1>0, <2>1
  <2>3. N \in SUBSET Int /\ IsFiniteSet(N)
    <3>1. IsFiniteSet(N)
      BY <1>1, <2>2, FS_Subset
    <3>2. \A n \in N : n \in Int
      BY <1>0, <2>2
    <3> QED BY <3>1, <3>2
  <2>4. Min(N) \in N
    BY <2>2, <2>3, MinMaxExist
  <2>5. PICK m \in DOMAIN h : m = Min(N)
    BY <2>1, <2>4
  <2>6. PICK at : at = h[m].obs
    OBVIOUS
  <2>7. at \in Int
    BY <1>0, <2>6, RowFields DEF QuoteFits, Visible
  <2>8. h[m].obs <= at /\ at - h[m].obs <= maxAge
    BY <2>6, <2>7
  <2>9. PICK fx : fx = SelectMetricFX(h, at, maxAge)
    OBVIOUS
  <2>10. fx # <<>> /\ \E n \in DOMAIN h : fx = <<h[n]>>
    <3>1. LET f == SelectMetricFX(h, at, maxAge) IN
          /\ f = <<>> \/ \E n \in DOMAIN h : f = <<h[n]>> /\ h[n].obs <= at
          /\ (\E n \in DOMAIN h : h[n].obs <= at /\ at - h[n].obs <= maxAge) => f # <<>>
      BY <1>0, MetricFXIs
    <3> QED BY <2>8, <2>9, <3>1
  <2>11. PICK n \in DOMAIN h : fx = <<h[n]>>
    BY <2>10
  <2>12. PICK y : y = h[n]
    OBVIOUS
  <2>13. fx[1] = y /\ QuoteFits(y, c)
    BY <1>0, <2>11, <2>12
  <2>14. IsCashOf(CashEntry(y, c), c)
    BY <2>13 DEF IsCashOf
  <2> QED BY <2>1, <2>5, <2>6, <2>9, <2>13, <2>14
<1>3. PICK days : days = {Day(h[n].obs) : n \in DOMAIN h}
  OBVIOUS
<1>4. PICK S : S = BuildCashHistory(c, h, maxAge)
  OBVIOUS
<1>5. S = {CashEntry(SelectMetricFX(h, h[Min({n \in DOMAIN h : Day(h[n].obs) = d})].obs, maxAge)[1], c) : d \in days}
  BY <1>3, <1>4 DEF BuildCashHistory
<1>6. IsFiniteSet(days)
  <2>1. PICK f : f = [n \in 1..k |-> Day(h[n].obs)]
    OBVIOUS
  <2>2. \A d \in days : \E n \in 1..k : d = f[n]
    BY <1>0, <1>3, <2>1
  <2> QED BY <1>1, <2>2, FiniteImage
<1>7. IsFiniteSet(S)
  <2>1. PICK f : f = [d \in days |->
          CashEntry(SelectMetricFX(h, h[Min({n \in DOMAIN h : Day(h[n].obs) = d})].obs, maxAge)[1], c)]
    OBVIOUS
  <2>2. \A e \in S : \E d \in days : e = f[d]
    BY <1>5, <2>1
  <2> QED BY <1>6, <2>2, FiniteImage
<1>8. \A e \in S : IsCashOf(e, c)
  BY <1>2, <1>3, <1>5
<1> QED BY <1>4, <1>7, <1>8

\* What a line contributes verifies, if all of it is in USD.
LineVerifies(l, S) ==
    /\ \A e \in S : e.obs \in Int /\ Verifies(Instr(l), e, IsCash(l))
    /\ AggregateHistory(S) = ExpectedHistory(S)

LEMMA EntriesVerify ==
    ASSUME PricesStayPositive, RowsInv, NEW l \in DOMAIN SnapshotLine, NEW v, v.request \in VRequest,
           ~(IsCash(l) /\ Native(l) = "USD"), \A e \in Entries(l, v) : e.usd # <<>>
    PROVE  LineVerifies(l, Entries(l, v))
<1>1. PICK q \in VRequest : q = v.request
  OBVIOUS
<1>2. q.fxMaxAge \in Nat
  BY ValuationAssumption
<1>3. PICK S : S = Entries(l, v)
  OBVIOUS
<1>4. /\ \A e \in S : e.obs \in Int /\ Verifies(Instr(l), e, IsCash(l))
      /\ IsFiniteSet(S)
  <2>1. CASE IsCash(l)
    <3>1. PICK c : c = Native(l)
      OBVIOUS
    <3>2. PICK h : h = LoadMetricFXHistory(c, q)
      OBVIOUS
    <3>3. PICK k : QuotesFit(h, k, c)
      BY <3>2, HistoryFits
    <3>4. PICK B : B = BuildCashHistory(c, h, q.fxMaxAge)
      OBVIOUS
    <3>5. (\A e \in B : IsCashOf(e, c)) /\ IsFiniteSet(B)
      BY <1>2, <3>3, <3>4, CashHistoryQuotes
    <3>6. S \in SUBSET B
      BY <1>1, <1>3, <2>1, <3>1, <3>2, <3>4 DEF Entries, SelectEntries
    <3>7. IsFiniteSet(S)
      BY <3>5, <3>6, FS_Subset
    <3>8. ASSUME NEW e \in S
          PROVE  e.obs \in Int /\ Verifies(Instr(l), e, TRUE)
      <4>1. IsCashOf(e, c)
        BY <3>5, <3>6
      <4>2. PICK x : QuoteFits(x, c) /\ e = CashEntry(x, c)
        BY <4>1 DEF IsCashOf
      <4>3. e.obs = x.obs /\ x.obs \in Int
        BY <4>2, RowFields DEF CashEntry, QuoteFits, Visible
      <4>4. Verifies(Instr(l), e, TRUE)
        BY <2>1, <3>1, <4>2, CashVerifies
      <4> QED BY <4>3, <4>4
    <3>9. IsCash(l) = TRUE
      BY <2>1 DEF IsCash
    <3> QED BY <3>7, <3>8, <3>9
  <2>2. CASE ~IsCash(l)
    <3>1. PICK c : c = v.lines[l].quote
      OBVIOUS
    <3>2. PICK h : h = IF c = "USD" THEN <<>> ELSE LoadMetricFXHistory(c, q)
      OBVIOUS
    <3>3. c = "USD" \/ \E k : QuotesFit(h, k, c)
      BY <3>2, HistoryFits
    <3>4. PICK k : c = "USD" \/ QuotesFit(h, k, c)
      BY <3>3
    <3>5. PICK i : i = Instr(l)
      OBVIOUS
    <3>6. PICK R : R = LoadMetricPriceHistory(i, c, q)
      OBVIOUS
    <3>7. R \in SUBSET Visible /\ \A r \in R : r.kind = "price" /\ r.of = i /\ r.in = c
      BY <3>6, PricesOfPair
    <3>8. PICK B : B = {PriceEntry(r, h, q.fxMaxAge) : r \in R}
      OBVIOUS
    <3>9. S \in SUBSET B
      BY <1>1, <1>3, <2>2, <3>1, <3>2, <3>5, <3>6, <3>8 DEF Entries, SelectEntries
    <3>10. IsFiniteSet(B)
      <4>1. IsFiniteSet(R)
        BY <3>7, VisibleFinite, FS_Subset
      <4>2. PICK f : f = [r \in R |-> PriceEntry(r, h, q.fxMaxAge)]
        OBVIOUS
      <4>3. \A e \in B : \E r \in R : e = f[r]
        BY <3>8, <4>2
      <4> QED BY <4>1, <4>3, FiniteImage
    <3>11. IsFiniteSet(S)
      BY <3>9, <3>10, FS_Subset
    <3>12. ASSUME NEW e \in S
           PROVE  e.obs \in Int /\ Verifies(i, e, FALSE)
      <4>1. PICK r \in R : e = PriceEntry(r, h, q.fxMaxAge)
        BY <3>8, <3>9
      <4>2. e.obs = r.obs /\ r.obs \in Int
        BY <3>7, <4>1, RowFields DEF PriceEntry, Visible
      <4>3. r \in Visible /\ r.kind = "price" /\ r.of = i /\ (QuotesFit(h, k, r.in) \/ r.in = "USD") /\ e.usd # <<>>
        BY <1>3, <3>4, <3>7
      <4>4. Verifies(i, e, FALSE)
        BY <4>1, <4>3, PriceVerifies
      <4> QED BY <4>2, <4>4
    <3>13. IsCash(l) = FALSE
      BY <2>2 DEF IsCash
    <3> QED BY <3>5, <3>11, <3>12, <3>13
  <2> QED BY <2>1, <2>2
<1>5. \A d \in EntryDays(S) : \E f \in S : Day(f.obs) = d /\ \A g \in S : Day(g.obs) = d => f.obs >= g.obs
  BY <1>4, FiniteHasLast
<1>6. AggregateHistory(S) = ExpectedHistory(S)
  BY <1>3, <1>5, HistoriesAgree
<1> QED BY <1>3, <1>4, <1>6 DEF LineVerifies

\* Cash in USD has one entry for a day.
LEMMA ConstantHistory ==
    ASSUME NEW l \in DOMAIN SnapshotLine, IsCash(l), Native(l) = "USD", NEW D \in SUBSET Int, NEW S,
           S = {ConstantEntry(d) : d \in D}
    PROVE  LineVerifies(l, S)
<1>1. ASSUME NEW e \in S
      PROVE  e.obs \in Int /\ e.usd # <<>> /\ Verifies(Instr(l), e, IsCash(l)) /\ e = ConstantEntry(Day(e.obs))
  <2>1. PICK d \in D : e = ConstantEntry(d)
    OBVIOUS
  <2>2. d \in Int /\ IsCash(l) = TRUE
    BY DEF IsCash
  <2>3. e.obs = d * DayLength /\ e.usd = <<Digits>>
    BY <2>1 DEF ConstantEntry
  <2>4. e.obs \in Int /\ Day(e.obs) = d
    BY <2>2, <2>3, DayBegins
  <2>5. Verifies(Instr(l), e, TRUE)
    BY <2>1, <2>2, ConstantVerifies
  <2>6. <<Digits>> # <<>>
    OBVIOUS
  <2> QED BY <2>1, <2>2, <2>3, <2>4, <2>5, <2>6
<1>2. \A d \in EntryDays(S) : \E f \in S : Day(f.obs) = d /\ \A g \in S : Day(g.obs) = d => f.obs >= g.obs
  <2> TAKE d \in EntryDays(S)
  <2>1. PICK f \in S : Day(f.obs) = d
    BY DEF EntryDays
  <2>2. \A g \in S : Day(g.obs) = d => g = f
    BY <1>1, <2>1
  <2>3. f.obs \in Int
    BY <1>1
  <2>4. \A g \in S : Day(g.obs) = d => f.obs >= g.obs
    BY <2>2, <2>3
  <2> QED BY <2>1, <2>4
<1>3. AggregateHistory(S) = ExpectedHistory(S)
  BY <1>1, <1>2, HistoriesAgree
<1> QED BY <1>1, <1>3 DEF LineVerifies

\* Of two days in a row one is no Saturday.
LEMMA CashDatesExist ==
    ASSUME NEW cutoff \in Int
    PROVE  ConstantCashDates(cutoff) \in SUBSET Int /\ ConstantCashDates(cutoff) # {}
<1>0. DayLength \in Nat \ {0} /\ CashDays \in Nat \ {0}
  BY QualityAssumption, MarketAssumption
<1>1. PICK last \in Int : last = Day(cutoff)
  BY <1>0 DEF Day
<1>2. PICK low \in Int : low = last - 2 * CashDays
  BY <1>0
<1>3. PICK C : C = {d \in low..last : d % 7 # 6}
  OBVIOUS
<1>4. C \in SUBSET Int /\ C # {}
  <2>1. last \in low..last /\ last - 1 \in low..last
    BY <1>0, <1>2
  <2>2. last % 7 # 6 \/ (last - 1) % 7 # 6
    OBVIOUS
  <2>3. C \in SUBSET Int
    <3>1. \A d \in C : d \in Int
      BY <1>3
    <3> QED BY <3>1
  <2> QED BY <1>3, <2>1, <2>2, <2>3
<1>5. IsFiniteSet(C)
  <2>1. IsFiniteSet(low..last)
    BY FS_Interval
  <2>2. C \in SUBSET (low..last)
    BY <1>3
  <2> QED BY <2>1, <2>2, FS_Subset
<1>6. Max(C) \in C /\ \A y \in C : Max(C) >= y
  BY <1>4, <1>5, MinMaxExist
<1>7. PICK m \in C : \A y \in C : m >= y
  BY <1>6
<1>8. {e \in C : e > m} = {}
  <2>1. \A e \in C : e \in Int /\ m \in Int /\ m >= e
    BY <1>4, <1>7
  <2>2. \A e \in C : ~(e > m)
    BY <2>1
  <2> QED BY <2>2
<1>9. Cardinality({e \in C : e > m}) < CashDays
  BY <1>0, <1>8, FS_EmptySet
<1>10. ConstantCashDates(cutoff) = {d \in C : Cardinality({e \in C : e > d}) < CashDays}
  BY <1>1, <1>2, <1>3 DEF ConstantCashDates
<1>11. m \in ConstantCashDates(cutoff)
  BY <1>9, <1>10
<1>12. ConstantCashDates(cutoff) \in SUBSET Int
  BY <1>4, <1>10
<1> QED BY <1>11, <1>12

LineIn(L, i) == CHOOSE l \in L : Instr(l) = i
Instruments(L) == {Instr(l) : l \in L}
Traded(L) == {l \in L : ~IsCash(l)}
Cash(L) == {l \in L : IsCash(l)}

\* A bundle whose lines verify does.
LEMMA LinesVerify ==
    ASSUME NEW L \in SUBSET DOMAIN SnapshotLine, \A l, m \in L : Instr(l) = Instr(m) => l = m,
           NEW H, \A l \in L : H[l] # {} /\ LineVerifies(l, H[l]), NEW b,
           b.prices = [i \in Instruments(L) |-> AggregateHistory(H[LineIn(L, i)])],
           b.revisions = [i \in Instruments(Traded(L)) |-> H[LineIn(L, i)]],
           b.cash = [i \in Instruments(Cash(L)) |-> H[LineIn(L, i)]]
    PROVE  AddMetricDependencies(b, Visible, Objects)
<1>1. \A l \in L : LineIn(L, Instr(l)) = l
  BY DEF LineIn
<1>2. ASSUME NEW i \in DOMAIN b.revisions
      PROVE  /\ b.revisions[i] # {} /\ b.prices[i] = ExpectedHistory(b.revisions[i])
             /\ \A e \in b.revisions[i] : EntryStands(i, e, FALSE, Visible, Objects)
             /\ \E l \in L : i = Instr(l) /\ ~IsCash(l)
  <2>1. PICK l \in L : i = Instr(l) /\ ~IsCash(l)
    BY <1>2 DEF Instruments, Traded
  <2>2. LineIn(L, i) = l /\ i \in Instruments(L) /\ i \in Instruments(Traded(L)) /\ IsCash(l) = FALSE
    BY <1>1, <1>2, <2>1 DEF Instruments, IsCash
  <2>3. b.revisions[i] = H[l] /\ b.prices[i] = AggregateHistory(H[l])
    BY <2>2
  <2> QED BY <2>1, <2>2, <2>3 DEF LineVerifies, Verifies
<1>3. ASSUME NEW i \in DOMAIN b.cash
      PROVE  /\ b.cash[i] # {} /\ b.prices[i] = ExpectedHistory(b.cash[i])
             /\ \A e \in b.cash[i] : EntryStands(i, e, TRUE, Visible, Objects)
             /\ \E l \in L : i = Instr(l) /\ IsCash(l)
  <2>1. PICK l \in L : i = Instr(l) /\ IsCash(l)
    BY <1>3 DEF Instruments, Cash
  <2>2. LineIn(L, i) = l /\ i \in Instruments(L) /\ i \in Instruments(Cash(L)) /\ IsCash(l) = TRUE
    BY <1>1, <1>3, <2>1 DEF Instruments, IsCash
  <2>3. b.cash[i] = H[l] /\ b.prices[i] = AggregateHistory(H[l])
    BY <2>2
  <2> QED BY <2>1, <2>2, <2>3 DEF LineVerifies, Verifies
<1>4. DOMAIN b.revisions \cap DOMAIN b.cash = {}
  <2> SUFFICES ASSUME NEW i \in DOMAIN b.revisions, i \in DOMAIN b.cash PROVE FALSE
    OBVIOUS
  <2>1. PICK l \in L : i = Instr(l) /\ ~IsCash(l)
    BY <1>2
  <2>2. PICK m \in L : i = Instr(m) /\ IsCash(m)
    BY <1>3
  <2>3. l = m
    BY <2>1, <2>2
  <2> QED BY <2>1, <2>2, <2>3
<1>5. \A i \in DOMAIN b.cash : InstrumentRow[i].kind \in {"cash", "currency"}
  <2> TAKE i \in DOMAIN b.cash
  <2>1. PICK l \in L : i = Instr(l) /\ IsCash(l)
    BY <1>3
  <2>2. InstrumentRow[Instr(l)].kind = SnapshotLine[l].type
    BY InstrumentIs
  <2> QED BY <2>1, <2>2 DEF IsCash
<1>6. DOMAIN b.prices = Covered(b)
  BY DEF Covered, Instruments, Traded, Cash
<1> QED BY <1>2, <1>3, <1>4, <1>5, <1>6 DEF AddMetricDependencies

\* What a risk run seals with a NAV history verifies at once.
LEMMA BundleVerifies ==
    ASSUME PricesStayPositive, RowsInv, NEW v, v.request \in VRequest,
           DOMAIN v.lines \subseteq SnapshotLines(v.request), NEW a,
           BuildBundle(v, AccountLines(v, a)).nav # <<>>
    PROVE  AddMetricDependencies(BuildBundle(v, AccountLines(v, a)), Visible, Objects)
<1>1. PICK L : L = AccountLines(v, a)
  OBVIOUS
<1>2. PICK b : b = BuildBundle(v, L)
  OBVIOUS
<1>3. /\ L \in SUBSET DOMAIN SnapshotLine
      /\ \A l \in L : SnapshotLine[l].snapshot = v.request.snapshot /\ SnapshotLine[l].account = a
  BY <1>1 DEF AccountLines, SnapshotLines
<1>4. ASSUME NEW l \in L, NEW m \in L, Instr(l) = Instr(m)
      PROVE  l = m
  <2>1. l \in DOMAIN SnapshotLine /\ m \in DOMAIN SnapshotLine
    BY <1>3
  <2>2. SnapshotLine[l].snapshot = SnapshotLine[m].snapshot /\ SnapshotLine[l].account = SnapshotLine[m].account
    BY <1>3
  <2> QED BY <1>4, <2>1, <2>2, MarketAssumption
<1>5. v.request.cutoff \in Int
  BY ValuationAssumption
<1>6. ~(Cardinality(L) > MaxMetricInstruments)
  <2> SUFFICES ASSUME Cardinality(L) > MaxMetricInstruments PROVE FALSE
    OBVIOUS
  <2>1. BuildBundle(v, L) = Blocked
    BY DEF BuildBundle
  <2>2. Blocked.nav = <<>>
    BY DEF Blocked
  <2> QED BY <1>1, <2>1, <2>2
<1> DEFINE dated    == L \ Constant(L)
           found    == [l \in dated |-> Entries(l, v)]
           whole    == \A l \in dated : found[l] # {} /\ \A e \in found[l] : e.usd # <<>>
           days     == UNION {EntryDays(found[l]) : l \in dated}
           cashDays == IF days = {} THEN ConstantCashDates(v.request.cutoff) ELSE days
           kept     == {l \in dated : found[l] # {}} \cup Constant(L)
           hist(l)  == IF l \in dated THEN found[l] ELSE {ConstantEntry(d) : d \in cashDays}
           line(i)  == CHOOSE l \in L : Instr(l) = i
           prices   == [i \in {Instr(l) : l \in kept} |-> AggregateHistory(hist(line(i)))]
           quantity == [i \in DOMAIN prices |-> SnapshotLine[line(i)].quantity]
<1>7. b = [prices    |-> prices,
           revisions |-> [i \in {Instr(l) : l \in {m \in kept : ~IsCash(m)}} |-> hist(line(i))],
           cash      |-> [i \in {Instr(l) : l \in {m \in kept : IsCash(m)}} |-> hist(line(i))],
           nav       |-> IF whole THEN BuildMetricNAV(prices, quantity) ELSE <<>>]
  BY <1>2, <1>6 DEF BuildBundle
<1>8. whole
  <2>1. b.nav = IF whole THEN BuildMetricNAV(prices, quantity) ELSE <<>>
    BY <1>7
  <2> QED BY <1>1, <1>2, <2>1
<1>9. \A l \in dated : Entries(l, v) # {} /\ \A e \in Entries(l, v) : e.usd # <<>>
  BY <1>8
<1>10. kept = L
  BY <1>9 DEF Constant
<1>11. ASSUME NEW l \in dated
       PROVE  LineVerifies(l, Entries(l, v))
  <2>1. ~(IsCash(l) /\ Native(l) = "USD")
    BY <1>11 DEF Constant
  <2>2. l \in DOMAIN SnapshotLine
    BY <1>3, <1>11
  <2> QED BY <1>9, <1>11, <2>1, <2>2, EntriesVerify
<1>12. cashDays \in SUBSET Int /\ cashDays # {}
  <2>1. days \in SUBSET Int
    <3>1. ASSUME NEW l \in dated, NEW e \in Entries(l, v)
          PROVE  Day(e.obs) \in Int
      <4>1. e.obs \in Int
        BY <1>11, <3>1 DEF LineVerifies
      <4>2. DayLength \in Nat \ {0}
        BY QualityAssumption
      <4> QED BY <4>1, <4>2 DEF Day
    <3>2. \A l \in dated : EntryDays(found[l]) \in SUBSET Int
      BY <3>1 DEF EntryDays
    <3> QED BY <3>2
  <2> QED BY <1>5, <2>1, CashDatesExist
<1>13. PICK H : H = [l \in L |-> hist(l)]
  OBVIOUS
<1>14. ASSUME NEW l \in L
       PROVE  H[l] # {} /\ LineVerifies(l, H[l])
  <2>1. CASE l \in dated
    <3>1. H[l] = Entries(l, v)
      BY <1>13, <2>1
    <3> QED BY <1>9, <1>11, <2>1, <3>1
  <2>2. CASE l \notin dated
    <3>1. IsCash(l) /\ Native(l) = "USD" /\ l \in DOMAIN SnapshotLine
      BY <1>3, <2>2 DEF Constant
    <3>2. PICK D \in SUBSET Int : D = cashDays /\ D # {}
      BY <1>12
    <3>3. H[l] = {ConstantEntry(d) : d \in D}
      BY <1>13, <2>2, <3>2
    <3>4. H[l] # {}
      BY <3>2, <3>3
    <3> QED BY <3>1, <3>3, <3>4, ConstantHistory
  <2> QED BY <2>1, <2>2
<1>15. \A i \in Instruments(L) : LineIn(L, i) \in L /\ line(i) = LineIn(L, i)
  BY DEF LineIn, Instruments
<1>16. \A l \in L : hist(l) = H[l]
  BY <1>13
<1> HIDE DEF hist, line
<1>17. \A i \in Instruments(L) : hist(line(i)) = H[LineIn(L, i)]
  BY <1>15, <1>16
<1>18. /\ b.prices = [i \in {Instr(l) : l \in kept} |-> AggregateHistory(hist(line(i)))]
       /\ b.revisions = [i \in {Instr(l) : l \in {m \in kept : ~IsCash(m)}} |-> hist(line(i))]
       /\ b.cash = [i \in {Instr(l) : l \in {m \in kept : IsCash(m)}} |-> hist(line(i))]
  BY <1>7
<1> HIDE DEF kept
<1>19. /\ b.prices = [i \in Instruments(L) |-> AggregateHistory(H[LineIn(L, i)])]
       /\ b.revisions = [i \in Instruments(Traded(L)) |-> H[LineIn(L, i)]]
       /\ b.cash = [i \in Instruments(Cash(L)) |-> H[LineIn(L, i)]]
  BY <1>10, <1>17, <1>18 DEF Instruments, Traded, Cash
<1>20. AddMetricDependencies(b, Visible, Objects)
  BY <1>3, <1>4, <1>14, <1>19, LinesVerify
<1> QED BY <1>1, <1>2, <1>20

\* Valued lines are lines of the snapshot.
LinesAreOfSnapshot ==
    \A n \in DOMAIN valuations : DOMAIN valuations[n].lines \subseteq SnapshotLines(valuations[n].request)

\* A sealed run that can have metrics verifies with the rows seen now.
SealsInv == LinesAreOfSnapshot /\ SealedRunVerifies

LEMMA PersistedLines ==
    ASSUME ValuationsInv, LinesAreOfSnapshot, PersistValuation
    PROVE  LinesAreOfSnapshot'
<1>1. IsSeq(valuations)
  BY DEF ValuationsInv
<1>2. PICK q : q = valuer.request
  OBVIOUS
<1>3. PICK lines : lines = [l \in SnapshotLines(q) |-> LineResult(l, valuer)]
  OBVIOUS
<1>4. PICK e : e = [request |-> q, settled |-> valuer.settled, lines |-> lines, state |-> RunState(lines),
                    totals |-> <<TotalOf(lines, "try"), TotalOf(lines, "usd")>>]
  OBVIOUS
<1>5. valuations' = Append(valuations, e)
  BY <1>2, <1>3, <1>4 DEF PersistValuation
<1>6. /\ DOMAIN Append(valuations, e) = DOMAIN valuations \cup {Len(valuations) + 1}
      /\ \A n \in DOMAIN valuations : Append(valuations, e)[n] = valuations[n]
      /\ Append(valuations, e)[Len(valuations) + 1] = e
  BY <1>1, AppendSeq
<1>7. e.request = q /\ e.lines = lines /\ DOMAIN lines = SnapshotLines(q)
  BY <1>3, <1>4
<1>8. \A n \in DOMAIN valuations' : \/ n \in DOMAIN valuations /\ valuations'[n] = valuations[n]
                                    \/ valuations'[n] = e
  BY <1>5, <1>6
<1>9. \A n \in DOMAIN valuations' : DOMAIN valuations'[n].lines \subseteq SnapshotLines(valuations'[n].request)
  BY <1>7, <1>8 DEF LinesAreOfSnapshot
<1> QED BY <1>9 DEF LinesAreOfSnapshot, SnapshotLines

\* New rows take nothing away from what verified.
LEMMA EntryGoesOnVerifying ==
    ASSUME Visible \subseteq Visible', NEW i, NEW e, NEW inCash, EntryStands(i, e, inCash, Visible, Objects)
    PROVE  EntryStands(i, e, inCash, Visible, Objects)'
<1>1. CASE inCash /\ e.constant
  BY <1>1 DEF EntryStands
<1>2. CASE ~(inCash /\ e.constant)
  <2>1. /\ IF inCash THEN e.quote = InstrumentRow[i].native /\ VerifyMetricCash(e, Visible)
           ELSE VerifyMetricPrice(i, e, Visible)
        /\ ValidUSDConversion(e)
        /\ \A n \in DOMAIN e.path : VerifyMetricFX(e.path[n], Visible)
    BY <1>2 DEF EntryStands
  <2>2. VerifyMetricCash(e, Visible) => VerifyMetricCash(e, Visible')
    BY DEF VerifyMetricCash, Row
  <2>3. VerifyMetricPrice(i, e, Visible) => VerifyMetricPrice(i, e, Visible')
    BY DEF VerifyMetricPrice, Row
  <2>4. \A n \in DOMAIN e.path : VerifyMetricFX(e.path[n], Visible')
    BY <2>1 DEF VerifyMetricFX, Row
  <2>5. \A r \in EntryRows(e, Visible') : r.raw \in Objects'
    BY DEF EntryRows, Visible, Objects
  <2> QED BY <1>2, <2>1, <2>2, <2>3, <2>4, <2>5 DEF EntryStands
<1> QED BY <1>1, <1>2

LEMMA BundleGoesOnVerifying ==
    ASSUME Visible \subseteq Visible', NEW b, AddMetricDependencies(b, Visible, Objects)
    PROVE  AddMetricDependencies(b, Visible', Objects')
<1>1. /\ \A i \in DOMAIN b.revisions : \A e \in b.revisions[i] : EntryStands(i, e, FALSE, Visible', Objects')
      /\ \A i \in DOMAIN b.cash : \A e \in b.cash[i] : EntryStands(i, e, TRUE, Visible', Objects')
  BY EntryGoesOnVerifying DEF AddMetricDependencies
<1> QED BY <1>1 DEF AddMetricDependencies

LEMMA SealsStay ==
    ASSUME Visible \subseteq Visible', SealedRunVerifies, riskRuns' = riskRuns
    PROVE  SealedRunVerifies'
<1>1. ASSUME NEW r \in riskRuns, r.bundle.nav # <<>>
      PROVE  AddMetricDependencies(r.bundle, Visible', Objects')
  <2>1. PICK b : b = r.bundle
    OBVIOUS
  <2>2. AddMetricDependencies(b, Visible, Objects)
    BY <1>1, <2>1 DEF SealedRunVerifies, Objects
  <2>3. AddMetricDependencies(b, Visible', Objects')
    BY <2>2, BundleGoesOnVerifying
  <2> QED BY <2>1, <2>3
<1> QED BY <1>1 DEF SealedRunVerifies, Objects

LEMMA SubmitVerifies ==
    ASSUME PricesStayPositive, RowsInv, ValuationsInv, SealsInv, NEW n \in DOMAIN valuations, NEW a,
           SubmitRun(n, a), UNCHANGED revisionVars
    PROVE  SealedRunVerifies'
<1>1. PICK v : v = valuations[n]
  OBVIOUS
<1>2. v.request \in VRequest /\ DOMAIN v.lines \subseteq SnapshotLines(v.request)
  BY <1>1 DEF ValuationsInv, ValuationStands, SealsInv, LinesAreOfSnapshot
<1>3. PICK b : b = BuildBundle(v, AccountLines(v, a))
  OBVIOUS
<1>4. b.nav # <<>> => AddMetricDependencies(b, Visible, Objects)
  BY <1>2, <1>3, BundleVerifies
<1>5. PICK r : /\ r = [valuation |-> n, account |-> a, bundle |-> BuildBundle(v, AccountLines(v, a)),
                       positions |-> [l \in AccountLines(v, a) |-> Position(l, v)]]
               /\ riskRuns' = riskRuns \cup {r}
  BY <1>1 DEF SubmitRun
<1>6. r.bundle = b
  BY <1>3, <1>5
<1>7. \A s \in riskRuns' : s.bundle.nav # <<>> => AddMetricDependencies(s.bundle, Visible, Objects)
  BY <1>4, <1>5, <1>6 DEF SealsInv, SealedRunVerifies, Objects
<1>8. Visible' = Visible /\ revisions' = revisions
  BY DEF revisionVars, Visible
<1> QED BY <1>7, <1>8 DEF SealedRunVerifies, Objects

LEMMA SealsGoOn ==
    ASSUME PricesStayPositive, ReadersInv, SealsInv, [ReadersNext]_readersVars
    PROVE  SealsInv'
<1>0. RowsInv /\ ValuationsInv
  BY DEF ReadersInv
<1>1. ASSUME RevisionsKept, UNCHANGED <<valuationVars, riskRuns>>
      PROVE  SealsInv'
  <2>1. Visible \subseteq Visible' /\ valuations' = valuations /\ riskRuns' = riskRuns
    BY <1>1 DEF RevisionsKept, valuationVars
  <2>2. SealedRunVerifies'
    BY <2>1, SealsStay DEF SealsInv
  <2>3. LinesAreOfSnapshot'
    BY <2>1 DEF SealsInv, LinesAreOfSnapshot, SnapshotLines
  <2> QED BY <2>2, <2>3 DEF SealsInv
<1>2. CASE UNCHANGED revisionVars /\ UNCHANGED <<valuationVars, riskRuns>>
  BY <1>0, <1>1, <1>2, UnchangedKeeps
<1>3. CASE (\E A \in SUBSET Arrival : RevisionNext(A)) /\ UNCHANGED <<valuationVars, riskRuns>>
  BY <1>0, <1>1, <1>3, RevisionStepKeeps
<1>4. CASE PersistValuation /\ UNCHANGED revisionVars /\ UNCHANGED riskRuns
  <2>1. Visible \subseteq Visible'
    BY <1>4 DEF revisionVars, Visible
  <2>2. SealedRunVerifies'
    BY <1>4, <2>1, SealsStay DEF SealsInv
  <2>3. LinesAreOfSnapshot'
    BY <1>0, <1>4, PersistedLines DEF SealsInv
  <2> QED BY <2>2, <2>3 DEF SealsInv
<1>5. CASE /\ (\E q \in VRequest : BeginValuation(q)) \/ LoadPrices \/ FailValuation
           /\ UNCHANGED revisionVars /\ UNCHANGED riskRuns
  <2>1. Visible \subseteq Visible' /\ valuations' = valuations /\ riskRuns' = riskRuns
    BY <1>5 DEF revisionVars, Visible, BeginValuation, LoadPrices, FailValuation
  <2>2. SealedRunVerifies'
    BY <2>1, SealsStay DEF SealsInv
  <2>3. LinesAreOfSnapshot'
    BY <2>1 DEF SealsInv, LinesAreOfSnapshot, SnapshotLines
  <2> QED BY <2>2, <2>3 DEF SealsInv
<1>6. CASE /\ \E n \in DOMAIN valuations, a \in Holder : SubmitRun(n, a)
           /\ UNCHANGED <<revisionVars, valuationVars>>
  <2>1. PICK n \in DOMAIN valuations, a \in Holder : SubmitRun(n, a)
    BY <1>6
  <2>2. UNCHANGED revisionVars /\ valuations' = valuations
    BY <1>6 DEF valuationVars
  <2>3. SealedRunVerifies'
    BY <1>0, <2>1, <2>2, SubmitVerifies
  <2>4. LinesAreOfSnapshot'
    BY <2>2 DEF SealsInv, LinesAreOfSnapshot, SnapshotLines
  <2> QED BY <2>3, <2>4 DEF SealsInv
<1>7. CASE RevisionNext({a \in Arrival : a.kind # "observation"}) /\ UNCHANGED valuationVars /\ UNCHANGED riskRuns
  <2>1. PICK A \in SUBSET Arrival : A = {a \in Arrival : a.kind # "observation"}
    OBVIOUS
  <2>2. RevisionNext(A)
    BY <1>7, <2>1
  <2> QED BY <1>3, <1>7, <2>2
<1>8. CASE Observed /\ UNCHANGED <<valuationVars, riskRuns>>
  <2>1. PICK A \in SUBSET Arrival : A = {a \in Arrival : a.kind = "observation"}
    OBVIOUS
  <2>2. RevisionNext(A)
    BY <1>8, <2>1 DEF Observed
  <2> QED BY <1>3, <1>8, <2>2
<1>9. CASE ValuationStep
  BY <1>4, <1>5, <1>6, <1>7, <1>9 DEF ValuationStep, MarketNext, ValuationNext
<1>10. CASE TimelineStep
  BY <1>2, <1>8, <1>10 DEF TimelineStep
<1>11. CASE QualityStep
  BY <1>2, <1>8, <1>11 DEF QualityStep
<1>12. CASE UNCHANGED readersVars
  BY <1>2, <1>12 DEF readersVars, marketVars
<1> QED BY <1>9, <1>10, <1>11, <1>12 DEF ReadersNext

-----------------------------------------------------------------------------
(* What readers can rely on.                                               *)

(* The inductive invariant: rows keep the clock of their insert, and what  *)
(* each reader has read so far fits the rows that can be seen now.         *)
THEOREM ReadersFit == ReadersSpec => []ReadersInv
BY ReadersStart, ReadersGoOn, PTL DEF ReadersSpec

(* A question about the past has one answer (service.go of valuation,      *)
(* timeline and quality, as_of reads): for any arrivals, corrections,      *)
(* rollbacks and interleaving, and any requests and page limits.           *)
THEOREM PastIsAnsweredOnce == ReadersSpec => []AnswersRepeat
<1>1. ReadersInv => AnswersRepeat
  BY ValuationsReplay, WalksReplay, QualityAnswersReplay DEF ReadersInv, AnswersRepeat
<1> QED BY <1>1, ReadersFit, PTL

(* pathFor, bridgeQuote and loadFX of valuation/service.go: every amount   *)
(* is converted along one connected path, and the positions sealed for the *)
(* risk worker name connected paths.  Of a settled system-as-of valuation: *)
(* the path is one direct quote if any is usable, the newest of both       *)
(* orientations; else two edges over USD, each the newest quote of the     *)
(* orientation it is taken in, if both legs have any; else the amount is   *)
(* missing.                                                                *)
THEOREM AmountsConnect == ReadersSpec => []ConversionsConnect
<1>1. ReadersInv => ConversionsConnect
  BY ValuationPathsConnect, RunsConnect, ValuationsAsPromised DEF ReadersInv, ConversionsConnect
<1> QED BY <1>1, ReadersFit, PTL

(* selectMetricFXRevision and the queries of scenarios/service.go: no      *)
(* history that a run seals rests on a revision from after the known_at of *)
(* its valuation, nor a price on a quote observed after the price.         *)
THEOREM NothingFromTheFuture == ReadersSpec => []NoLookAhead
<1>1. ReadersInv => NoLookAhead
  BY RunsLookBack DEF ReadersInv
<1> QED BY <1>1, ReadersFit, PTL

(* Keyset paging of timeline/service.go: whatever is inserted between two  *)
(* pages, a walk lists in order and no row twice, misses nothing that was  *)
(* listed when it began, and finds items behind every has_more.            *)
THEOREM PagingIsComplete == ReadersSpec => []WalkIsComplete
<1>1. ReadersInv => WalkIsComplete
  BY WalksAreComplete DEF ReadersInv
<1> QED BY <1>1, ReadersFit, PTL

(* Evaluate of quality/evaluate.go: the gaps it names are the expected     *)
(* days without a value, and an answer that is valid as a whole vouches    *)
(* for each of its series: young values, no gap, no suspect or missing one.*)
THEOREM QualityTellsTheTruth == ReadersSpec => []QualityIsSound
<1>1. ReadersInv => QualityIsSound
  BY GapsExact, ValidSound DEF ReadersInv, QualityIsSound
<1> QED BY <1>1, ReadersFit, PTL

(* validateMetricUSDConversion and addMetricDependencies of                *)
(* evidence/service.go against loadSealedValuation of scenarios/service.go: *)
(* unless a price is rounded to nothing, a run that was sealed with a NAV  *)
(* history verifies then and ever after, to the last digit.                *)
THEOREM SealsVerify == PricesStayPositive => (ReadersSpec => []SealedRunVerifies)
<1> SUFFICES ASSUME PricesStayPositive PROVE ReadersSpec => []SealedRunVerifies
  OBVIOUS
<1>1. ReadersInit => SealsInv
  BY EmptyDomain DEF ReadersInit, MarketInit, ValuationInit, SealsInv, LinesAreOfSnapshot, SealedRunVerifies
<1>2. ReadersInv /\ SealsInv /\ [ReadersNext]_readersVars => SealsInv'
  BY SealsGoOn
<1>3. SealsInv => SealedRunVerifies
  BY DEF SealsInv
<1> QED BY <1>1, <1>2, <1>3, ReadersFit, PTL DEF ReadersSpec

=============================================================================
