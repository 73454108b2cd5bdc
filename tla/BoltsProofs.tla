----------------------------- MODULE BoltsProofs -----------------------------
(***************************************************************************)
(* Proofs about the Bolts ledger, for any events, accounts, prices, caps   *)
(* and number of faults.                                                   *)
(***************************************************************************)
EXTENDS Bolts, FiniteSetTheorems, WellFoundedInduction, TLAPS

-----------------------------------------------------------------------------
(* Numbers and sums. *)

\* A set of numbers that holds 0, and the next number with each, holds them all: were one
\* outside, so were a least one.
LEMMA AllNumbers ==
  ASSUME NEW A \in SUBSET Nat, 0 \in A, \A n \in A : n + 1 \in A
  PROVE  Nat \subseteq A
<1> SUFFICES ASSUME NEW m \in Nat, m \notin A PROVE FALSE
  OBVIOUS
<1> DEFINE Below(i) == {j \in 0 .. m : j < i}
<1> DEFINE Outside == {i \in 0 .. m : i \notin A}
<1> DEFINE Belows == {Below(i) : i \in Outside}
<1>1. IsWellFoundedOn(StrictSubsetOrdering(0 .. m), FiniteSubsetsOf(0 .. m))
  BY FS_StrictSubsetOrderingWellFounded
<1>2. IsFiniteSet(0 .. m)
  BY FS_Interval
<1>3. m \in Outside
  OBVIOUS
<1>4. Belows \subseteq FiniteSubsetsOf(0 .. m) /\ Belows # {}
  <2>1. \A T \in SUBSET (0 .. m) : IsFiniteSet(T)
    BY <1>2, FS_Subset
  <2>2. Belows \subseteq SUBSET (0 .. m)
    OBVIOUS
  <2>3. Belows # {}
    <3> HIDE DEF Below, Outside
    <3> QED BY <1>3
  <2> HIDE DEF Belows
  <2> QED BY <2>1, <2>2, <2>3 DEF FiniteSubsetsOf
<1>5. PICK B \in Belows : \A C \in Belows : ~ (<<C, B>> \in StrictSubsetOrdering(0 .. m))
  <2> HIDE DEF Belows
  <2> QED BY <1>1, <1>4, WFMin
<1>6. PICK i \in Outside : B = Below(i)
  <2> HIDE DEF Below, Outside
  <2> QED OBVIOUS
<1>7. i # 0 /\ i - 1 \in Outside
  <2>1. i \in 0 .. m /\ i \notin A
    BY <1>6
  <2>2. i # 0 /\ i - 1 \in 0 .. m /\ (i - 1) + 1 = i
    BY <2>1
  <2>3. i - 1 \notin A
    BY <2>1, <2>2
  <2> QED BY <2>2, <2>3
<1>8. Below(i - 1) \in Belows
  <2> HIDE DEF Below, Outside
  <2> QED BY <1>7
<1>9. <<Below(i - 1), B>> \in StrictSubsetOrdering(0 .. m)
  <2>1. i \in 0 .. m /\ i - 1 \in 0 .. m
    BY <1>6, <1>7
  <2>2. Below(i - 1) \subseteq Below(i) /\ i - 1 \in Below(i) /\ i - 1 \notin Below(i - 1)
    BY <2>1
  <2>3. Below(i - 1) \in SUBSET (0 .. m) /\ Below(i) \in SUBSET (0 .. m)
    OBVIOUS
  <2> HIDE DEF Below
  <2> QED BY <1>6, <2>2, <2>3 DEF StrictSubsetOrdering
<1> QED BY <1>5, <1>8, <1>9

\* A bounded set of numbers that is not empty has a greatest one: otherwise it would lie
\* below each number from the bound down.
LEMMA LastExists ==
  ASSUME NEW n \in Nat, NEW S \in SUBSET (0 .. n), S # {}
  PROVE  Max(S) \in S /\ \A j \in S : j <= Max(S)
<1>1. \E last \in S : \A j \in S : j <= last
  <2> SUFFICES ASSUME \A last \in S : \E j \in S : j > last PROVE FALSE
    OBVIOUS
  <2> DEFINE A == {k \in Nat : \A j \in S : j + k <= n}
  <2>1. 0 \in A
    OBVIOUS
  <2>2. \A k \in A : k + 1 \in A
    <3> SUFFICES ASSUME NEW k \in A, NEW j \in S PROVE j + (k + 1) <= n
      OBVIOUS
    <3>1. PICK i \in S : i > j
      OBVIOUS
    <3> QED BY <3>1
  <2>3. n + 1 \in A
    <3> HIDE DEF A
    <3>1. A \in SUBSET Nat
      BY DEF A
    <3>2. n + 1 \in Nat
      OBVIOUS
    <3> QED BY <2>1, <2>2, <3>1, <3>2, AllNumbers
  <2>4. PICK j \in S : j \in 0 .. n
    OBVIOUS
  <2> QED BY <2>3, <2>4
<1> QED BY <1>1 DEF Max

\* And a least one, since it would lie above each number from 0 up.
LEMMA FirstExists ==
  ASSUME NEW n \in Nat, NEW S \in SUBSET (1 .. n), S # {}
  PROVE  Min(S) \in S /\ \A j \in S : Min(S) <= j
<1>1. \E first \in S : \A j \in S : first <= j
  <2> SUFFICES ASSUME \A first \in S : \E j \in S : j < first PROVE FALSE
    OBVIOUS
  <2> DEFINE A == {k \in Nat : \A j \in S : j > k}
  <2>1. 0 \in A
    OBVIOUS
  <2>2. \A k \in A : k + 1 \in A
    <3> SUFFICES ASSUME NEW k \in A, NEW j \in S PROVE j > k + 1
      OBVIOUS
    <3>1. PICK i \in S : i < j
      OBVIOUS
    <3> QED BY <3>1
  <2>3. n \in A
    <3> HIDE DEF A
    <3>1. A \in SUBSET Nat
      BY DEF A
    <3> QED BY <2>1, <2>2, <3>1, AllNumbers
  <2>4. PICK j \in S : j \in 1 .. n
    OBVIOUS
  <2> QED BY <2>3, <2>4
<1> QED BY <1>1 DEF Min

\* The running sums of n weights.
Upto(f, n, weight) ==
  /\ f \in [0 .. n -> Int] /\ f[0] = 0
  /\ \A i \in 1 .. n : f[i] = f[i - 1] + weight[i]

\* There are running sums, and SumTo is the last of them.
LEMMA SumIsUpto ==
  ASSUME NEW n \in Nat, NEW weight \in [1 .. n -> Int]
  PROVE  \E f : Upto(f, n, weight) /\ SumTo(n, weight) = f[n]
<1> DEFINE A == {k \in Nat : k <= n => \E f : Upto(f, k, weight)}
<1> DEFINE Defines(f) == f = [i \in 0 .. n |-> IF i = 0 THEN 0 ELSE f[i - 1] + weight[i]]
<1>1. 0 \in A
  <2> DEFINE f == [i \in {0} |-> 0]
  <2>1. 0 .. 0 = {0} /\ 1 .. 0 = {}
    OBVIOUS
  <2>2. Upto(f, 0, weight)
    BY <2>1 DEF Upto
  <2> HIDE DEF f
  <2> QED BY <2>2
<1>2. \A k \in A : k + 1 \in A
  <2> SUFFICES ASSUME NEW k \in Nat, k + 1 <= n, \E f : Upto(f, k, weight)
               PROVE  \E g : Upto(g, k + 1, weight)
    OBVIOUS
  <2>1. PICK f : Upto(f, k, weight)
    OBVIOUS
  <2> DEFINE g == [i \in 0 .. k + 1 |-> IF i <= k THEN f[i] ELSE f[k] + weight[k + 1]]
  <2>2. k \in 0 .. k /\ k + 1 \in 1 .. n /\ f[k] \in Int /\ weight[k + 1] \in Int
    BY <2>1 DEF Upto
  <2>3. /\ \A i \in 0 .. k : g[i] = f[i] /\ f[i] \in Int
        /\ g[k + 1] = f[k] + weight[k + 1]
    BY <2>1 DEF Upto
  <2>4. g \in [0 .. k + 1 -> Int]
    BY <2>2, <2>3
  <2> HIDE DEF g
  <2>5. \A i \in 1 .. k + 1 : g[i] = g[i - 1] + weight[i]
    <3> TAKE i \in 1 .. k + 1
    <3>1. CASE i = k + 1
      BY <2>2, <2>3, <3>1
    <3>2. CASE i # k + 1
      <4>1. i \in 0 .. k /\ i - 1 \in 0 .. k /\ i \in 1 .. k
        BY <3>2
      <4> QED BY <2>1, <2>3, <4>1 DEF Upto
    <3> QED BY <3>1, <3>2
  <2>6. Upto(g, k + 1, weight)
    BY <2>1, <2>3, <2>4, <2>5 DEF Upto
  <2> QED BY <2>6
<1>3. n \in A
  <2> HIDE DEF A
  <2>1. A \in SUBSET Nat
    BY DEF A
  <2> QED BY <1>1, <1>2, <2>1, AllNumbers
<1>4. PICK f : Upto(f, n, weight)
  BY <1>3
<1>5. Defines(f)
  BY <1>4 DEF Upto
<1> DEFINE upto == CHOOSE g : Defines(g)
<1>6. Defines(upto)
  <2> HIDE DEF Defines
  <2> QED BY <1>5
<1>7. SumTo(n, weight) = upto[n]
  BY DEF SumTo
<1>8. upto[0] = 0 /\ \A i \in 1 .. n : upto[i] = upto[i - 1] + weight[i]
  <2> HIDE DEF upto
  <2> QED BY <1>6
<1>9. upto = f
  <2> DEFINE B == {k \in Nat : k <= n => upto[k] = f[k]}
  <2>1. 0 \in B
    BY <1>4, <1>8 DEF Upto
  <2>2. \A k \in B : k + 1 \in B
    <3> SUFFICES ASSUME NEW k \in Nat, k + 1 <= n, upto[k] = f[k]
                 PROVE  upto[k + 1] = f[k + 1]
      OBVIOUS
    <3>1. k + 1 \in 1 .. n /\ (k + 1) - 1 = k
      OBVIOUS
    <3> HIDE DEF upto
    <3> QED BY <1>4, <1>8, <3>1 DEF Upto
  <2>3. Nat \subseteq B
    <3> HIDE DEF B
    <3>1. B \in SUBSET Nat
      BY DEF B
    <3> QED BY <2>1, <2>2, <3>1, AllNumbers
  <2>4. \A i \in 0 .. n : upto[i] = f[i]
    BY <2>3
  <2> HIDE DEF upto, B
  <2> QED BY <1>4, <2>4, <1>6 DEF Upto
<1> HIDE DEF upto
<1> QED BY <1>4, <1>7, <1>9

\* Running sums of weights that agree agree.
LEMMA SameSums ==
  ASSUME NEW n \in Nat, NEW m \in Nat, n <= m, NEW v, NEW w, NEW f, NEW g,
         Upto(f, n, v), Upto(g, m, w), \A i \in 1 .. n : v[i] = w[i]
  PROVE  f[n] = g[n]
<1> DEFINE A == {k \in Nat : k <= n => f[k] = g[k]}
<1>1. 0 \in A
  BY DEF Upto
<1>2. \A k \in A : k + 1 \in A
  <2> SUFFICES ASSUME NEW k \in Nat, k + 1 <= n, f[k] = g[k]
               PROVE  f[k + 1] = g[k + 1]
    OBVIOUS
  <2>1. k + 1 \in 1 .. n /\ k + 1 \in 1 .. m /\ (k + 1) - 1 = k
    OBVIOUS
  <2> QED BY <2>1 DEF Upto
<1>3. n \in A
  <2> HIDE DEF A
  <2>1. A \in SUBSET Nat
    BY DEF A
  <2> QED BY <1>1, <1>2, <2>1, AllNumbers
<1> QED BY <1>3

\* A sum of numbers is one, one more weight adds itself, and no weights add nothing.
LEMMA SumIsInt ==
  ASSUME NEW n \in Nat, NEW weight \in [1 .. n -> Int]
  PROVE  SumTo(n, weight) \in Int
<1>1. PICK f : Upto(f, n, weight) /\ SumTo(n, weight) = f[n]
  BY SumIsUpto
<1> QED BY <1>1 DEF Upto

LEMMA SumOfOneMore ==
  ASSUME NEW n \in Nat, NEW v \in [1 .. n -> Int], NEW w \in [1 .. n + 1 -> Int],
         \A i \in 1 .. n : w[i] = v[i]
  PROVE  SumTo(n + 1, w) = SumTo(n, v) + w[n + 1]
<1>1. PICK f : Upto(f, n, v) /\ SumTo(n, v) = f[n]
  BY SumIsUpto
<1>2. PICK g : Upto(g, n + 1, w) /\ SumTo(n + 1, w) = g[n + 1]
  <2>1. n + 1 \in Nat
    OBVIOUS
  <2> QED BY <2>1, SumIsUpto
<1>3. f[n] = g[n]
  <2>1. n + 1 \in Nat /\ n <= n + 1
    OBVIOUS
  <2> QED BY <1>1, <1>2, <2>1, SameSums
<1>4. n + 1 \in 1 .. n + 1 /\ (n + 1) - 1 = n
  OBVIOUS
<1> QED BY <1>1, <1>2, <1>3, <1>4 DEF Upto

LEMMA SumOfNothing ==
  ASSUME NEW n \in Nat, NEW weight \in [1 .. n -> Int], \A i \in 1 .. n : weight[i] = 0
  PROVE  SumTo(n, weight) = 0
<1>1. PICK f : Upto(f, n, weight) /\ SumTo(n, weight) = f[n]
  BY SumIsUpto
<1> DEFINE zero == [i \in 0 .. n |-> 0]
<1>2. Upto(zero, n, weight)
  BY DEF Upto
<1>3. zero[n] = 0
  OBVIOUS
<1> HIDE DEF zero
<1>4. f[n] = zero[n]
  BY <1>1, <1>2, SameSums
<1> QED BY <1>1, <1>3, <1>4

-----------------------------------------------------------------------------
(* The inductive invariant. *)

RowSet == [account : Accounts, delta : Int, id : RowIds, today : BOOLEAN]

\* An anchor is behind by the rows whose anchor was missed since.
Anchored == head # 0 => Len(rows) = head + missed

IInv ==
  /\ TypeOK
  /\ Anchored
  /\ Once
  /\ ForWhatHappened

\* The ledger's own part of it holds again.
LedgerKept ==
  /\ rows' \in Seq(RowSet) /\ head' \in Nat /\ missed' \in Nat
  /\ Anchored' /\ Once' /\ ForWhatHappened'

ShopSet == [accounts : SUBSET Accounts, who : Accounts \cup {None}, at : Nat \ {0},
            progress : BOOLEAN]

LEMMA InitIInv == Init => IInv
<1> SUFFICES ASSUME Init PROVE IInv
  OBVIOUS
<1>1. rows = <<>> /\ head = 0 /\ missed = 0 /\ pc = "idle" /\ left = {}
      /\ shop = Closed /\ verified = {} /\ backed = {} /\ faults = 0
  BY DEF Init
<1>2. TypeOK
  <2>1. rows \in Seq([account : Accounts, delta : Int, id : RowIds, today : BOOLEAN])
    BY <1>1
  <2>2. shop \in [accounts : SUBSET Accounts, who : Accounts \cup {None},
                 at : Nat \ {0}, progress : BOOLEAN]
    BY <1>1 DEF Closed
  <2> QED BY <1>1, <2>1, <2>2 DEF TypeOK
<1>3. Anchored /\ Once /\ ForWhatHappened
  BY <1>1 DEF Anchored, Once, ForWhatHappened, Index
<1> QED BY <1>2, <1>3 DEF IInv

-----------------------------------------------------------------------------
(* One append. *)

\* The ledger's own part of the invariant, after a row is written, cut off, or left
\* without its anchor: the row has an id of its own and is due.
LEMMA AppendsKeeps ==
  ASSUME IInv, NEW row \in RowSet, ~ Recorded(row.id), backed \subseteq backed',
         row.delta > 0 => \/ \E e \in backed' : row.id = <<"event", e>> /\ row.delta = Amount[e]
                          \/ row.id[1] = "revenue",
         Write(row) \/ CutOff(row)
  PROVE  LedgerKept
<1> USE DEF LedgerKept
<1>1. /\ rows \in Seq(RowSet) /\ head \in Nat /\ missed \in Nat
      /\ Len(rows) \in Nat
  BY DEF IInv, TypeOK, RowSet
<1>2. CASE rows' = Append(rows, row)
  <2>1. /\ rows' \in Seq(RowSet) /\ Len(rows') = Len(rows) + 1
        /\ \A i \in 1 .. Len(rows) : rows'[i] = rows[i]
        /\ rows'[Len(rows) + 1] = row
    BY <1>1, <1>2
  <2>2. Once'
    BY <1>1, <2>1 DEF Once, Index, Recorded, IInv
  <2>3. ForWhatHappened'
    <3> SUFFICES ASSUME NEW i \in 1 .. Len(rows) + 1, rows'[i].delta > 0
                 PROVE  \/ \E e \in backed' : rows'[i].id = <<"event", e>>
                                              /\ rows'[i].delta = Amount[e]
                        \/ rows'[i].id[1] = "revenue"
      BY <2>1 DEF ForWhatHappened, Index
    <3>1. CASE i \in 1 .. Len(rows)
      BY <2>1, <3>1 DEF ForWhatHappened, Index, IInv
    <3>2. CASE i = Len(rows) + 1
      BY <2>1, <3>2
    <3> QED BY <1>1, <3>1, <3>2
  <2>5. \/ head' = Len(rows) + 1 /\ missed' = 0
        \/ head' = head /\ missed' = missed + 1
    BY <1>1, <2>1 DEF Write, CutOff, file
  <2>6. Anchored' /\ head' \in Nat /\ missed' \in Nat
    <3>1. Len(rows') = Len(rows) + 1
      BY <2>1
    <3>2. Len(rows) \in Nat /\ head \in Nat /\ missed \in Nat /\ Anchored
      BY <1>1 DEF IInv
    <3> QED BY <2>5, <3>1, <3>2 DEF Anchored
  <2> QED BY <2>1, <2>2, <2>3, <2>6
<1>3. CASE UNCHANGED <<rows, head, missed>>
  BY <1>1, <1>3 DEF Anchored, Once, ForWhatHappened, Index, IInv
<1> QED BY <1>2, <1>3 DEF Write, CutOff, file

\* The same when the file is left alone.
LEMMA FileStays ==
  ASSUME IInv, UNCHANGED file, backed \subseteq backed'
  PROVE  LedgerKept
<1> USE DEF LedgerKept
<1> QED BY DEF IInv, TypeOK, RowSet, file, Anchored, Once, ForWhatHappened, Index

MarkRows(rs) == {i \in 1 .. Len(rs) : rs[i].id[1] = "revenue"}

\* A mark carries the figure it was made at.
LEMMA MarksAreNumbers ==
  ASSUME NEW rs \in Seq(RowSet), NEW i \in MarkRows(rs)
  PROVE  rs[i].id \in {"revenue"} \X Nat /\ rs[i].id[2] \in Nat /\ rs[i].delta \in Int
<1>1. i \in 1 .. Len(rs) /\ rs[i].id[1] = "revenue"
  BY DEF MarkRows
<1>2. rs[i] \in RowSet
  BY <1>1
<1>3. rs[i].id \in RowIds /\ rs[i].delta \in Int
  BY <1>2 DEF RowSet
<1>4. rs[i].id \in {"revenue"} \X Nat
  BY <1>1, <1>3 DEF RowIds
<1> QED BY <1>3, <1>4

\* What the cents since the last mark are worth is a number.
LEMMA RevenueIsInt ==
  ASSUME TypeOK, NEW total \in Nat, Marks # {}
  PROVE  Mark \in Nat /\ RevenueAmount(total) \in Int
<1>1. Len(rows) \in Nat /\ Marks \in SUBSET (0 .. Len(rows)) /\ rows \in Seq(RowSet)
  BY DEF TypeOK, Marks, Index, RowSet
<1>2. Max(Marks) \in Marks
  BY <1>1, LastExists
<1>3. Mark \in Nat
  <2>1. Marks = MarkRows(rows)
    BY DEF Marks, MarkRows, Index
  <2> QED BY <1>1, <1>2, <2>1, MarksAreNumbers DEF Mark
<1> DEFINE worth == (total - Mark) \div CentsPerBolt
<1>4. worth \in Int /\ MaxPerRevenue \in Int
  BY <1>3, AmountsTyped
<1> HIDE DEF worth
<1>5. Min({MaxPerRevenue, worth}) \in Int
  BY <1>4 DEF Min
<1> QED BY <1>3, <1>5 DEF RevenueAmount, worth

-----------------------------------------------------------------------------
(* Every step keeps it. *)

LEMMA ClosedIsTyped == Closed \in ShopSet
  BY DEF Closed, ShopSet

\* The ledger and the worker's own state make the invariant again.
LEMMA Together ==
  ASSUME LedgerKept, pc' \in {"idle", "collecting", "shopping"}, left' \subseteq verified',
         verified' \subseteq Events, backed' \subseteq Events, shop' \in ShopSet,
         faults' \in Nat
  PROVE  IInv'
<1> QED BY DEF LedgerKept, IInv, TypeOK, RowSet, ShopSet

LEMMA BeginKeeps ==
  ASSUME IInv, NEW newDay \in BOOLEAN, Begin(newDay)
  PROVE  IInv'
<1>1. /\ pc' = "collecting" /\ verified' \subseteq Events /\ backed \subseteq Events
      /\ left' \subseteq verified' /\ UNCHANGED <<head, missed, shop, backed>>
      /\ \/ rows' = rows
         \/ rows' = [i \in Index |-> [rows[i] EXCEPT !.today = FALSE]]
  BY DEF Begin, IInv, TypeOK
<1>2. faults' \in Nat
  BY DEF Begin, Fault, IInv, TypeOK
<1>3. /\ rows \in Seq(RowSet) /\ Len(rows) \in Nat
      /\ head \in Nat /\ missed \in Nat
  BY DEF IInv, TypeOK, RowSet
<1>4. /\ rows' \in Seq(RowSet) /\ Len(rows') = Len(rows)
      /\ \A i \in 1 .. Len(rows) : rows'[i].id = rows[i].id /\ rows'[i].delta = rows[i].delta
  <2>1. CASE rows' = rows
    BY <1>3, <2>1
  <2>2. CASE rows' = [i \in 1 .. Len(rows) |-> [rows[i] EXCEPT !.today = FALSE]]
    <3>1. \A i \in 1 .. Len(rows) : rows[i] \in RowSet
      BY <1>3
    <3>2. \A i \in 1 .. Len(rows) :
            /\ rows'[i] \in RowSet
            /\ rows'[i].id = rows[i].id /\ rows'[i].delta = rows[i].delta
      BY <2>2, <3>1 DEF RowSet
    <3>3. rows' \in [1 .. Len(rows) -> RowSet]
      BY <2>2, <3>2
    <3> QED BY <1>3, <3>2, <3>3
  <2> QED BY <1>1, <2>1, <2>2 DEF Index
<1>5. Anchored'
  BY <1>1, <1>4 DEF Anchored, IInv
<1>6. Once'
  BY <1>4 DEF Once, Index, IInv
<1>7. ForWhatHappened'
  BY <1>1, <1>4 DEF ForWhatHappened, Index, IInv
<1>8. LedgerKept
  BY <1>1, <1>3, <1>4, <1>5, <1>6, <1>7 DEF LedgerKept
<1>9. shop' \in ShopSet
  BY <1>1 DEF IInv, TypeOK, ShopSet
<1> QED BY <1>1, <1>2, <1>8, <1>9, Together

LEMMA PayEventKeeps ==
  ASSUME IInv, PayEvent
  PROVE  IInv'
<1>1. PICK e \in left :
        /\ Pay(AccountOf[e], Amount[e], <<"event", e>>,
               left' = left \ {e} /\ UNCHANGED <<pc, shop>>)
        /\ backed' = IF rows' = rows THEN backed ELSE backed \cup ({e} \cap verified)
  BY DEF PayEvent
<1>2. /\ e \in verified /\ e \in Events /\ verified' = verified /\ pc = "collecting"
      /\ verified \subseteq Events /\ backed \subseteq Events
  BY DEF PayEvent, IInv, TypeOK
<1> DEFINE row == Row(AccountOf[e], Amount[e], <<"event", e>>)
<1>3. row \in RowSet /\ row.id = <<"event", e>> /\ row.delta = Amount[e]
  BY <1>2, AmountsTyped DEF Row, RowSet, RowIds
<1>4. /\ \/ UNCHANGED file
         \/ ~ Recorded(<<"event", e>>) /\ (Write(row) \/ CutOff(row))
      /\ faults' \in {faults, faults + 1}
      /\ (left' = left \ {e} /\ UNCHANGED <<pc, shop>>) \/ Over
  BY <1>1 DEF Pay, Passes, Refused, Appends, Fault
<1>5. LedgerKept
  <2>1. CASE UNCHANGED file
    <3>1. backed \subseteq backed'
      BY <1>1
    <3> QED BY <2>1, <3>1, FileStays
  <2>2. CASE ~ UNCHANGED file
    <3>1. ~ Recorded(<<"event", e>>) /\ (Write(row) \/ CutOff(row))
      BY <1>4, <2>2
    <3>2. rows' # rows
      <4>1. row \in RowSet /\ rows \in Seq(RowSet) /\ Len(rows) \in Nat
        BY <1>3 DEF IInv, TypeOK, RowSet
      <4>2. rows' = Append(rows, row)
        BY <2>2, <3>1 DEF Write, CutOff
      <4>3. Len(rows') = Len(rows) + 1
        BY <4>1, <4>2
      <4> QED BY <4>1, <4>3
    <3>3. backed' = backed \cup {e}
      BY <1>1, <1>2, <3>2
    <3>4. row.delta > 0 => \E d \in backed' : row.id = <<"event", d>> /\ row.delta = Amount[d]
      BY <1>3, <3>3
    <3> HIDE DEF row
    <3> QED BY <1>3, <3>1, <3>3, <3>4, AppendsKeeps
  <2> QED BY <2>1, <2>2
<1>6. faults' \in Nat
  BY <1>4 DEF IInv, TypeOK
<1>7. pc' \in {"idle", "collecting"} /\ left' \subseteq verified' /\ shop' \in ShopSet
  BY <1>2, <1>4, ClosedIsTyped DEF Over, IInv, TypeOK, ShopSet
<1>8. backed' \subseteq Events /\ verified' \subseteq Events
  BY <1>1, <1>2
<1> QED BY <1>5, <1>6, <1>7, <1>8, Together

\* The place on the list, and whether something was bought, may be set.
LEMMA ShopMoves ==
  ASSUME shop \in ShopSet, NEW at \in Nat \ {0}, NEW progress \in BOOLEAN
  PROVE  [shop EXCEPT !.at = at, !.progress = progress] \in ShopSet
<1> QED BY DEF ShopSet

\* The shop opens for the accounts that have a row.
LEMMA ShopOpens ==
  ASSUME rows' \in Seq(RowSet), ToShop
  PROVE  pc' = "shopping" /\ left' = left /\ shop' \in ShopSet
<1>1. \A i \in DOMAIN rows' : rows'[i].account \in Accounts
  <2>1. DOMAIN rows' = 1 .. Len(rows')
    OBVIOUS
  <2>2. \A i \in 1 .. Len(rows') : rows'[i] \in RowSet
    OBVIOUS
  <2> QED BY <2>1, <2>2 DEF RowSet
<1>2. shop' = [Closed EXCEPT !.accounts = {rows'[i].account : i \in DOMAIN rows'}]
  BY DEF ToShop
<1>3. {rows'[i].account : i \in DOMAIN rows'} \in SUBSET Accounts
  BY <1>1
<1>4. shop' \in ShopSet
  BY <1>2, <1>3, ClosedIsTyped DEF ShopSet
<1> QED BY <1>4 DEF ToShop

LEMMA PayRevenueKeeps ==
  ASSUME IInv, PayRevenue
  PROVE  IInv'
<1>1. pc = "collecting" /\ UNCHANGED <<verified, backed>> /\ TypeOK
  BY DEF PayRevenue, IInv
<1>2. /\ LedgerKept
      /\ ToShop \/ Over
      /\ faults' \in {faults, faults + 1}
  <2>1. CASE Fault /\ UNCHANGED file /\ ToShop
    BY <1>1, <2>1, FileStays DEF Fault
  <2>2. ASSUME NEW total \in Totals, Marks = {},
               Appends(Row(Moss, 0, <<"revenue", total>>), ToShop)
        PROVE  LedgerKept /\ (ToShop \/ Over) /\ faults' \in {faults, faults + 1}
    <3> DEFINE row == Row(Moss, 0, <<"revenue", total>>)
    <3>1. row \in RowSet /\ row.id = <<"revenue", total>> /\ row.delta = 0
      BY AmountsTyped, BoundsTyped DEF Row, RowSet, RowIds
    <3>2. ~ Recorded(<<"revenue", total>>)
      BY <2>2 DEF Recorded, Marks
    <3>3. /\ Write(row) \/ CutOff(row)
          /\ ToShop \/ Over
          /\ faults' \in {faults, faults + 1}
      BY <2>2 DEF Appends, Fault
    <3>4. row.delta > 0 => row.id[1] = "revenue"
      BY <3>1
    <3> HIDE DEF row
    <3> QED BY <1>1, <3>1, <3>2, <3>3, <3>4, AppendsKeeps
  <2>3. ASSUME NEW total \in Totals, Passes(ToShop)
        PROVE  LedgerKept /\ (ToShop \/ Over) /\ faults' \in {faults, faults + 1}
    BY <1>1, <2>3, FileStays DEF Passes
  <2>4. ASSUME NEW total \in Totals, Marks # {},
               Pay(Moss, RevenueAmount(total), <<"revenue", total>>, ToShop)
        PROVE  LedgerKept /\ (ToShop \/ Over) /\ faults' \in {faults, faults + 1}
    <3> DEFINE row == Row(Moss, RevenueAmount(total), <<"revenue", total>>)
    <3>1. total \in Nat /\ RevenueAmount(total) \in Int
      BY <1>1, <2>4, RevenueIsInt, BoundsTyped
    <3>2. row \in RowSet /\ row.id = <<"revenue", total>>
      BY <3>1, AmountsTyped DEF Row, RowSet, RowIds
    <3>3. /\ \/ UNCHANGED file
             \/ ~ Recorded(<<"revenue", total>>) /\ (Write(row) \/ CutOff(row))
          /\ ToShop \/ Over
          /\ faults' \in {faults, faults + 1}
      BY <2>4 DEF Pay, Passes, Refused, Appends, Fault
    <3>4. row.delta > 0 => row.id[1] = "revenue"
      BY <3>2
    <3> HIDE DEF row
    <3> QED BY <1>1, <3>2, <3>3, <3>4, AppendsKeeps, FileStays
  <2> QED BY <2>1, <2>2, <2>3, <2>4 DEF PayRevenue
<1>3. pc' \in {"idle", "shopping"} /\ left' \subseteq verified' /\ shop' \in ShopSet
  BY <1>1, <1>2, ShopOpens, ClosedIsTyped DEF LedgerKept, Over, TypeOK
<1>4. faults' \in Nat
  BY <1>1, <1>2 DEF TypeOK
<1> QED BY <1>1, <1>2, <1>3, <1>4, Together DEF TypeOK

LEMMA BuyKeeps ==
  ASSUME IInv, Buy
  PROVE  IInv'
<1>1. /\ pc = "shopping" /\ UNCHANGED <<verified, backed>> /\ TypeOK
      /\ shop.who # None /\ shop.at <= Len(Wishlist[shop.who]) /\ shop \in ShopSet
  BY ShopTyped DEF Buy, AtEnd, IInv, TypeOK, ShopSet
<1>2. shop.who \in Accounts /\ Wanted \in Items /\ Len(Wishlist[shop.who]) \in Nat
  BY <1>1, ShopTyped DEF Wanted, ShopSet
<1> DEFINE row == Row(shop.who, -Price[Wanted], <<"buy", shop.who, Wanted>>)
<1>3. row \in RowSet /\ row.id = <<"buy", shop.who, Wanted>> /\ ~ (row.delta > 0)
  BY <1>2, ShopTyped DEF Row, RowSet, RowIds
<1>4. /\ \/ UNCHANGED file
         \/ Wanted \notin Owned(shop.who) /\ (Write(row) \/ CutOff(row))
      /\ \/ \E at \in {shop.at + 1, Len(Wishlist[shop.who]) + 1}, progress \in BOOLEAN :
              OnTo(at, progress)
         \/ Over
      /\ faults' \in {faults, faults + 1}
  BY <1>1 DEF Buy, Passes, Appends, Fault, ShopSet
<1>5. LedgerKept
  <2>1. Wanted \notin Owned(shop.who) => ~ Recorded(<<"buy", shop.who, Wanted>>)
    BY <1>2 DEF Owned
  <2> HIDE DEF row
  <2> QED BY <1>1, <1>3, <1>4, <2>1, AppendsKeeps, FileStays
<1>6. pc' \in {"idle", "shopping"} /\ left' \subseteq verified' /\ shop' \in ShopSet
  <2>1. CASE Over
    BY <2>1, ClosedIsTyped DEF Over
  <2>2. ASSUME NEW at \in {shop.at + 1, Len(Wishlist[shop.who]) + 1}, NEW progress \in BOOLEAN,
               OnTo(at, progress)
        PROVE  pc' = pc /\ left' = left /\ shop' \in ShopSet
    <3>1. shop.at \in Nat \ {0}
      BY <1>1 DEF ShopSet
    <3>2. at \in Nat \ {0}
      BY <1>2, <3>1
    <3>3. shop' = [shop EXCEPT !.at = at, !.progress = progress]
          /\ pc' = pc /\ left' = left
      BY <2>2 DEF OnTo
    <3> QED BY <1>1, <3>2, <3>3, ShopMoves
  <2> QED BY <1>1, <1>4, <2>1, <2>2 DEF TypeOK
<1>7. faults' \in Nat
  BY <1>1, <1>4 DEF TypeOK
<1> QED BY <1>1, <1>5, <1>6, <1>7, Together DEF TypeOK

\* Entering a home, looking at the list once more, leaving, and the end of the run.
LEMMA ShopKeeps ==
  ASSUME IInv, Enter \/ Close \/ PassEnds
  PROVE  IInv'
<1>1. /\ pc = "shopping" /\ UNCHANGED <<file, verified, faults, backed>> /\ shop \in ShopSet
      /\ left \subseteq verified /\ verified \subseteq Events /\ backed \subseteq Events
      /\ faults \in Nat
  BY DEF Enter, Close, PassEnds, IInv, TypeOK, ShopSet
<1>2. LedgerKept
  BY <1>1, FileStays
<1>3. pc' \in {"idle", "shopping"} /\ left' \subseteq verified' /\ shop' \in ShopSet
  <2>1. CASE Enter
    BY <1>1, <2>1 DEF Enter, ShopSet
  <2>2. CASE Close
    BY <2>2, ClosedIsTyped DEF Close, Over
  <2>3. CASE PassEnds
    <3>1. /\ pc' = pc /\ left' = left
          /\ \/ shop' = [shop EXCEPT !.at = 1, !.progress = FALSE]
             \/ shop' = [shop EXCEPT !.who = None]
      BY <2>3 DEF PassEnds
    <3>2. CASE shop' = [shop EXCEPT !.at = 1, !.progress = FALSE]
      <4>1. PICK at \in Nat \ {0} : at = 1
        OBVIOUS
      <4>2. PICK progress \in BOOLEAN : progress = FALSE
        OBVIOUS
      <4>3. shop' = [shop EXCEPT !.at = at, !.progress = progress]
        BY <3>2, <4>1, <4>2
      <4> QED BY <1>1, <3>1, <4>3, ShopMoves
    <3>3. CASE shop' = [shop EXCEPT !.who = None]
      BY <1>1, <3>1, <3>3 DEF ShopSet
    <3> QED BY <3>1, <3>2, <3>3
  <2> QED BY <2>1, <2>2, <2>3
<1> QED BY <1>1, <1>2, <1>3, Together

LEMMA NextKeeps == IInv /\ [Next]_vars => IInv'
<1> SUFFICES ASSUME IInv, [Next]_vars PROVE IInv'
  OBVIOUS
<1>1. ASSUME NEW newDay \in BOOLEAN, Begin(newDay) PROVE IInv'
  BY <1>1, BeginKeeps
<1>2. CASE PayEvent \/ PayRevenue \/ Buy
  BY <1>2, PayEventKeeps, PayRevenueKeeps, BuyKeeps
<1>3. CASE Enter \/ Close \/ PassEnds
  BY <1>3, ShopKeeps
<1>4. CASE UNCHANGED vars
  BY <1>4 DEF IInv, TypeOK, Anchored, Once, ForWhatHappened, Index, vars, file
<1> QED BY <1>1, <1>2, <1>3, <1>4 DEF Next, Step

-----------------------------------------------------------------------------
(* The money of a file.  What the model says of rows, said of any file. *)

DeltaIn(rs, S) == SumTo(Len(rs), [i \in 1 .. Len(rs) |-> IF i \in S THEN rs[i].delta ELSE 0])

OfAccount(rs, a) == {i \in 1 .. Len(rs) : rs[i].account = a}

MintedRows(rs, A) ==
  {i \in 1 .. Len(rs) : rs[i].today /\ rs[i].delta > 0 /\ rs[i].account \in A}

LEMMA MoneyOfRows ==
  /\ \A a : Balance(a) = DeltaIn(rows, OfAccount(rows, a))
  /\ \A A : Minted(A) = DeltaIn(rows, MintedRows(rows, A))
  /\ Marks = MarkRows(rows) /\ DeltaOf(Marks) = DeltaIn(rows, MarkRows(rows))
<1>1. \A a : Balance(a) = DeltaIn(rows, OfAccount(rows, a))
  BY DEF Balance, DeltaOf, DeltaIn, OfAccount, Index
<1>2. \A A : Minted(A) = DeltaIn(rows, MintedRows(rows, A))
  BY DEF Minted, DeltaOf, DeltaIn, MintedRows, Index
<1>3. Marks = MarkRows(rows) /\ DeltaOf(Marks) = DeltaIn(rows, MarkRows(rows))
  BY DEF Marks, MarkRows, DeltaOf, DeltaIn, Index
<1> QED BY <1>1, <1>2, <1>3

LEMMA MoneyOfRowsNext ==
  /\ \A a : Balance(a)' = DeltaIn(rows', OfAccount(rows', a))
  /\ \A A : Minted(A)' = DeltaIn(rows', MintedRows(rows', A))
  /\ Marks' = MarkRows(rows') /\ DeltaOf(Marks)' = DeltaIn(rows', MarkRows(rows'))
<1>1. \A a : Balance(a)' = DeltaIn(rows', OfAccount(rows', a))
  BY DEF Balance, DeltaOf, DeltaIn, OfAccount, Index
<1>2. \A A : Minted(A)' = DeltaIn(rows', MintedRows(rows', A))
  BY DEF Minted, DeltaOf, DeltaIn, MintedRows, Index
<1>3. Marks' = MarkRows(rows') /\ DeltaOf(Marks)' = DeltaIn(rows', MarkRows(rows'))
  BY DEF Marks, MarkRows, DeltaOf, DeltaIn, Index
<1> QED BY <1>1, <1>2, <1>3

\* One more row adds its own delta to the sums it belongs to.
LEMMA DeltaGrows ==
  ASSUME NEW rs \in Seq(RowSet), NEW row \in RowSet, NEW S, NEW T,
         \A i \in 1 .. Len(rs) : i \in T <=> i \in S
  PROVE  /\ DeltaIn(rs, S) \in Int
         /\ DeltaIn(Append(rs, row), T)
              = DeltaIn(rs, S) + IF Len(rs) + 1 \in T THEN row.delta ELSE 0
<1> DEFINE n == Len(rs)
<1> DEFINE more == Append(rs, row)
<1> DEFINE v == [i \in 1 .. n |-> IF i \in S THEN rs[i].delta ELSE 0]
<1> DEFINE w == [i \in 1 .. n + 1 |-> IF i \in T THEN more[i].delta ELSE 0]
<1>1. /\ n \in Nat /\ Len(more) = n + 1 /\ more[n + 1] = row
      /\ \A i \in 1 .. n : more[i] = rs[i]
  OBVIOUS
<1>2. row.delta \in Int /\ \A i \in 1 .. n : rs[i].delta \in Int
  <2>1. \A i \in 1 .. n : rs[i] \in RowSet
    OBVIOUS
  <2> QED BY <2>1 DEF RowSet
<1>3. v \in [1 .. n -> Int]
  BY <1>2
<1>4. \A i \in 1 .. n + 1 : more[i].delta \in Int
  <2> HIDE DEF more
  <2> TAKE i \in 1 .. n + 1
  <2>1. i \in 1 .. n \/ i = n + 1
    BY <1>1
  <2> QED BY <1>1, <1>2, <2>1
<1>5. w \in [1 .. n + 1 -> Int]
  <2> HIDE DEF more
  <2> QED BY <1>4
<1>6. \A i \in 1 .. n : w[i] = v[i]
  <2> HIDE DEF more
  <2> QED BY <1>1
<1>7. w[n + 1] = IF n + 1 \in T THEN row.delta ELSE 0
  <2> HIDE DEF more
  <2> QED BY <1>1
<1>8. DeltaIn(rs, S) = SumTo(n, v)
  BY DEF DeltaIn
<1>9. DeltaIn(more, T) = SumTo(n + 1, w)
  <2> HIDE DEF more
  <2> QED BY <1>1 DEF DeltaIn
<1> HIDE DEF n, v, w, more
<1>10. SumTo(n + 1, w) = SumTo(n, v) + w[n + 1] /\ SumTo(n, v) \in Int
  BY <1>1, <1>3, <1>5, <1>6, SumOfOneMore, SumIsInt
<1> QED BY <1>7, <1>8, <1>9, <1>10 DEF more, n

\* The same rows give the same sum, and no rows none.
LEMMA DeltaStays ==
  ASSUME NEW rs, NEW more, Len(more) = Len(rs), NEW S, NEW T,
         \A i \in 1 .. Len(rs) : (i \in T <=> i \in S) /\ more[i].delta = rs[i].delta
  PROVE  DeltaIn(more, T) = DeltaIn(rs, S)
<1>1. [i \in 1 .. Len(rs) |-> IF i \in S THEN rs[i].delta ELSE 0]
        = [i \in 1 .. Len(rs) |-> IF i \in T THEN more[i].delta ELSE 0]
  OBVIOUS
<1> QED BY <1>1 DEF DeltaIn

LEMMA DeltaOfNone ==
  ASSUME NEW rs \in Seq(RowSet)
  PROVE  DeltaIn(rs, {}) = 0
<1>1. [i \in 1 .. Len(rs) |-> IF i \in {} THEN rs[i].delta ELSE 0] \in [1 .. Len(rs) -> Int]
  OBVIOUS
<1>2. Len(rs) \in Nat
  OBVIOUS
<1> QED BY <1>1, <1>2, SumOfNothing DEF DeltaIn

-----------------------------------------------------------------------------
(* What a step writes. *)

\* A row for an event on record, within the caps.
EventRow(row) ==
  row.id[1] = "event" /\ row.delta >= 0 /\ ~ OverCap(row.account, row.delta)

\* The first figure seen, which pays nothing.
FirstMark(row) ==
  Marks = {} /\ row.id \in {"revenue"} \X Nat /\ row.delta = 0

\* A later and higher one, which pays no more than the rise is worth.
RiseRow(row) ==
  /\ Marks # {} /\ row.id \in {"revenue"} \X Nat
  /\ Mark \in Nat /\ row.id[2] > Mark
  /\ row.delta >= 0 /\ row.delta * CentsPerBolt <= row.id[2] - Mark
  /\ ~ OverCap(row.account, row.delta)

\* A thing that had a place and was affordable.
BuyRow(row) ==
  \E item \in Items \ Owned(row.account) :
    /\ row.id = <<"buy", row.account, item>> /\ row.delta = - Price[item]
    /\ HasPlace(row.account, item) /\ Balance(row.account) >= Price[item]

DueRow(row) ==
  /\ row \in RowSet /\ row.today
  /\ EventRow(row) \/ FirstMark(row) \/ RiseRow(row) \/ BuyRow(row)

Adds(row) == DueRow(row) /\ rows' = Append(rows, row)

NewDay == rows' = [i \in Index |-> [rows[i] EXCEPT !.today = FALSE]]

LEMMA WritesOne ==
  ASSUME NEW row, Write(row) \/ CutOff(row)
  PROVE  rows' = rows \/ rows' = Append(rows, row)
<1> QED BY DEF Write, CutOff, file

\* Whole Bolts for a number of cents are worth no more than the cents.
LEMMA RoundedDown ==
  ASSUME NEW cents \in Nat, NEW rate \in Nat \ {0}
  PROVE  cents \div rate \in Nat /\ (cents \div rate) * rate <= cents
<1>1. cents = rate * (cents \div rate) + (cents % rate)
  OBVIOUS
<1>2. cents % rate \in Nat /\ cents \div rate \in Nat
  OBVIOUS
<1>3. (cents \div rate) * rate = rate * (cents \div rate)
  BY <1>2
<1> QED BY <1>1, <1>2, <1>3

LEMMA RiseIsCovered ==
  ASSUME TypeOK, NEW total \in Nat, Marks # {}, total > Mark
  PROVE  /\ Mark \in Nat /\ RevenueAmount(total) \in Nat
         /\ RevenueAmount(total) * CentsPerBolt <= total - Mark
<1>1. Mark \in Nat
  BY RevenueIsInt
<1> DEFINE worth == (total - Mark) \div CentsPerBolt
<1>2. total - Mark \in Nat /\ CentsPerBolt \in Nat \ {0} /\ MaxPerRevenue \in Nat
  BY <1>1, AmountsTyped
<1>3. worth \in Nat /\ worth * CentsPerBolt <= total - Mark
  BY <1>2, RoundedDown
<1> HIDE DEF worth
<1> DEFINE amount == Min({MaxPerRevenue, worth})
<1>4. amount \in Nat /\ amount <= worth
  <2> DEFINE both == {MaxPerRevenue, worth}
  <2>1. \E x \in both : \A y \in both : x <= y
    BY <1>2, <1>3
  <2> HIDE DEF both
  <2>2. Min(both) \in both /\ \A y \in both : Min(both) <= y
    BY <2>1 DEF Min
  <2> QED BY <1>2, <1>3, <2>2 DEF both
<1>5. amount = RevenueAmount(total)
  BY DEF RevenueAmount, worth
<1> HIDE DEF amount
<1>6. amount * CentsPerBolt <= worth * CentsPerBolt
  BY <1>2, <1>3, <1>4
<1>7. amount * CentsPerBolt \in Int /\ worth * CentsPerBolt \in Int
  BY <1>2, <1>3, <1>4
<1>8. amount * CentsPerBolt <= total - Mark
  <2>1. \A x, y, z \in Int : x <= y /\ y <= z => x <= z
    OBVIOUS
  <2> QED BY <1>2, <1>3, <1>6, <1>7, <2>1
<1> QED BY <1>1, <1>4, <1>5, <1>8

\* A step leaves the rows alone, begins a day, or adds one row that is due.
LEMMA StepWrites ==
  ASSUME TypeOK, [Next]_vars
  PROVE  rows' = rows \/ NewDay \/ \E row : Adds(row)
<1>1. ASSUME NEW newDay \in BOOLEAN, Begin(newDay) PROVE rows' = rows \/ NewDay
  BY <1>1 DEF Begin, NewDay
<1>2. CASE PayEvent
  <2>1. PICK e \in left :
          Pay(AccountOf[e], Amount[e], <<"event", e>>,
              left' = left \ {e} /\ UNCHANGED <<pc, shop>>) /\ e \in Events
    BY <1>2 DEF PayEvent, TypeOK
  <2> DEFINE row == Row(AccountOf[e], Amount[e], <<"event", e>>)
  <2>2. /\ row \in RowSet /\ row.today /\ row.id[1] = "event" /\ row.delta >= 0
        /\ row.account = AccountOf[e] /\ row.delta = Amount[e]
    BY <2>1, AmountsTyped DEF Row, RowSet, RowIds
  <2>3. \/ rows' = rows
        \/ ~ OverCap(AccountOf[e], Amount[e]) /\ (Write(row) \/ CutOff(row))
    BY <2>1 DEF Pay, Passes, Refused, Appends, file
  <2> HIDE DEF row
  <2>4. rows' = rows \/ (EventRow(row) /\ rows' = Append(rows, row))
    BY <2>2, <2>3, WritesOne DEF EventRow
  <2> QED BY <2>2, <2>4 DEF Adds, DueRow
<1>3. CASE PayRevenue
  <2>1. CASE UNCHANGED file
    BY <2>1 DEF file
  <2>2. ASSUME NEW total \in Totals, Marks = {},
               Appends(Row(Moss, 0, <<"revenue", total>>), ToShop)
        PROVE  rows' = rows \/ \E row : Adds(row)
    <3> DEFINE row == Row(Moss, 0, <<"revenue", total>>)
    <3>1. /\ row \in RowSet /\ row.today /\ row.delta = 0
          /\ row.id \in {"revenue"} \X Nat
      BY AmountsTyped, BoundsTyped DEF Row, RowSet, RowIds
    <3>2. Write(row) \/ CutOff(row)
      BY <2>2 DEF Appends
    <3> HIDE DEF row
    <3>3. rows' = rows \/ (FirstMark(row) /\ rows' = Append(rows, row))
      BY <2>2, <3>1, <3>2, WritesOne DEF FirstMark
    <3> QED BY <3>1, <3>3 DEF Adds, DueRow
  <2>3. ASSUME NEW total \in Totals, Marks # {}, ~ (total <= Mark),
               Pay(Moss, RevenueAmount(total), <<"revenue", total>>, ToShop)
        PROVE  rows' = rows \/ \E row : Adds(row)
    <3> DEFINE row == Row(Moss, RevenueAmount(total), <<"revenue", total>>)
    <3>1. total \in Nat /\ Mark \in Nat
      BY <2>3, BoundsTyped, RevenueIsInt
    <3>2. total > Mark
      BY <2>3, <3>1
    <3>3. /\ RevenueAmount(total) \in Nat
          /\ RevenueAmount(total) * CentsPerBolt <= total - Mark
      BY <2>3, <3>1, <3>2, RiseIsCovered
    <3>4. /\ row \in RowSet /\ row.today /\ row.delta = RevenueAmount(total) /\ row.account = Moss
          /\ row.id \in {"revenue"} \X Nat /\ row.id[2] = total
      BY <3>1, <3>3, AmountsTyped DEF Row, RowSet, RowIds
    <3>5. \/ rows' = rows
          \/ ~ OverCap(Moss, RevenueAmount(total)) /\ (Write(row) \/ CutOff(row))
      BY <2>3 DEF Pay, Passes, Refused, Appends, file
    <3> HIDE DEF row
    <3>6. row.delta >= 0
      BY <3>3, <3>4
    <3>7. rows' = rows \/ (RiseRow(row) /\ rows' = Append(rows, row))
      BY <2>3, <3>1, <3>2, <3>3, <3>4, <3>5, <3>6, WritesOne DEF RiseRow
    <3> QED BY <3>4, <3>7 DEF Adds, DueRow
  <2>4. ASSUME NEW total \in Totals, Passes(ToShop) PROVE rows' = rows
    BY <2>4 DEF Passes, file
  <2> QED BY <1>3, <2>1, <2>2, <2>3, <2>4 DEF PayRevenue
<1>4. CASE Buy
  <2>1. /\ shop.who # None /\ shop.at <= Len(Wishlist[shop.who]) /\ shop \in ShopSet
    BY <1>4, ShopTyped DEF Buy, AtEnd, TypeOK, ShopSet
  <2>2. shop.who \in Accounts /\ Wanted \in Items
    BY <2>1, ShopTyped DEF Wanted, ShopSet
  <2> DEFINE row == Row(shop.who, -Price[Wanted], <<"buy", shop.who, Wanted>>)
  <2>3. /\ row \in RowSet /\ row.today /\ row.account = shop.who
        /\ row.id = <<"buy", shop.who, Wanted>> /\ row.delta = - Price[Wanted]
    BY <2>2, ShopTyped DEF Row, RowSet, RowIds
  <2>4. \/ rows' = rows
        \/ /\ Wanted \notin Owned(shop.who) /\ HasPlace(shop.who, Wanted)
           /\ ~ (Balance(shop.who) < Price[Wanted]) /\ (Write(row) \/ CutOff(row))
    BY <1>4 DEF Buy, Passes, Appends, file
  <2>5. Price[Wanted] \in Nat /\ Balance(shop.who) \in Int
    <3>1. rows \in Seq(RowSet)
      BY DEF TypeOK, RowSet
    <3>2. Balance(shop.who) \in Int
      BY <2>3, <3>1, DeltaGrows, MoneyOfRows
    <3> QED BY <2>2, <3>2, ShopTyped
  <2> HIDE DEF row
  <2>6. rows' = rows \/ (BuyRow(row) /\ rows' = Append(rows, row))
    <3>1. CASE rows' = rows
      BY <3>1
    <3>2. CASE /\ Wanted \notin Owned(shop.who) /\ HasPlace(shop.who, Wanted)
               /\ ~ (Balance(shop.who) < Price[Wanted]) /\ (Write(row) \/ CutOff(row))
      <4>1. Balance(shop.who) >= Price[Wanted]
        BY <2>5, <3>2
      <4>2. Wanted \in Items \ Owned(row.account)
        BY <2>2, <2>3, <3>2
      <4>3. BuyRow(row)
        BY <2>3, <3>2, <4>1, <4>2 DEF BuyRow
      <4> QED BY <3>2, <4>3, WritesOne
    <3> QED BY <2>4, <3>1, <3>2
  <2> QED BY <2>3, <2>6 DEF Adds, DueRow
<1>5. CASE Enter \/ Close \/ PassEnds \/ UNCHANGED vars
  BY <1>5 DEF Enter, Close, PassEnds, vars, file
<1> QED BY <1>1, <1>2, <1>3, <1>4, <1>5 DEF Next, Step

-----------------------------------------------------------------------------
(* The caps and the balances. *)

\* No account is overdrawn, and no day's payments exceed a cap.
WithinCaps ==
  /\ Minted(Accounts) <= Global
  /\ \A a \in Accounts : Minted({a}) <= PerAccount /\ Balance(a) >= 0

\* A row counts for its own account, and as minted if it pays.
LEMMA RowCounts ==
  ASSUME rows \in Seq(RowSet), NEW row \in RowSet, row.today, rows' = Append(rows, row)
  PROVE  /\ \A a : /\ Balance(a) \in Int
                   /\ Balance(a)' = Balance(a) + IF row.account = a THEN row.delta ELSE 0
         /\ \A A : /\ Minted(A) \in Int
                   /\ Minted(A)' = Minted(A)
                        + IF row.delta > 0 /\ row.account \in A THEN row.delta ELSE 0
<1>1. /\ Len(rows) \in Nat /\ Len(rows') = Len(rows) + 1 /\ rows'[Len(rows) + 1] = row
      /\ \A i \in 1 .. Len(rows) : i \in 1 .. Len(rows') /\ rows'[i] = rows[i]
      /\ Len(rows) + 1 \in 1 .. Len(rows')
  OBVIOUS
<1>2. ASSUME NEW a
      PROVE  /\ Balance(a) \in Int
             /\ Balance(a)' = Balance(a) + IF row.account = a THEN row.delta ELSE 0
  <2> DEFINE S == OfAccount(rows, a)
  <2> DEFINE T == OfAccount(rows', a)
  <2>1. /\ \A i \in 1 .. Len(rows) : i \in T <=> i \in S
        /\ Len(rows) + 1 \in T <=> row.account = a
    BY <1>1 DEF OfAccount
  <2>2. Balance(a) = DeltaIn(rows, S) /\ Balance(a)' = DeltaIn(rows', T)
    BY MoneyOfRows, MoneyOfRowsNext
  <2> HIDE DEF S, T
  <2>3. /\ DeltaIn(rows, S) \in Int
        /\ DeltaIn(rows', T) = DeltaIn(rows, S) + IF Len(rows) + 1 \in T THEN row.delta ELSE 0
    BY <2>1, DeltaGrows
  <2> QED BY <2>1, <2>2, <2>3
<1>3. ASSUME NEW A
      PROVE  /\ Minted(A) \in Int
             /\ Minted(A)' = Minted(A)
                  + IF row.delta > 0 /\ row.account \in A THEN row.delta ELSE 0
  <2> DEFINE S == MintedRows(rows, A)
  <2> DEFINE T == MintedRows(rows', A)
  <2>1. /\ \A i \in 1 .. Len(rows) : i \in T <=> i \in S
        /\ Len(rows) + 1 \in T <=> row.delta > 0 /\ row.account \in A
    BY <1>1 DEF MintedRows
  <2>2. Minted(A) = DeltaIn(rows, S) /\ Minted(A)' = DeltaIn(rows', T)
    BY MoneyOfRows, MoneyOfRowsNext
  <2> HIDE DEF S, T
  <2>3. /\ DeltaIn(rows, S) \in Int
        /\ DeltaIn(rows', T) = DeltaIn(rows, S) + IF Len(rows) + 1 \in T THEN row.delta ELSE 0
    BY <2>1, DeltaGrows
  <2> QED BY <2>1, <2>2, <2>3
<1> QED BY <1>2, <1>3

\* A new day keeps accounts, amounts and ids, and nothing is minted on it.
LEMMA DayBegins ==
  ASSUME rows \in Seq(RowSet), NewDay
  PROVE  /\ \A a : Balance(a)' = Balance(a)
         /\ \A A : Minted(A)' = 0
         /\ Len(rows') = Len(rows)
         /\ \A i \in 1 .. Len(rows) :
              /\ rows'[i].id = rows[i].id /\ rows'[i].delta = rows[i].delta
              /\ rows'[i].account = rows[i].account
<1>1. \A i \in 1 .. Len(rows) : rows[i] \in RowSet
  OBVIOUS
<1>2. rows' = [i \in 1 .. Len(rows) |-> [rows[i] EXCEPT !.today = FALSE]]
  BY DEF NewDay, Index
<1>3. \A i \in 1 .. Len(rows) :
        /\ rows'[i].id = rows[i].id /\ rows'[i].delta = rows[i].delta
        /\ rows'[i].account = rows[i].account /\ rows'[i].today = FALSE
        /\ rows'[i] \in RowSet
  BY <1>1, <1>2 DEF RowSet
<1>4. Len(rows') = Len(rows) /\ rows' \in Seq(RowSet)
  <2>1. Len(rows) \in Nat
    OBVIOUS
  <2>2. rows' \in [1 .. Len(rows) -> RowSet]
    BY <1>2, <1>3
  <2> QED BY <2>1, <2>2
<1>5. ASSUME NEW a PROVE Balance(a)' = Balance(a)
  <2>1. \A i \in 1 .. Len(rows) : i \in OfAccount(rows', a) <=> i \in OfAccount(rows, a)
    BY <1>3, <1>4 DEF OfAccount
  <2> QED BY <1>3, <1>4, <2>1, DeltaStays, MoneyOfRows, MoneyOfRowsNext
<1>6. ASSUME NEW A PROVE Minted(A)' = 0
  <2>1. MintedRows(rows', A) = {}
    BY <1>3, <1>4 DEF MintedRows
  <2> QED BY <1>4, <2>1, DeltaOfNone, MoneyOfRowsNext
<1> QED BY <1>3, <1>4, <1>5, <1>6

LEMMA CapsKept ==
  ASSUME TypeOK, WithinCaps, [Next]_vars
  PROVE  WithinCaps'
<1>1. rows \in Seq(RowSet) /\ PerAccount \in Nat /\ Global \in Nat
  BY AmountsTyped DEF TypeOK, RowSet
<1>2. CASE rows' = rows
  BY <1>2, MoneyOfRows, MoneyOfRowsNext DEF WithinCaps
<1>3. CASE NewDay
  <2>1. /\ \A a : Balance(a)' = Balance(a)
        /\ \A A : Minted(A)' = 0
    BY <1>1, <1>3, DayBegins
  <2>2. Minted(Accounts)' <= Global
    BY <1>1, <2>1
  <2>3. ASSUME NEW a \in Accounts PROVE Minted({a})' <= PerAccount /\ Balance(a)' >= 0
    <3>1. Minted({a})' <= PerAccount
      BY <1>1, <2>1
    <3>2. Balance(a)' = Balance(a)
      BY <2>1
    <3>3. Balance(a) >= 0
      BY DEF WithinCaps
    <3> QED BY <3>1, <3>2, <3>3
  <2> QED BY <2>2, <2>3 DEF WithinCaps
<1>4. ASSUME NEW row, Adds(row) PROVE WithinCaps'
  <2>1. row \in RowSet /\ row.today /\ rows' = Append(rows, row) /\ DueRow(row)
        /\ row.account \in Accounts /\ row.delta \in Int
    BY <1>4 DEF Adds, DueRow, RowSet
  <2>2. /\ \A a : /\ Balance(a) \in Int
                  /\ Balance(a)' = Balance(a) + IF row.account = a THEN row.delta ELSE 0
        /\ \A A : /\ Minted(A) \in Int
                  /\ Minted(A)' = Minted(A)
                       + IF row.delta > 0 /\ row.account \in A THEN row.delta ELSE 0
    BY <1>1, <2>1, RowCounts
  <2>3. CASE row.delta > 0 /\ ~ OverCap(row.account, row.delta)
    <3>1. /\ Minted({row.account}) + row.delta <= PerAccount
          /\ Minted(Accounts) + row.delta <= Global
      BY <1>1, <2>1, <2>2, <2>3 DEF OverCap
    <3>2. Minted(Accounts)' <= Global
      BY <2>1, <2>2, <2>3, <3>1
    <3>3. ASSUME NEW a \in Accounts PROVE Minted({a})' <= PerAccount /\ Balance(a)' >= 0
      <4>1. CASE a = row.account
        BY <2>1, <2>2, <2>3, <3>1, <4>1 DEF WithinCaps
      <4>2. CASE a # row.account
        BY <2>2, <4>2 DEF WithinCaps
      <4> QED BY <4>1, <4>2
    <3> QED BY <3>2, <3>3 DEF WithinCaps
  <2>4. CASE row.delta = 0
    BY <2>2, <2>4 DEF WithinCaps
  <2>5. CASE BuyRow(row)
    <3>1. row.delta < 0 /\ Balance(row.account) + row.delta >= 0
      <4>1. PICK item \in Items : /\ row.delta = - Price[item]
                                  /\ Balance(row.account) >= Price[item]
        BY <2>5 DEF BuyRow
      <4>2. Price[item] \in Nat \ {0} /\ Balance(row.account) \in Int
        BY <2>2, ShopTyped
      <4> QED BY <4>1, <4>2
    <3>2. ASSUME NEW a \in Accounts PROVE Minted({a})' <= PerAccount /\ Balance(a)' >= 0
      <4>1. CASE a = row.account
        BY <2>1, <2>2, <3>1, <4>1 DEF WithinCaps
      <4>2. CASE a # row.account
        BY <2>2, <4>2 DEF WithinCaps
      <4> QED BY <4>1, <4>2
    <3>3. Minted(Accounts)' <= Global
      BY <2>1, <2>2, <3>1 DEF WithinCaps
    <3> QED BY <3>2, <3>3 DEF WithinCaps
  <2> QED BY <2>1, <2>3, <2>4, <2>5 DEF DueRow, EventRow, FirstMark, RiseRow
<1> QED BY <1>2, <1>3, <1>4, StepWrites

-----------------------------------------------------------------------------
(* The revenue. *)

FirstFigure(rs) == rs[Min(MarkRows(rs))].id[2]
LastFigure(rs) == rs[Max(MarkRows(rs))].id[2]

CoveredIn(rs) ==
  MarkRows(rs) # {} =>
    DeltaIn(rs, MarkRows(rs)) * CentsPerBolt <= LastFigure(rs) - FirstFigure(rs)

LEMMA CoveredIsOfRows ==
  (RevenueCovered <=> CoveredIn(rows)) /\ (RevenueCovered' <=> CoveredIn(rows'))
<1>1. RevenueCovered <=> CoveredIn(rows)
  BY MoneyOfRows DEF RevenueCovered, CoveredIn, Mark, FirstFigure, LastFigure
<1>2. RevenueCovered' <=>
        (Marks' # {} => DeltaOf(Marks)' * CentsPerBolt <= Mark' - rows'[Min(Marks')].id[2])
  BY DEF RevenueCovered
<1>3. Mark' = rows'[Max(Marks')].id[2]
  BY DEF Mark
<1>4. RevenueCovered' <=> CoveredIn(rows')
  BY <1>2, <1>3, MoneyOfRowsNext DEF CoveredIn, FirstFigure, LastFigure
<1> QED BY <1>1, <1>4

LEMMA FiguresAreNumbers ==
  ASSUME NEW rs \in Seq(RowSet), MarkRows(rs) # {}
  PROVE  /\ Min(MarkRows(rs)) \in MarkRows(rs) /\ Max(MarkRows(rs)) \in MarkRows(rs)
         /\ \A i \in MarkRows(rs) : Min(MarkRows(rs)) <= i /\ i <= Max(MarkRows(rs))
         /\ FirstFigure(rs) \in Nat /\ LastFigure(rs) \in Nat
<1>1. /\ Len(rs) \in Nat /\ MarkRows(rs) \in SUBSET (1 .. Len(rs))
      /\ MarkRows(rs) \in SUBSET (0 .. Len(rs))
  BY DEF MarkRows
<1>2. /\ Min(MarkRows(rs)) \in MarkRows(rs) /\ Max(MarkRows(rs)) \in MarkRows(rs)
      /\ \A i \in MarkRows(rs) : Min(MarkRows(rs)) <= i /\ i <= Max(MarkRows(rs))
  BY <1>1, FirstExists, LastExists
<1>3. FirstFigure(rs) \in Nat /\ LastFigure(rs) \in Nat
  BY <1>2, MarksAreNumbers DEF FirstFigure, LastFigure
<1> QED BY <1>2, <1>3

\* A row that is no mark changes nothing, a first one pays nothing, and a later one no
\* more than the rise since the last.
LEMMA CoveredGrows ==
  ASSUME NEW rs \in Seq(RowSet), NEW row \in RowSet, CoveredIn(rs),
         \/ row.id[1] # "revenue"
         \/ row.id[1] = "revenue" /\ MarkRows(rs) = {} /\ row.delta = 0
         \/ /\ row.id[1] = "revenue" /\ MarkRows(rs) # {}
            /\ row.delta * CentsPerBolt <= row.id[2] - LastFigure(rs)
  PROVE  CoveredIn(Append(rs, row))
<1> DEFINE n == Len(rs)
<1> DEFINE more == Append(rs, row)
<1> DEFINE S == MarkRows(rs)
<1> DEFINE T == MarkRows(more)
<1>1. /\ n \in Nat /\ Len(more) = n + 1 /\ more[n + 1] = row /\ more \in Seq(RowSet)
      /\ \A i \in 1 .. n : more[i] = rs[i]
  OBVIOUS
<1> HIDE DEF more
<1>2. T = IF row.id[1] = "revenue" THEN S \cup {n + 1} ELSE S
  BY <1>1 DEF MarkRows
<1>3. S \subseteq 1 .. n /\ n + 1 \notin S
  BY <1>1 DEF MarkRows
<1>4. /\ DeltaIn(rs, S) \in Int
      /\ DeltaIn(more, T) = DeltaIn(rs, S) + IF n + 1 \in T THEN row.delta ELSE 0
  <2>1. \A i \in 1 .. n : i \in T <=> i \in S
    BY <1>1, <1>2, <1>3
  <2> HIDE DEF S, T
  <2> QED BY <2>1, DeltaGrows DEF more
<1>5. row.delta \in Int /\ CentsPerBolt \in Nat
  BY AmountsTyped DEF RowSet
<1>6. CASE row.id[1] # "revenue"
  <2>1. T = S /\ DeltaIn(more, T) = DeltaIn(rs, S)
    BY <1>2, <1>3, <1>4, <1>6
  <2>2. ASSUME S # {} PROVE LastFigure(more) = LastFigure(rs) /\ FirstFigure(more) = FirstFigure(rs)
    <3>1. Min(S) \in 1 .. n /\ Max(S) \in 1 .. n
      BY <1>3, <2>2, FiguresAreNumbers
    <3> QED BY <1>1, <2>1, <3>1 DEF LastFigure, FirstFigure
  <2> HIDE DEF n
  <2> QED BY <2>1, <2>2 DEF CoveredIn, more
<1>7. CASE row.id[1] = "revenue"
  <2>1. T = S \cup {n + 1} /\ DeltaIn(more, T) = DeltaIn(rs, S) + row.delta
    BY <1>2, <1>4, <1>7
  <2>2. /\ Min(T) \in T /\ Max(T) \in T /\ \A i \in T : Min(T) <= i /\ i <= Max(T)
        /\ FirstFigure(more) \in Nat /\ LastFigure(more) \in Nat
    BY <1>1, <2>1, FiguresAreNumbers
  <2> HIDE DEF n
  <2>3. T \subseteq 1 .. n + 1 /\ n + 1 \in T
    <3> HIDE DEF S, T
    <3> QED BY <1>1, <1>3, <2>1
  <2>4. Max(T) = n + 1
    <3> HIDE DEF S, T
    <3>1. Max(T) \in 1 .. n + 1 /\ n + 1 <= Max(T)
      BY <2>2, <2>3
    <3> QED BY <1>1, <3>1
  <2>5. LastFigure(more) = row.id[2]
    BY <1>1, <2>4 DEF LastFigure
  <2>6. CASE S = {}
    <3>1. Min(T) = n + 1 /\ DeltaIn(more, T) = 0
      <4>1. Min(T) = n + 1
        BY <2>1, <2>2, <2>6
      <4>2. DeltaIn(rs, S) = 0
        BY <2>6, DeltaOfNone
      <4>3. row.delta = 0
        BY <1>7, <2>6
      <4> QED BY <2>1, <4>1, <4>2, <4>3
    <3>2. FirstFigure(more) = row.id[2]
      BY <1>1, <3>1 DEF FirstFigure
    <3>3. DeltaIn(more, T) * CentsPerBolt = 0
      BY <1>5, <3>1
    <3> QED BY <2>2, <2>5, <3>2, <3>3 DEF CoveredIn, more
  <2>7. CASE S # {}
    <3>1. /\ Min(S) \in S /\ \A i \in S : Min(S) <= i
          /\ FirstFigure(rs) \in Nat /\ LastFigure(rs) \in Nat
      BY <2>7, FiguresAreNumbers
    <3>2. Min(T) = Min(S) /\ Min(S) \in 1 .. n
      <4> HIDE DEF S, T
      <4>1. Min(S) \in T /\ Min(S) \in 1 .. n
        BY <1>3, <2>1, <3>1
      <4>2. Min(T) <= Min(S) /\ Min(T) \in 1 .. n + 1
        BY <2>2, <2>3, <4>1
      <4>3. Min(T) \in S
        BY <1>1, <2>1, <2>2, <4>1, <4>2
      <4> QED BY <1>1, <3>1, <4>1, <4>2, <4>3
    <3>3. FirstFigure(more) = FirstFigure(rs)
      BY <1>1, <3>2 DEF FirstFigure
    <3>4. row.delta * CentsPerBolt <= row.id[2] - LastFigure(rs)
      BY <1>7, <2>7
    <3>5. DeltaIn(rs, S) * CentsPerBolt <= LastFigure(rs) - FirstFigure(rs)
      BY <2>7 DEF CoveredIn
    <3> DEFINE old == DeltaIn(rs, S)
    <3> DEFINE new == row.delta
    <3>6. (old + new) * CentsPerBolt = old * CentsPerBolt + new * CentsPerBolt
          /\ old * CentsPerBolt \in Int /\ new * CentsPerBolt \in Int
      <4>1. old \in Int /\ new \in Int /\ CentsPerBolt \in Int
        BY <1>4, <1>5
      <4> HIDE DEF old, new
      <4> QED BY <4>1
    <3>7. DeltaIn(more, T) = old + new /\ row.id[2] \in Nat
      BY <2>1, <2>2, <2>5
    <3>8. DeltaIn(more, T) * CentsPerBolt <= LastFigure(more) - FirstFigure(more)
      <4> DEFINE oldCents == old * CentsPerBolt
      <4> DEFINE newCents == new * CentsPerBolt
      <4>1. /\ DeltaIn(more, T) * CentsPerBolt = oldCents + newCents
            /\ oldCents \in Int /\ newCents \in Int
            /\ newCents <= row.id[2] - LastFigure(rs)
            /\ oldCents <= LastFigure(rs) - FirstFigure(rs)
        BY <3>4, <3>5, <3>6, <3>7
      <4> HIDE DEF oldCents, newCents, T
      <4> QED BY <2>5, <3>1, <3>3, <3>7, <4>1
    <3> QED BY <3>8 DEF CoveredIn, more
  <2> QED BY <2>6, <2>7
<1> QED BY <1>6, <1>7

LEMMA RevenueKept ==
  ASSUME TypeOK, RevenueCovered, [Next]_vars
  PROVE  RevenueCovered'
<1>1. rows \in Seq(RowSet) /\ CoveredIn(rows)
  BY CoveredIsOfRows DEF TypeOK, RowSet
<1>2. CASE rows' = rows
  BY <1>1, <1>2, CoveredIsOfRows
<1>3. CASE NewDay
  <2>1. /\ Len(rows') = Len(rows) /\ Len(rows) \in Nat
        /\ \A i \in 1 .. Len(rows) : rows'[i].id = rows[i].id /\ rows'[i].delta = rows[i].delta
    BY <1>1, <1>3, DayBegins
  <2>2. MarkRows(rows') = MarkRows(rows)
    BY <2>1 DEF MarkRows
  <2>3. DeltaIn(rows', MarkRows(rows')) = DeltaIn(rows, MarkRows(rows))
    BY <2>1, <2>2, DeltaStays
  <2>4. ASSUME MarkRows(rows) # {}
        PROVE  FirstFigure(rows') = FirstFigure(rows) /\ LastFigure(rows') = LastFigure(rows)
    <3>1. Min(MarkRows(rows)) \in MarkRows(rows) /\ Max(MarkRows(rows)) \in MarkRows(rows)
      BY <1>1, <2>4, FiguresAreNumbers
    <3>2. MarkRows(rows) \subseteq 1 .. Len(rows)
      BY DEF MarkRows
    <3> QED BY <2>1, <2>2, <3>1, <3>2 DEF FirstFigure, LastFigure
  <2> QED BY <1>1, <2>2, <2>3, <2>4, CoveredIsOfRows DEF CoveredIn
<1>4. ASSUME NEW row, Adds(row) PROVE RevenueCovered'
  <2>1. row \in RowSet /\ rows' = Append(rows, row) /\ DueRow(row)
    BY <1>4 DEF Adds, DueRow
  <2>2. Marks = MarkRows(rows) /\ Mark = LastFigure(rows)
    BY MoneyOfRows DEF Mark, LastFigure
  <2>3. \/ row.id[1] # "revenue"
        \/ row.id[1] = "revenue" /\ MarkRows(rows) = {} /\ row.delta = 0
        \/ /\ row.id[1] = "revenue" /\ MarkRows(rows) # {}
           /\ row.delta * CentsPerBolt <= row.id[2] - LastFigure(rows)
    <3>1. CASE EventRow(row)
      BY <3>1 DEF EventRow
    <3>2. CASE FirstMark(row)
      BY <2>2, <3>2 DEF FirstMark
    <3>3. CASE RiseRow(row)
      BY <2>2, <3>3 DEF RiseRow
    <3>4. CASE BuyRow(row)
      BY <3>4 DEF BuyRow
    <3> QED BY <2>1, <3>1, <3>2, <3>3, <3>4 DEF DueRow
  <2>4. CoveredIn(Append(rows, row))
    BY <1>1, <2>1, <2>3, CoveredGrows
  <2> QED BY <2>1, <2>4, CoveredIsOfRows
<1> QED BY <1>2, <1>3, <1>4, StepWrites

-----------------------------------------------------------------------------
(* The homes.  What the model says of an account's things, said of any set. *)

TierIn(O) == Max({0} \cup {n \in DOMAIN Tiers : Tiers[n] \in O})
RoomsIn(O) == Cardinality(OfKind(O, "room"))
FurnishingsIn(O) == Cardinality(OfKind(O, "furnishing"))

Fits(O) ==
  /\ RoomsIn(O) <= RoomSlots[TierIn(O)]
  /\ FurnishingsIn(O) <= PerRoom * (1 + RoomsIn(O))

PlaceIn(O, item) ==
  /\ Kind[item] = "room" => RoomsIn(O) < RoomSlots[TierIn(O)]
  /\ Kind[item] = "furnishing" => FurnishingsIn(O) < PerRoom * (1 + RoomsIn(O))

HomesFit == \A a \in Accounts : Fits(Owned(a))

LEMMA PlaceIsPlaceIn ==
  ASSUME NEW a, NEW item \in Items, HasPlace(a, item)
  PROVE  PlaceIn(Owned(a), item)
<1>1. Kind[item] \in {"tier", "room", "furnishing"}
  BY ShopTyped
<1>2. Rooms(a) = RoomsIn(Owned(a)) /\ TierOf(a) = TierIn(Owned(a))
  BY DEF Rooms, RoomsIn, TierOf, TierIn
<1> HIDE DEF Owned
<1>3. CASE Kind[item] = "tier"
  BY <1>3 DEF PlaceIn
<1>4. CASE Kind[item] = "room"
  BY <1>2, <1>4 DEF PlaceIn, HasPlace
<1>5. CASE Kind[item] = "furnishing"
  BY <1>2, <1>5 DEF PlaceIn, HasPlace, FurnishingsIn
<1> QED BY <1>1, <1>3, <1>4, <1>5

\* A tier is one of those there are, and more things make it no lower.
LEMMA TierGrows ==
  ASSUME NEW O, NEW more, O \subseteq more
  PROVE  TierIn(O) \in 0 .. Len(Tiers) /\ TierIn(more) \in 0 .. Len(Tiers)
         /\ TierIn(O) <= TierIn(more)
<1> DEFINE has(S) == {0} \cup {n \in DOMAIN Tiers : Tiers[n] \in S}
<1>1. Len(Tiers) \in Nat /\ DOMAIN Tiers = 1 .. Len(Tiers)
  BY ShopTyped
<1>2. \A S : has(S) \in SUBSET (0 .. Len(Tiers)) /\ has(S) # {}
  BY <1>1
<1>3. has(O) \subseteq has(more)
  OBVIOUS
<1>4. TierIn(O) = Max(has(O)) /\ TierIn(more) = Max(has(more))
  BY DEF TierIn
<1> HIDE DEF has
<1>5. \A S : Max(has(S)) \in has(S) /\ \A j \in has(S) : j <= Max(has(S))
  BY <1>1, <1>2, LastExists
<1> QED BY <1>2, <1>3, <1>4, <1>5

\* Things are counted by their kind.
LEMMA ThingsCount ==
  ASSUME NEW O \in SUBSET Items, NEW item \in Items \ O, NEW kind
  PROVE  /\ Cardinality(OfKind(O, kind)) \in Nat
         /\ Cardinality(OfKind(O \cup {item}, kind))
              = Cardinality(OfKind(O, kind)) + IF Kind[item] = kind THEN 1 ELSE 0
<1>1. OfKind(O, kind) \in SUBSET Items
  BY DEF OfKind
<1>2. IsFiniteSet(OfKind(O, kind)) /\ Cardinality(OfKind(O, kind)) \in Nat
  BY <1>1, ShopTyped, FS_Subset, FS_CardinalityType
<1>3. OfKind(O \cup {item}, kind) = IF Kind[item] = kind THEN OfKind(O, kind) \cup {item}
                                    ELSE OfKind(O, kind)
  BY DEF OfKind
<1>4. item \notin OfKind(O, kind)
  BY DEF OfKind
<1>5. Cardinality(OfKind(O, kind) \cup {item}) = Cardinality(OfKind(O, kind)) + 1
  BY <1>2, <1>4, FS_AddElement
<1> QED BY <1>2, <1>3, <1>5

\* A home that fits and has a place for one thing more fits with it.
LEMMA FitsGrows ==
  ASSUME NEW O \in SUBSET Items, NEW item \in Items \ O, Fits(O), PlaceIn(O, item)
  PROVE  Fits(O \cup {item})
<1> DEFINE more == O \cup {item}
<1>1. /\ RoomsIn(O) \in Nat /\ FurnishingsIn(O) \in Nat
      /\ RoomsIn(more) = RoomsIn(O) + IF Kind[item] = "room" THEN 1 ELSE 0
      /\ FurnishingsIn(more) = FurnishingsIn(O) + IF Kind[item] = "furnishing" THEN 1 ELSE 0
  BY ThingsCount DEF RoomsIn, FurnishingsIn
<1>2. /\ TierIn(O) \in 0 .. Len(Tiers) /\ TierIn(more) \in 0 .. Len(Tiers)
      /\ TierIn(O) <= TierIn(more)
  BY TierGrows
<1>3. /\ RoomSlots[TierIn(O)] \in Nat /\ RoomSlots[TierIn(more)] \in Nat
      /\ RoomSlots[TierIn(O)] <= RoomSlots[TierIn(more)]
  BY <1>2, ShopTyped
<1> HIDE DEF more
<1>4. RoomsIn(more) <= RoomSlots[TierIn(more)]
  BY <1>1, <1>3 DEF Fits, PlaceIn
<1>5. FurnishingsIn(more) <= PerRoom * (1 + RoomsIn(more))
  <2> DEFINE places == PerRoom * (1 + RoomsIn(O))
  <2>1. PerRoom \in Nat /\ RoomsIn(more) \in Nat /\ RoomsIn(more) >= RoomsIn(O)
    BY <1>1, ShopTyped
  <2>2. places \in Int /\ PerRoom * (1 + RoomsIn(more)) \in Int
        /\ places <= PerRoom * (1 + RoomsIn(more))
    BY <1>1, <2>1
  <2>3. /\ FurnishingsIn(O) <= places
        /\ Kind[item] = "furnishing" => FurnishingsIn(O) < places
    BY DEF Fits, PlaceIn
  <2> HIDE DEF places
  <2>4. FurnishingsIn(more) <= places /\ FurnishingsIn(more) \in Nat
    BY <1>1, <2>2, <2>3
  <2>5. \A x, y, z \in Int : x <= y /\ y <= z => x <= z
    OBVIOUS
  <2> QED BY <2>2, <2>4, <2>5
<1> QED BY <1>4, <1>5 DEF Fits, more

\* Without things, a home fits.
LEMMA EmptyFits == Fits({})
<1>1. RoomsIn({}) = 0 /\ FurnishingsIn({}) = 0
  BY FS_EmptySet DEF RoomsIn, FurnishingsIn, OfKind
<1>2. RoomSlots[TierIn({})] \in Nat /\ PerRoom \in Nat
  BY TierGrows, ShopTyped
<1> QED BY <1>1, <1>2 DEF Fits

LEMMA HomesKept ==
  ASSUME TypeOK, HomesFit, [Next]_vars
  PROVE  HomesFit'
<1>1. rows \in Seq(RowSet) /\ Len(rows) \in Nat
  BY DEF TypeOK, RowSet
<1>2. CASE NewDay
  <2>1. /\ Len(rows') = Len(rows)
        /\ \A i \in 1 .. Len(rows) : rows'[i].id = rows[i].id
    BY <1>1, <1>2, DayBegins
  <2>2. \A a : Owned(a)' = Owned(a)
    BY <2>1 DEF Owned, Recorded, Index
  <2> QED BY <2>2 DEF HomesFit
<1>3. CASE rows' = rows
  <2>1. \A a : Owned(a)' = Owned(a)
    BY <1>3 DEF Owned, Recorded, Index
  <2> QED BY <2>1 DEF HomesFit
<1>4. ASSUME NEW row, Adds(row) PROVE HomesFit'
  <2>1. row \in RowSet /\ rows' = Append(rows, row) /\ DueRow(row)
    BY <1>4 DEF Adds, DueRow
  <2>2. /\ Len(rows') = Len(rows) + 1 /\ rows'[Len(rows) + 1] = row
        /\ \A i \in 1 .. Len(rows) : rows'[i] = rows[i]
    BY <1>1, <2>1
  <2>3. \A id : Recorded(id)' <=> Recorded(id) \/ row.id = id
    BY <1>1, <2>2 DEF Recorded, Index
  <2>4. \A a : Owned(a)' = Owned(a) \cup {item \in Items : row.id = <<"buy", a, item>>}
    BY <2>3 DEF Owned
  <2> SUFFICES ASSUME NEW a \in Accounts PROVE Fits(Owned(a)')
    BY DEF HomesFit
  <2>5. Fits(Owned(a)) /\ Owned(a) \in SUBSET Items
    BY DEF HomesFit, Owned
  <2>6. CASE row.id[1] # "buy"
    <3>1. \A item : <<"buy", a, item>>[1] = "buy"
      OBVIOUS
    <3>2. \A item \in Items : row.id # <<"buy", a, item>>
      BY <2>6, <3>1
    <3>3. Owned(a)' = Owned(a)
      BY <2>4, <3>2
    <3> QED BY <2>5, <3>3
  <2>7. CASE BuyRow(row)
    <3>1. PICK item \in Items \ Owned(row.account) :
            row.id = <<"buy", row.account, item>> /\ HasPlace(row.account, item)
      BY <2>7 DEF BuyRow
    <3>2. CASE a = row.account
      <4>1. Owned(a)' = Owned(a) \cup {item}
        BY <2>4, <3>1, <3>2
      <4>2. PlaceIn(Owned(a), item)
        BY <3>1, <3>2, PlaceIsPlaceIn
      <4> QED BY <2>5, <3>1, <3>2, <4>1, <4>2, FitsGrows
    <3>3. CASE a # row.account
      <4>1. \A other : <<"buy", a, other>>[2] = a /\ <<"buy", row.account, item>>[2] = row.account
        OBVIOUS
      <4>2. \A other \in Items : row.id # <<"buy", a, other>>
        BY <3>1, <3>3, <4>1
      <4>3. Owned(a)' = Owned(a)
        BY <2>4, <4>2
      <4> QED BY <2>5, <4>3
    <3> QED BY <3>2, <3>3
  <2>8. BuyRow(row) \/ row.id[1] # "buy"
    BY <2>1 DEF DueRow, EventRow, FirstMark, RiseRow
  <2> QED BY <2>6, <2>7, <2>8
<1> QED BY <1>2, <1>3, <1>4, StepWrites

-----------------------------------------------------------------------------
(* The theorems. *)

\* The invariant holds always.
THEOREM LedgerInvariance == Spec => []IInv
  BY InitIInv, NextKeeps, PTL DEF Spec

\* The ledger, the worker and the shop keep their types, whatever is cut off
\* (append, collect, settle_all).
THEOREM TypeCorrect == Spec => []TypeOK
<1>1. IInv => TypeOK
  BY DEF IInv
<1> QED BY <1>1, LedgerInvariance, PTL

\* Every row is for an event of its own and every payment for what is on record, for
\* any number of runs and faults: two of the three parts of OnlyWhatIsDue (append's
\* event_id, amount_for).
THEOREM PaidOnceForWhatHappened == Spec => [](Once /\ ForWhatHappened)
<1>1. IInv => Once /\ ForWhatHappened
  BY DEF IInv
<1> QED BY <1>1, LedgerInvariance, PTL

\* Every row is for an event of its own, every payment for what is on record, and all
\* the Bolts for revenue together are covered by the rise since the first figure seen,
\* for any figures, caps, runs and faults (append's event_id, amount_for,
\* _revenue_watermark).
THEOREM NothingButWhatIsDue == Spec => []OnlyWhatIsDue
<1>1. Init => RevenueCovered
  BY DEF Init, RevenueCovered, Marks, Index
<1>2. IInv /\ RevenueCovered /\ [Next]_vars => RevenueCovered'
  BY RevenueKept DEF IInv
<1>3. Once /\ ForWhatHappened /\ RevenueCovered => OnlyWhatIsDue
  BY DEF OnlyWhatIsDue
<1> QED BY <1>1, <1>2, <1>3, LedgerInvariance, PaidOnceForWhatHappened, PTL DEF Spec

\* No day mints more than its caps, no account falls below zero and no home holds more
\* than its rooms and places, for any prices, lists, tiers and faults (pay's caps,
\* InsufficientBolts, the rules of buy).
THEOREM LimitsAreKept == Spec => []LimitsHold
<1>1. Init => WithinCaps /\ HomesFit
  <2> SUFFICES ASSUME Init PROVE WithinCaps /\ HomesFit
    OBVIOUS
  <2>1. rows = <<>> /\ rows \in Seq(RowSet) /\ Len(rows) = 0
    BY DEF Init
  <2>2. ASSUME NEW a PROVE Balance(a) = 0
    <3>1. OfAccount(rows, a) = {}
      BY <2>1 DEF OfAccount
    <3> QED BY <2>1, <3>1, MoneyOfRows, DeltaOfNone
  <2>3. ASSUME NEW A PROVE Minted(A) = 0
    <3>1. MintedRows(rows, A) = {}
      BY <2>1 DEF MintedRows
    <3> QED BY <2>1, <3>1, MoneyOfRows, DeltaOfNone
  <2>4. \A a : Owned(a) = {}
    BY <2>1 DEF Owned, Recorded, Index
  <2>5. WithinCaps
    BY <2>2, <2>3, AmountsTyped DEF WithinCaps
  <2>6. HomesFit
    BY <2>4, EmptyFits DEF HomesFit
  <2> QED BY <2>5, <2>6
<1>2. IInv /\ WithinCaps /\ HomesFit /\ [Next]_vars => WithinCaps' /\ HomesFit'
  BY CapsKept, HomesKept DEF IInv
<1>3. WithinCaps /\ HomesFit => LimitsHold
  BY DEF WithinCaps, HomesFit, Fits, LimitsHold, Rooms, RoomsIn, TierOf, TierIn, FurnishingsIn
<1> QED BY <1>1, <1>2, <1>3, LedgerInvariance, PTL DEF Spec

\* The ledger calls itself broken only after two missed anchors in a row, for any number
\* of faults in any order (_scan).
THEOREM BreakingIsEarned == Spec => []BrokenIsEarned
<1>1. IInv => BrokenIsEarned
  BY DEF IInv, BrokenIsEarned, Broken, Anchored, TypeOK
<1> QED BY <1>1, LedgerInvariance, PTL

=============================================================================
