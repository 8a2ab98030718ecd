------------------------- MODULE BranchJournal_proof -------------------------
(***************************************************************************)
(* Theorems about BranchJournal.  The loops of the import and the ancestry *)
(* of an entry are recursive functions; what they compute is proved by     *)
(* induction, in the form of a least counterexample: a set of numbers that *)
(* has 0 and with each number the next is all of Nat.                      *)
(***************************************************************************)
EXTENDS BranchJournal, SequenceTheorems, NaturalsInduction, WellFoundedInduction, TLAPS

(* Induction and recursion over numbers. *)

\* The order of the numbers, as a relation.
Less == {ss \in Nat \X Nat : ss[1] < ss[2]}

\* It is well founded: a set of numbers that is not empty has a least member.
LEMMA LessWellFounded == IsWellFoundedOn(Less, Nat)
    BY NatLessThanWellFounded, Zenon DEF OpToRel, Less

\* Every set of numbers that is not empty has a least element.
LEMMA LeastElement ==
  ASSUME NEW T \in SUBSET Nat, T # {}
  PROVE  \E n \in T : \A m \in T : n <= m
<1>1. PICK n \in T : \A m \in T : <<m, n>> \notin Less
    BY WFMin, LessWellFounded
<1>2. \A m \in T : ~(m < n)
  <2> TAKE m \in T
  <2>1. <<m, n>> \in Nat \X Nat /\ <<m, n>>[1] = m /\ <<m, n>>[2] = n
      OBVIOUS
  <2> QED BY <1>1, <2>1 DEF Less
<1> QED BY <1>2

\* A set that has 0, and with each number the next, has all numbers.
LEMMA Induction ==
  ASSUME NEW T \in SUBSET Nat, 0 \in T, \A n \in T : n + 1 \in T
  PROVE  T = Nat
<1> SUFFICES ASSUME Nat \ T # {} PROVE FALSE
    OBVIOUS
<1>1. PICK n \in Nat \ T : \A m \in Nat \ T : n <= m
    BY LeastElement
<1>2. n # 0 /\ n - 1 \in Nat /\ n - 1 \notin Nat \ T
    BY <1>1
<1> QED BY <1>2

\* What holds of 1..n if it holds of a number whenever it holds of those below.
LEMMA FromBelow ==
  ASSUME NEW n \in Nat, NEW G,
         \A m \in 1..n : 1..(m - 1) \subseteq G => m \in G
  PROVE  1..n \subseteq G
<1> SUFFICES ASSUME (1..n) \ G # {} PROVE FALSE
    OBVIOUS
<1>1. PICK m \in (1..n) \ G : \A k \in (1..n) \ G : m <= k
  <2> DEFINE T == (1..n) \ G
  <2>1. T \in SUBSET Nat /\ T # {}
      OBVIOUS
  <2> HIDE DEF T
  <2>2. \E m \in T : \A k \in T : m <= k
      BY <2>1, LeastElement
  <2> QED BY <2>2 DEF T
<1>2. 1..(m - 1) \subseteq G
    BY <1>1
<1> QED BY <1>1, <1>2

\* What holds before a loop of n turns, and stays so with each turn.
LEMMA EachTurn ==
  ASSUME NEW n \in Nat, NEW G, 0 \in G, \A k \in 1..n : k - 1 \in G => k \in G
  PROVE  0..n \subseteq G
<1>1. \A m \in 1..n : 1..(m - 1) \subseteq G => m \in G
  <2> SUFFICES ASSUME NEW m \in 1..n, 1..(m - 1) \subseteq G PROVE m - 1 \in G
      OBVIOUS
  <2>1. m - 1 = 0 \/ m - 1 \in 1..(m - 1)
      OBVIOUS
  <2> QED BY <2>1
<1>2. 1..n \subseteq G
    BY <1>1, FromBelow
<1> QED BY <1>2

\* f[k] is what a loop that starts with a has after k turns, where turn k makes
\* step[<<k, x>>] of x.
Looped(f, n, a, step) == f[0] = a /\ \A k \in 1..n : f[k] = step[<<k, f[k - 1]>>]

\* There is such a function.
LEMMA Recursion ==
  ASSUME NEW n \in Nat, NEW S, NEW a \in S, NEW step \in [(1..n) \X S -> S]
  PROVE  \E f \in [0..n -> S] : Looped(f, n, a, step)
<1> DEFINE Runs(m, f) == f[0] = a /\ \A k \in 1..m : f[k] = step[<<k, f[k - 1]>>]
           T == {m \in Nat : m <= n => \E f \in [0..m -> S] : Runs(m, f)}
<1>1. 0 \in T
  <2>1. [k \in 0..0 |-> a] \in [0..0 -> S] /\ Runs(0, [k \in 0..0 |-> a])
      OBVIOUS
  <2> QED BY <2>1
<1>2. \A m \in T : m + 1 \in T
  <2> SUFFICES ASSUME NEW m \in T, m + 1 <= n
               PROVE  \E f \in [0..(m + 1) -> S] : Runs(m + 1, f)
      OBVIOUS
  <2>1. PICK f \in [0..m -> S] : Runs(m, f)
      OBVIOUS
  <2> DEFINE g == [k \in 0..(m + 1) |-> IF k = m + 1 THEN step[<<k, f[m]>>] ELSE f[k]]
  <2>2. m + 1 \in 1..n /\ f[m] \in S
      OBVIOUS
  <2>3. step[<<m + 1, f[m]>>] \in S
      BY <2>2
  <2>4. g \in [0..(m + 1) -> S]
      BY <2>3
  <2>5. ASSUME NEW k \in 1..(m + 1) PROVE g[k] = step[<<k, g[k - 1]>>]
    <3>1. CASE k = m + 1
      <4>1. g[k] = step[<<k, f[m]>>] /\ g[k - 1] = f[m]
          BY <3>1
      <4> QED BY <4>1
    <3>2. CASE k # m + 1
      <4>1. k \in 1..m /\ g[k] = f[k] /\ g[k - 1] = f[k - 1]
          BY <3>2
      <4> QED BY <4>1, <2>1
    <3> QED BY <3>1, <3>2
  <2>6. g[0] = a
      BY <2>1
  <2> HIDE DEF g
  <2> QED BY <2>4, <2>5, <2>6
<1>3. T = Nat
  <2> HIDE DEF T
  <2>1. T \subseteq Nat
      BY DEF T
  <2> QED BY <1>1, <1>2, <2>1, Induction
<1> QED BY <1>3 DEF Looped

-----------------------------------------------------------------------------
(* The ancestry of entries. *)

\* Entries whose parents come before them have an ancestry.
LEMMA AncestryExists ==
  ASSUME NEW n \in Nat, NEW P \in [1..n -> SUBSET Nat],
         \A i \in 1..n : P[i] \subseteq 1..(i - 1)
  PROVE  \E f : f = [i \in 1..n |-> {i} \cup UNION {f[j] : j \in P[i]}]
<1> DEFINE Fits(m, f) == \A i \in 1..m : f[i] = {i} \cup UNION {f[j] : j \in P[i]}
           T == {m \in Nat : m <= n => \E f \in [1..m -> SUBSET Nat] : Fits(m, f)}
<1>1. 0 \in T
  <2>1. [i \in 1..0 |-> {}] \in [1..0 -> SUBSET Nat] /\ Fits(0, [i \in 1..0 |-> {}])
      OBVIOUS
  <2> QED BY <2>1
<1>2. \A m \in T : m + 1 \in T
  <2> SUFFICES ASSUME NEW m \in T, m + 1 <= n
               PROVE  \E f \in [1..(m + 1) -> SUBSET Nat] : Fits(m + 1, f)
    <3> HIDE DEF Fits
    <3> QED OBVIOUS
  <2>1. PICK f \in [1..m -> SUBSET Nat] : Fits(m, f)
    <3> HIDE DEF Fits
    <3> QED OBVIOUS
  <2> DEFINE own == {m + 1} \cup UNION {f[j] : j \in P[m + 1]}
             g == [i \in 1..(m + 1) |-> IF i = m + 1 THEN own ELSE f[i]]
  <2>2. P[m + 1] \subseteq 1..m
      OBVIOUS
  <2>3. own \in SUBSET Nat
      BY <2>2
  <2>4. g \in [1..(m + 1) -> SUBSET Nat]
    <3> HIDE DEF own
    <3> QED BY <2>3
  <2>5. ASSUME NEW i \in 1..(m + 1) PROVE g[i] = {i} \cup UNION {g[j] : j \in P[i]}
    <3>1. P[i] \subseteq 1..m /\ \A j \in P[i] : g[j] = f[j]
      <4> HIDE DEF own
      <4> QED OBVIOUS
    <3>2. {g[j] : j \in P[i]} = {f[j] : j \in P[i]}
      <4> HIDE DEF g
      <4> QED BY <3>1
    <3>3. g[i] = {i} \cup UNION {f[j] : j \in P[i]}
      <4>1. CASE i = m + 1
        <5>1. g[i] = own
            BY <4>1
        <5> QED BY <5>1, <4>1
      <4>2. CASE i # m + 1
        <5>1. i \in 1..m /\ g[i] = f[i]
          <6> HIDE DEF own
          <6> QED BY <4>2
        <5> QED BY <5>1, <2>1
      <4> QED BY <4>1, <4>2
    <3> QED BY <3>2, <3>3
  <2> HIDE DEF g
  <2> QED BY <2>4, <2>5
<1>3. n \in T
  <2> HIDE DEF T
  <2>1. T \subseteq Nat
      BY DEF T
  <2> QED BY <1>1, <1>2, <2>1, Induction
<1>4. PICK f \in [1..n -> SUBSET Nat] : Fits(n, f)
    BY <1>3
<1>5. f = [i \in 1..n |-> {i} \cup UNION {f[j] : j \in P[i]}]
    BY <1>4
<1> QED BY <1>5

(* The entries of the log: what changes say, and parents before children. *)
Change == {Rename(name) : name \in Names} \cup {Delete(v) : v \in Version} \cup {Undelete, Merge}

\* The entry e says one of the changes.
IsEntry(e) == \E c \in Change : e.type = c.type /\ e.operand = c.operand

\* The records an entry may be.
EntrySet == [type : {"rename", "terminate", "merge"},
             operand : Names \cup Version \cup {None},
             parents : Seq(Nat)]

\* The entries are well formed, and each is after its parents.
LogOK ==
  /\ log \in Seq(EntrySet)
  /\ \A i \in 1..Len(log) : IsEntry(log[i]) /\ Parents(i) \subseteq 1..(i - 1)

\* The ancestry of an entry is the entry and the ancestry of its parents.
LEMMA AncestryIs ==
  LogOK => Ancestry = [i \in 1..Len(log) |-> {i} \cup UNION {Ancestry[j] : j \in Parents(i)}]
<1> SUFFICES ASSUME LogOK
             PROVE  Ancestry = [i \in 1..Len(log) |->
                                  {i} \cup UNION {Ancestry[j] : j \in Parents(i)}]
    OBVIOUS
<1> DEFINE n == Len(log)
           P == [i \in 1..n |-> Parents(i)]
<1>1. n \in Nat /\ \A i \in 1..n : Parents(i) \subseteq 1..(i - 1)
    BY DEF LogOK
<1> HIDE DEF n
<1>2. P \in [1..n -> SUBSET Nat] /\ \A i \in 1..n : P[i] \subseteq 1..(i - 1)
    BY <1>1
<1>3. PICK f : f = [i \in 1..n |-> {i} \cup UNION {f[j] : j \in P[i]}]
  <2> HIDE DEF P
  <2> QED BY <1>1, <1>2, AncestryExists
<1>4. f = [i \in 1..n |-> {i} \cup UNION {f[j] : j \in Parents(i)}]
    BY <1>3
<1> QED BY <1>4 DEF Ancestry, n

\* A is the ancestry of n entries with parents P.
IsAncestry(A, n, P) == A = [i \in 1..n |-> {i} \cup UNION {A[j] : j \in P[i]}]

\* What an ancestry contains.
LEMMA AncestryFacts ==
  ASSUME NEW n \in Nat, NEW P \in [1..n -> SUBSET Nat],
         \A i \in 1..n : P[i] \subseteq 1..(i - 1),
         NEW A, IsAncestry(A, n, P)
  PROVE  \A i \in 1..n : /\ A[i] \subseteq 1..i
                         /\ {i} \subseteq A[i]
                         /\ \A j \in A[i] : A[j] \subseteq A[i]
                         /\ P[i] \subseteq A[i]
<1> DEFINE Good(i) == /\ A[i] \subseteq 1..i
                      /\ {i} \subseteq A[i]
                      /\ \A j \in A[i] : A[j] \subseteq A[i]
                      /\ P[i] \subseteq A[i]
           G == {i \in 1..n : Good(i)}
<1>1. ASSUME NEW i \in 1..n, 1..(i - 1) \subseteq G PROVE Good(i)
  <2>1. P[i] \subseteq 1..(i - 1) /\ \A j \in P[i] : Good(j)
    <3> HIDE DEF Good
    <3> QED BY <1>1
  <2>2. A[i] = {i} \cup UNION {A[j] : j \in P[i]}
      BY DEF IsAncestry
  <2>3. \A x \in A[i] : x = i \/ \E j \in P[i] : x \in A[j]
      BY <2>2
  <2>4. \A j \in P[i] : A[j] \subseteq A[i]
      BY <2>2
  <2>5. A[i] \subseteq 1..i
    <3> SUFFICES ASSUME NEW x \in A[i], x # i PROVE x \in 1..i
        OBVIOUS
    <3>1. PICK j \in P[i] : x \in A[j]
        BY <2>3
    <3>2. A[j] \subseteq 1..j /\ j \in 1..(i - 1)
        BY <2>1
    <3> QED BY <3>1, <3>2
  <2>6. \A x \in A[i] : A[x] \subseteq A[i]
    <3> SUFFICES ASSUME NEW x \in A[i], x # i PROVE A[x] \subseteq A[i]
        OBVIOUS
    <3>1. PICK j \in P[i] : x \in A[j]
        BY <2>3
    <3>2. A[x] \subseteq A[j]
        BY <2>1, <3>1
    <3> QED BY <3>2, <2>4
  <2>7. {i} \subseteq A[i]
      BY <2>2
  <2>8. P[i] \subseteq A[i]
      BY <2>1, <2>4
  <2> QED BY <2>5, <2>6, <2>7, <2>8
<1>2. 1..n \subseteq G
  <2> HIDE DEF Good
  <2>1. \A m \in 1..n : 1..(m - 1) \subseteq G => m \in G
      BY <1>1
  <2> HIDE DEF G
  <2> QED BY <2>1, FromBelow
<1> QED BY <1>2

\* A longer log gives its first entries the ancestry they had.
LEMMA AncestryStays ==
  ASSUME NEW n \in Nat, NEW P \in [1..n -> SUBSET Nat],
         \A i \in 1..n : P[i] \subseteq 1..(i - 1),
         NEW A, IsAncestry(A, n, P),
         NEW m \in Nat, NEW Q \in [1..m -> SUBSET Nat], n <= m,
         \A i \in 1..n : Q[i] = P[i],
         NEW B, IsAncestry(B, m, Q)
  PROVE  \A i \in 1..n : B[i] = A[i]
<1> DEFINE G == {i \in 1..n : B[i] = A[i]}
<1>1. ASSUME NEW i \in 1..n, 1..(i - 1) \subseteq G PROVE B[i] = A[i]
  <2>1. \A j \in P[i] : B[j] = A[j]
      BY <1>1
  <2>2. {B[j] : j \in P[i]} = {A[j] : j \in P[i]}
      BY <2>1
  <2>3. i \in 1..m /\ Q[i] = P[i]
      OBVIOUS
  <2>4. A[i] = {i} \cup UNION {A[j] : j \in P[i]}
      BY DEF IsAncestry
  <2>5. B[i] = {i} \cup UNION {B[j] : j \in Q[i]}
      BY <2>3 DEF IsAncestry
  <2> QED BY <2>2, <2>3, <2>4, <2>5
<1>2. 1..n \subseteq G
  <2>1. \A i \in 1..n : 1..(i - 1) \subseteq G => i \in G
      BY <1>1
  <2> HIDE DEF G
  <2> QED BY <2>1, FromBelow
<1> QED BY <1>2

\* An entry is one of those it follows, and so are its parents and what those follow.
LEMMA FollowedFacts ==
  LogOK /\ Len(log) <= MaxEntries =>
    \A i \in 1..Len(log) :
      /\ Followed(i) \subseteq 1..i /\ i \in Followed(i)
      /\ \A j \in Followed(i) :
           Parents(j) \subseteq Followed(i) /\ Followed(j) \subseteq Followed(i)
      /\ Followed(i) = {i} \cup UNION {Followed(j) : j \in Parents(i)}
<1> SUFFICES ASSUME LogOK, Len(log) <= MaxEntries, NEW i \in 1..Len(log)
             PROVE  /\ Followed(i) \subseteq 1..i /\ i \in Followed(i)
                    /\ \A j \in Followed(i) : /\ Parents(j) \subseteq Followed(i)
                                              /\ Followed(j) \subseteq Followed(i)
                    /\ Followed(i) = {i} \cup UNION {Followed(j) : j \in Parents(i)}
    OBVIOUS
<1> DEFINE n == Len(log)
           P == [j \in 1..n |-> Parents(j)]
           A == Ancestry
<1>1. n \in Nat /\ \A j \in 1..n : Parents(j) \subseteq 1..(j - 1)
    BY DEF LogOK
<1>2. n <= MaxEntries /\ MaxEntries \in Nat /\ None \notin 1..MaxEntries
    BY JournalAssumption
<1>3. A = [j \in 1..n |-> {j} \cup UNION {A[k] : k \in Parents(j)}]
    BY AncestryIs
<1> HIDE DEF n
<1>4. P \in [1..n -> SUBSET Nat] /\ \A j \in 1..n : P[j] \subseteq 1..(j - 1)
    BY <1>1
<1>5. IsAncestry(A, n, P)
    BY <1>3 DEF IsAncestry
<1>6. \A j \in 1..n : /\ A[j] \subseteq 1..j
                      /\ {j} \subseteq A[j]
                      /\ \A k \in A[j] : A[k] \subseteq A[j]
                      /\ P[j] \subseteq A[j]
  <2> HIDE DEF P, A
  <2> QED BY <1>1, <1>4, <1>5, AncestryFacts
<1>7. \A j \in 1..n : j # None /\ Followed(j) = A[j]
    BY <1>1, <1>2 DEF Followed
<1>8. i \in 1..n
    BY DEF n
<1> HIDE DEF A
<1>9. A[i] \subseteq 1..n
    BY <1>1, <1>6, <1>8
<1>10. \A j \in A[i] : Parents(j) \subseteq A[i] /\ Followed(j) \subseteq A[i]
    BY <1>6, <1>7, <1>8, <1>9
<1>11. {A[k] : k \in Parents(i)} = {Followed(k) : k \in Parents(i)}
  <2>1. Parents(i) \subseteq 1..n
      BY <1>6, <1>8, <1>9
  <2> QED BY <1>7, <2>1
<1>12. A[i] = {i} \cup UNION {A[k] : k \in Parents(i)}
    BY <1>3, <1>8
<1> HIDE DEF P
<1>13. Followed(i) = A[i]
    BY <1>7, <1>8
<1>14. Followed(i) \subseteq 1..i /\ i \in Followed(i)
    BY <1>6, <1>8, <1>13
<1>15. \A j \in Followed(i) : Parents(j) \subseteq Followed(i) /\ Followed(j) \subseteq Followed(i)
    BY <1>10, <1>13
<1>16. Followed(i) = {i} \cup UNION {Followed(j) : j \in Parents(i)}
    BY <1>11, <1>12, <1>13
<1> QED BY <1>14, <1>15, <1>16

\* The same after a step.
LEMMA FollowedFactsNext ==
  LogOK' /\ Len(log') <= MaxEntries =>
    (\A i \in 1..Len(log) :
       /\ Followed(i) \subseteq 1..i /\ i \in Followed(i)
       /\ \A j \in Followed(i) :
            Parents(j) \subseteq Followed(i) /\ Followed(j) \subseteq Followed(i)
       /\ Followed(i) = {i} \cup UNION {Followed(j) : j \in Parents(i)})'
<1>1. LogOK /\ Len(log) <= MaxEntries =>
        \A i \in 1..Len(log) :
          /\ Followed(i) \subseteq 1..i /\ i \in Followed(i)
          /\ \A j \in Followed(i) :
               Parents(j) \subseteq Followed(i) /\ Followed(j) \subseteq Followed(i)
          /\ Followed(i) = {i} \cup UNION {Followed(j) : j \in Parents(i)}
    BY FollowedFacts
<1>2. (LogOK /\ Len(log) <= MaxEntries =>
        \A i \in 1..Len(log) :
          /\ Followed(i) \subseteq 1..i /\ i \in Followed(i)
          /\ \A j \in Followed(i) :
               Parents(j) \subseteq Followed(i) /\ Followed(j) \subseteq Followed(i)
          /\ Followed(i) = {i} \cup UNION {Followed(j) : j \in Parents(i)})'
    BY <1>1, PTL
<1> QED BY <1>2

\* What the log is made of.
LEMMA LogEntries ==
  LogOK => /\ Len(log) \in Nat
           /\ \A i \in 1..Len(log) : /\ log[i] \in EntrySet /\ log[i].parents \in Seq(Nat)
                                     /\ IsEntry(log[i])
                                     /\ ToSet(log[i].parents) \subseteq 1..(i - 1)
<1> SUFFICES ASSUME LogOK
             PROVE  /\ Len(log) \in Nat
                    /\ \A i \in 1..Len(log) : /\ log[i] \in EntrySet
                                              /\ log[i].parents \in Seq(Nat)
                                              /\ IsEntry(log[i])
                                              /\ ToSet(log[i].parents) \subseteq 1..(i - 1)
    OBVIOUS
<1>1. log \in Seq(EntrySet)
    BY DEF LogOK
<1>2. Len(log) \in Nat /\ \A i \in 1..Len(log) : log[i] \in EntrySet
    BY <1>1
<1>3. \A e \in EntrySet : e.parents \in Seq(Nat)
    BY DEF EntrySet
<1> QED BY <1>2, <1>3 DEF LogOK, Parents

\* Appending to the log changes nothing about the entries it has.
LEMMA FollowedStays ==
  LogOK /\ LogOK' /\ Len(log) <= Len(log') /\ (\A i \in 1..Len(log) : log'[i] = log[i]) =>
    \A i \in 1..Len(log) \cup {None} : Followed(i)' = Followed(i)
<1>a. LogOK' => (Ancestry = [i \in 1..Len(log) |->
                               {i} \cup UNION {Ancestry[j] : j \in Parents(i)}])'
    BY AncestryIs, PTL
<1> SUFFICES ASSUME LogOK, LogOK', Len(log) <= Len(log'), \A i \in 1..Len(log) : log'[i] = log[i]
             PROVE  \A i \in 1..Len(log) : Ancestry'[i] = Ancestry[i]
    BY DEF Followed
<1> DEFINE n == Len(log)
           m == Len(log')
           P == [i \in 1..n |-> Parents(i)]
           Q == [i \in 1..m |-> Parents(i)']
           A == Ancestry
           B == Ancestry'
<1>1. /\ n \in Nat /\ \A i \in 1..n : Parents(i) \subseteq 1..(i - 1)
      /\ m \in Nat /\ \A i \in 1..m : Parents(i)' \subseteq 1..(i - 1)
    BY DEF LogOK
<1>2. A = [i \in 1..n |-> {i} \cup UNION {A[j] : j \in Parents(i)}]
    BY AncestryIs
<1>3. B = [i \in 1..m |-> {i} \cup UNION {B[j] : j \in Parents(i)'}]
    BY <1>a
<1>4. n <= m /\ \A i \in 1..n : Parents(i)' = Parents(i)
    BY DEF Parents
<1> HIDE DEF n, m
<1>5. P \in [1..n -> SUBSET Nat] /\ Q \in [1..m -> SUBSET Nat]
    BY <1>1
<1>6. \A i \in 1..n : P[i] \subseteq 1..(i - 1)
    BY <1>1
<1>10. \A i \in 1..n : Q[i] = P[i]
    BY <1>1, <1>4
<1>7. IsAncestry(A, n, P)
    BY <1>2 DEF IsAncestry
<1>8. IsAncestry(B, m, Q)
    BY <1>3 DEF IsAncestry
<1>9. \A i \in 1..n : B[i] = A[i]
  <2> HIDE DEF A, B, P, Q
  <2> QED BY <1>1, <1>4, <1>5, <1>6, <1>7, <1>8, <1>10, AncestryStays
<1> QED BY <1>9 DEF n

-----------------------------------------------------------------------------
(* Replaying. *)

\* What the replay of entries, and of one deletion, works on.
WorkSet == [d : Database, conflicts : Seq(Change), ok : BOOLEAN,
            end : (1..MaxEntries) \cup {None}]
DeletionSet == [target : Version, conflicts : Seq(Change)]

\* The numbers are numbers, and null is none of them.
LEMMA Constants ==
  /\ MaxEntries \in Nat /\ MaxVersion \in Nat /\ Version \subseteq Nat
  /\ None \notin Version /\ None \notin 1..MaxEntries
  BY JournalAssumption DEF Version

\* What changes there are.
LEMMA Changes ==
  /\ \A name \in Names : Rename(name) \in Change
  /\ \A v \in Version : Delete(v) \in Change
  /\ Undelete \in Change /\ Merge \in Change
  BY DEF Change

\* A head row more.
LEMMA DeleteHeadTyped ==
  ASSUME NEW w \in DeletionSet, NEW x \in Version, NEW choice
  PROVE  DeleteHead(w, x, choice) \in DeletionSet
<1>1. Append(w.conflicts, Delete(x)) \in Seq(Change)
  <2>1. w.conflicts \in Seq(Change) /\ Delete(x) \in Change
      BY Changes DEF DeletionSet
  <2> QED BY <2>1
<1>2. w.conflicts \o <<Delete(x), Undelete>> \in Seq(Change)
  <2>1. w.conflicts \in Seq(Change) /\ Delete(x) \in Change /\ Undelete \in Change
      BY Changes DEF DeletionSet
  <2>2. <<Delete(x), Undelete>> \in Seq(Change)
      BY <2>1
  <2> QED BY <2>1, <2>2, ConcatProperties
<1> QED BY <1>1, <1>2 DEF DeleteHead, DeletionSet

\* The loop over the head rows.
LEMMA DeleteHeadsTyped ==
  ASSUME NEW w \in DeletionSet, NEW heads \in Seq(Version), NEW choice
  PROVE  DeleteHeads(w, heads, choice) \in DeletionSet
<1> DEFINE n == Len(heads)
           S == DeletionSet
           step == [p \in (1..n) \X S |-> DeleteHead(p[2], heads[p[1]], choice)]
           Turns(f) == f = [k \in 0..n |->
                               IF k = 0 THEN w ELSE DeleteHead(f[k - 1], heads[k], choice)]
           after == CHOOSE f : Turns(f)
<1>1. n \in Nat /\ \A k \in 1..n : heads[k] \in Version
    OBVIOUS
<1> HIDE DEF n
<1>2. step \in [(1..n) \X S -> S]
    BY <1>1, DeleteHeadTyped
<1>3. \E f : Turns(f)
  <2>1. PICK f \in [0..n -> S] : Looped(f, n, w, step)
    <3> HIDE DEF S, step, Turns
    <3>1. w \in S
        BY DEF S
    <3> QED BY <1>1, <1>2, <3>1, Recursion
  <2>2. \A k \in 1..n : f[k] = DeleteHead(f[k - 1], heads[k], choice)
    <3> SUFFICES ASSUME NEW k \in 1..n PROVE f[k] = DeleteHead(f[k - 1], heads[k], choice)
        OBVIOUS
    <3>1. k - 1 \in 0..n
        BY <1>1
    <3>2. <<k, f[k - 1]>> \in (1..n) \X S
        BY <3>1
    <3> QED BY <2>1, <3>2 DEF Looped
  <2>3. Turns(f)
      BY <1>1, <2>1, <2>2 DEF Looped
  <2> QED BY <2>3
<1>4. Turns(after)
    BY <1>3
<1>5. after[0] = w /\ \A k \in 1..n : after[k] = DeleteHead(after[k - 1], heads[k], choice)
  <2> HIDE DEF after
  <2> QED BY <1>1, <1>4
<1>6. DeleteHeads(w, heads, choice) = after[n]
    BY DEF DeleteHeads, n
<1> DEFINE G == {k \in 0..n : after[k] \in S}
<1> HIDE DEF after
<1>7. 0..n \subseteq G
  <2>1. 0 \in G
      BY <1>1, <1>5
  <2>2. \A k \in 1..n : k - 1 \in G => k \in G
      BY <1>1, <1>5, DeleteHeadTyped
  <2> HIDE DEF G
  <2> QED BY <1>1, <2>1, <2>2, EachTurn
<1> QED BY <1>1, <1>6, <1>7

\* What a deletion, and what any entry, leaves alone: the journal and its ends.
SameJournal(x, w) ==
  x.d.journal = w.d.journal /\ x.d.tip = w.d.tip /\ x.end = w.end /\ (x.ok => w.ok)

\* The end of a branch leaves the journal, and types, as they are.
LEMMA TerminateTyped ==
  ASSUME NEW w \in WorkSet, NEW t \in Version, NEW remote \in BOOLEAN, NEW known \in Version,
         NEW choice
  PROVE  /\ Terminate(w, t, remote, known, choice) \in WorkSet
         /\ SameJournal(Terminate(w, t, remote, known, choice), w)
<1> DEFINE rows == IF remote THEN w.d.heads ELSE <<>>
           end == DeleteHeads([target |-> t, conflicts |-> w.conflicts], rows, choice)
<1>1. w.d \in Database /\ w.conflicts \in Seq(Change) /\ rows \in Seq(Version)
    BY DEF WorkSet, Database
<1>2. end \in DeletionSet
  <2>1. [target |-> t, conflicts |-> w.conflicts] \in DeletionSet
      BY <1>1 DEF DeletionSet
  <2> HIDE DEF rows
  <2> QED BY <1>1, <2>1, DeleteHeadsTyped
<1> DEFINE x == Terminate(w, t, remote, known, choice)
<1>3. CASE t > known
  <2>1. x = [w EXCEPT !.d.terminus = t]
      BY <1>3 DEF Terminate
  <2> QED BY <2>1 DEF WorkSet, Database, SameJournal
<1>4. CASE ~(t > known) /\ remote /\ w.d.terminus # None /\ ~(w.d.terminus <= t)
  <2>1. x = [w EXCEPT !.conflicts = Append(@, Delete(w.d.terminus))]
      BY <1>4 DEF Terminate
  <2>2. Append(w.conflicts, Delete(w.d.terminus)) \in Seq(Change)
    <3>1. Delete(w.d.terminus) \in Change
        BY <1>1, <1>4, Changes DEF Database
    <3> QED BY <1>1, <3>1
  <2> QED BY <2>1, <2>2 DEF WorkSet, SameJournal
<1>5. CASE ~(t > known) /\ ~(remote /\ w.d.terminus # None /\ ~(w.d.terminus <= t))
  <2>1. x = [w EXCEPT !.d.terminus = end.target, !.d.heads = <<>>, !.conflicts = end.conflicts]
      BY <1>5 DEF Terminate
  <2>2. end.target \in Version /\ end.conflicts \in Seq(Change) /\ <<>> \in Seq(Version)
      BY <1>2 DEF DeletionSet
  <2> HIDE DEF end
  <2> DEFINE d == [w.d EXCEPT !.terminus = end.target, !.heads = <<>>]
  <2>3. d \in Database /\ d.journal = w.d.journal /\ d.tip = w.d.tip
      BY <1>1, <2>2 DEF Database
  <2>4. x = [w EXCEPT !.d = d, !.conflicts = end.conflicts]
      BY <2>1 DEF WorkSet, Database
  <2> HIDE DEF d
  <2> QED BY <2>2, <2>3, <2>4 DEF WorkSet, SameJournal
<1> QED BY <1>3, <1>4, <1>5

\* So does the replay of any entry.
LEMMA ReplayTyped ==
  ASSUME NEW w \in WorkSet, NEW e, IsEntry(e), NEW remote \in BOOLEAN, NEW known \in Version,
         NEW choice
  PROVE  /\ Replay(w, e, remote, known, choice) \in WorkSet
         /\ SameJournal(Replay(w, e, remote, known, choice), w)
<1> DEFINE x == Replay(w, e, remote, known, choice)
<1>1. PICK c \in Change : e.type = c.type /\ e.operand = c.operand
    BY DEF IsEntry
<1>2. CASE c \in {Rename(name) : name \in Names}
  <2>1. PICK name \in Names : e.type = "rename" /\ e.operand = name
      BY <1>1, <1>2 DEF Rename
  <2>2. x = [w EXCEPT !.d.name = name]
      BY <2>1 DEF Replay
  <2> QED BY <2>2 DEF WorkSet, Database, SameJournal
<1>3. CASE c \in {Delete(v) : v \in Version}
  <2>1. PICK v \in Version : e.type = "terminate" /\ e.operand = v
      BY <1>1, <1>3 DEF Delete
  <2>2. v # None
      BY Constants
  <2>3. x = Terminate(w, v, remote, known, choice)
      BY <2>1, <2>2 DEF Replay
  <2> QED BY <2>3, TerminateTyped
<1>4. CASE c = Undelete
  <2>1. e.type = "terminate" /\ e.operand = None
      BY <1>1, <1>4 DEF Undelete
  <2>2. x = IF w.d.terminus # None THEN Revive(w, known) ELSE [w EXCEPT !.ok = FALSE]
      BY <2>1 DEF Replay
  <2>3. CASE w.d.terminus # None
    <3>1. w.d.terminus \in Version /\ w.d.heads \in Seq(Version)
        BY <2>3 DEF WorkSet, Database
    <3>2. Append(w.d.heads, w.d.terminus) \in Seq(Version)
        BY <3>1
    <3> DEFINE heads == IF w.d.terminus <= known THEN Append(w.d.heads, w.d.terminus) ELSE w.d.heads
    <3>3. x = [w EXCEPT !.d.terminus = None, !.d.heads = heads]
        BY <2>2, <2>3 DEF Revive
    <3>4. heads \in Seq(Version)
        BY <3>1, <3>2
    <3> HIDE DEF heads
    <3> DEFINE d == [w.d EXCEPT !.terminus = None, !.heads = heads]
    <3>5. d \in Database /\ d.journal = w.d.journal /\ d.tip = w.d.tip
        BY <3>4 DEF WorkSet, Database
    <3>6. x = [w EXCEPT !.d = d]
        BY <3>3 DEF WorkSet, Database
    <3> HIDE DEF d
    <3> QED BY <3>5, <3>6 DEF WorkSet, SameJournal
  <2>4. CASE w.d.terminus = None
    <3>1. x = [w EXCEPT !.ok = FALSE]
        BY <2>2, <2>4
    <3> QED BY <3>1 DEF WorkSet, SameJournal
  <2> QED BY <2>3, <2>4
<1>5. CASE c = Merge
  <2>1. x = w
      BY <1>1, <1>5 DEF Merge, Replay
  <2> QED BY <2>1 DEF SameJournal
<1> QED BY <1>2, <1>3, <1>4, <1>5 DEF Change

\* A received entry is passed over, or is in the journal and the last one now.
LEMMA AcceptTyped ==
  ASSUME NEW w \in WorkSet, NEW i \in 1..MaxEntries, IsEntry(log[i]), NEW known \in Version,
         NEW choice, NEW x, x = Accept(w, i, known, choice)
  PROVE  /\ x \in WorkSet /\ x.d.tip = w.d.tip
         /\ \/ x = w /\ (i \in w.d.journal \/ ~(Parents(i) \subseteq w.d.journal))
            \/ /\ i \notin w.d.journal /\ Parents(i) \subseteq w.d.journal
               /\ x.d.journal = w.d.journal \cup {i} /\ x.end = i
<1> DEFINE y == Replay(w, log[i], TRUE, known, choice)
<1>1. y \in WorkSet /\ SameJournal(y, w)
    BY ReplayTyped
<1>2. CASE i \in w.d.journal \/ ~(Parents(i) \subseteq w.d.journal)
  <2>1. x = w
      BY <1>2 DEF Accept
  <2> QED BY <1>2, <2>1
<1>3. CASE ~(i \in w.d.journal \/ ~(Parents(i) \subseteq w.d.journal))
  <2>1. x = [y EXCEPT !.d.journal = @ \cup {i}, !.end = i]
      BY <1>3 DEF Accept
  <2> HIDE DEF y
  <2> DEFINE d == [y.d EXCEPT !.journal = @ \cup {i}]
  <2>4. d \in Database
      BY <1>1 DEF WorkSet, Database
  <2>5. x = [y EXCEPT !.d = d, !.end = i]
      BY <1>1, <2>1 DEF WorkSet, Database
  <2>2. x \in WorkSet
    <3> HIDE DEF d
    <3> QED BY <1>1, <2>4, <2>5 DEF WorkSet
  <2>3. x.d.tip = w.d.tip /\ x.d.journal = w.d.journal \cup {i} /\ x.end = i
      BY <1>1, <2>1 DEF WorkSet, Database, SameJournal
  <2> QED BY <1>3, <2>2, <2>3
<1> QED BY <1>2, <1>3

\* What every Accept keeps, a pass keeps.
LEMMA PassKeeps ==
  ASSUME NEW S, NEW w \in S, NEW N, NEW entries \in Seq(N), NEW known, NEW choice,
         \A x \in S : \A i \in ToSet(entries) : Accept(x, i, known, choice) \in S
  PROVE  Pass(w, entries, known, choice) \in S
<1> DEFINE n == Len(entries)
           step == [p \in (1..n) \X S |-> Accept(p[2], entries[p[1]], known, choice)]
           Turns(f) == f = [k \in 0..n |->
                               IF k = 0 THEN w ELSE Accept(f[k - 1], entries[k], known, choice)]
           after == CHOOSE f : Turns(f)
<1>1. n \in Nat /\ \A k \in 1..n : entries[k] \in ToSet(entries)
    BY DEF ToSet
<1> HIDE DEF n
<1>2. step \in [(1..n) \X S -> S]
    BY <1>1
<1>3. \E f : Turns(f)
  <2>1. PICK f \in [0..n -> S] : Looped(f, n, w, step)
    <3> HIDE DEF step, Turns
    <3> QED BY <1>1, <1>2, Recursion
  <2>2. \A k \in 1..n : f[k] = Accept(f[k - 1], entries[k], known, choice)
    <3> SUFFICES ASSUME NEW k \in 1..n PROVE f[k] = Accept(f[k - 1], entries[k], known, choice)
        OBVIOUS
    <3>1. <<k, f[k - 1]>> \in (1..n) \X S
        BY <1>1
    <3> QED BY <2>1, <3>1 DEF Looped
  <2>3. Turns(f)
      BY <1>1, <2>1, <2>2 DEF Looped
  <2> QED BY <2>3
<1>4. Turns(after)
    BY <1>3
<1>5. after[0] = w /\ \A k \in 1..n : after[k] = Accept(after[k - 1], entries[k], known, choice)
  <2> HIDE DEF after
  <2> QED BY <1>1, <1>4
<1>6. Pass(w, entries, known, choice) = after[n]
    BY DEF Pass, n
<1> DEFINE G == {k \in 0..n : after[k] \in S}
<1> HIDE DEF after
<1>7. 0..n \subseteq G
  <2>1. 0 \in G
      BY <1>1, <1>5
  <2>2. \A k \in 1..n : k - 1 \in G => k \in G
      BY <1>1, <1>5
  <2> HIDE DEF G
  <2> QED BY <1>1, <2>1, <2>2, EachTurn
<1> QED BY <1>1, <1>6, <1>7

\* And so do all passes.
LEMMA AcceptAllKeeps ==
  ASSUME NEW S, NEW d, Work(d) \in S, NEW N, NEW entries \in Seq(N), NEW known, NEW choice,
         \A x \in S : \A i \in ToSet(entries) : Accept(x, i, known, choice) \in S
  PROVE  \E w \in S : AcceptAll(d, entries, known, choice) =
           [w EXCEPT !.ok = /\ w.ok
                            /\ ToSet(entries) \cap d.journal = {}
                            /\ ToSet(entries) \subseteq w.d.journal]
<1>0. \A x \in S : Pass(x, entries, known, choice) \in S
    BY PassKeeps
<1> DEFINE n == Len(entries)
           step == [p \in (1..n) \X S |-> Pass(p[2], entries, known, choice)]
           Turns(f) == f = [k \in 0..n |->
                               IF k = 0 THEN Work(d) ELSE Pass(f[k - 1], entries, known, choice)]
           after == CHOOSE f : Turns(f)
<1>1. n \in Nat /\ \A k \in 1..n : TRUE
    BY DEF ToSet
<1> HIDE DEF n
<1>2. step \in [(1..n) \X S -> S]
    BY <1>0, <1>1
<1>3. \E f : Turns(f)
  <2>1. PICK f \in [0..n -> S] : Looped(f, n, Work(d), step)
    <3> HIDE DEF step, Turns
    <3> QED BY <1>1, <1>2, Recursion
  <2>2. \A k \in 1..n : f[k] = Pass(f[k - 1], entries, known, choice)
    <3> SUFFICES ASSUME NEW k \in 1..n PROVE f[k] = Pass(f[k - 1], entries, known, choice)
        OBVIOUS
    <3>1. <<k, f[k - 1]>> \in (1..n) \X S
        BY <1>1
    <3> QED BY <2>1, <3>1 DEF Looped
  <2>3. Turns(f)
      BY <1>1, <2>1, <2>2 DEF Looped
  <2> QED BY <2>3
<1>4. Turns(after)
    BY <1>3
<1>5. after[0] = Work(d) /\ \A k \in 1..n : after[k] = Pass(after[k - 1], entries, known, choice)
  <2> HIDE DEF after
  <2> QED BY <1>1, <1>4
<1> DEFINE G == {k \in 0..n : after[k] \in S}
<1>7. 0..n \subseteq G
  <2> HIDE DEF after
  <2>1. 0 \in G
      BY <1>1, <1>5
  <2>2. \A k \in 1..n : k - 1 \in G => k \in G
      BY <1>0, <1>1, <1>5
  <2> HIDE DEF G
  <2> QED BY <1>1, <2>1, <2>2, EachTurn
<1>8. after[n] \in S
  <2> HIDE DEF after
  <2> QED BY <1>1, <1>7
<1>9. AcceptAll(d, entries, known, choice) =
        [after[n] EXCEPT !.ok = /\ after[n].ok
                                /\ ToSet(entries) \cap d.journal = {}
                                /\ ToSet(entries) \subseteq after[n].d.journal]
    BY DEF AcceptAll, n
<1> HIDE DEF after
<1> QED BY <1>8, <1>9

\* An entry that the import writes itself.
LEMMA AddEntryTyped ==
  ASSUME NEW w \in WorkSet, NEW e, IsEntry(e), NEW i \in 1..MaxEntries, NEW known \in Version
  PROVE  /\ AddEntry(w, e, i, known) \in WorkSet
         /\ AddEntry(w, e, i, known).d.journal = w.d.journal \cup {i}
         /\ AddEntry(w, e, i, known).end = i
         /\ AddEntry(w, e, i, known).ok => w.ok
<1> DEFINE v == [w EXCEPT !.conflicts = <<>>]
           x == Replay(v, e, TRUE, known, "move")
           y == AddEntry(w, e, i, known)
<1>1. v \in WorkSet /\ v.d = w.d /\ v.ok = w.ok
  <2>1. <<>> \in Seq(Change)
      OBVIOUS
  <2>2. v \in WorkSet
      BY <2>1 DEF WorkSet
  <2> QED BY <2>2 DEF WorkSet
<1>2. x \in WorkSet /\ SameJournal(x, v)
  <2> HIDE DEF v
  <2> QED BY <1>1, ReplayTyped
<1>3. y = [x EXCEPT !.d.journal = @ \cup {i}, !.end = i, !.ok = @ /\ x.conflicts = <<>>]
    BY DEF AddEntry
<1> HIDE DEF x, v
<1> DEFINE d == [x.d EXCEPT !.journal = @ \cup {i}]
           ok == x.ok /\ x.conflicts = <<>>
<1>4. d \in Database /\ d.journal = w.d.journal \cup {i}
    BY <1>1, <1>2 DEF WorkSet, Database, SameJournal
<1>5. y = [x EXCEPT !.d = d, !.end = i, !.ok = ok]
    BY <1>2, <1>3 DEF WorkSet, Database
<1>6. ok \in BOOLEAN /\ (ok => w.ok)
    BY <1>1, <1>2 DEF SameJournal
<1> HIDE DEF d, ok
<1>7. y \in WorkSet
    BY <1>2, <1>4, <1>5, <1>6 DEF WorkSet
<1>8. y.d = d /\ y.end = i /\ y.ok = ok
    BY <1>2, <1>5 DEF WorkSet
<1> QED BY <1>4, <1>6, <1>7, <1>8

\* All of them.
LEMMA AddEntriesAdd ==
  ASSUME Len(log) \in Nat, NEW w \in WorkSet, NEW N, NEW new \in Seq(N), NEW known \in Version,
         \A k \in 1..Len(new) : IsEntry(new[k]), Len(log) + Len(new) <= MaxEntries
  PROVE  /\ AddEntries(w, new, known) \in WorkSet
         /\ AddEntries(w, new, known).d.journal =
              w.d.journal \cup (Len(log) + 1 .. Len(log) + Len(new))
         /\ AddEntries(w, new, known).end =
              IF Len(new) = 0 THEN w.end ELSE Len(log) + Len(new)
         /\ AddEntries(w, new, known).ok => w.ok
<1> DEFINE S == WorkSet
           L == Len(log)
<1>0. L \in Nat /\ Len(new) \in Nat /\ \A k \in 1..Len(new) : L + k \in 1..MaxEntries
    BY Constants
<1> HIDE DEF S
<1> DEFINE n == Len(new)
           step == [p \in (1..n) \X S |-> AddEntry(p[2], new[p[1]], L + p[1], known)]
           Turns(f) == f = [k \in 0..n |->
                               IF k = 0 THEN w ELSE AddEntry(f[k - 1], new[k], L + k, known)]
           after == CHOOSE f : Turns(f)
<1>1. n \in Nat /\ \A k \in 1..n : IsEntry(new[k]) /\ L + k \in 1..MaxEntries
    BY <1>0
<1> HIDE DEF n
<1>2. step \in [(1..n) \X S -> S]
    BY <1>1, AddEntryTyped DEF S
<1>3. \E f : Turns(f)
  <2>1. PICK f \in [0..n -> S] : Looped(f, n, w, step)
    <3>1. w \in S
        BY DEF S
    <3> HIDE DEF step, Turns
    <3> QED BY <1>1, <1>2, <3>1, Recursion
  <2>2. \A k \in 1..n : f[k] = AddEntry(f[k - 1], new[k], L + k, known)
    <3> SUFFICES ASSUME NEW k \in 1..n PROVE f[k] = AddEntry(f[k - 1], new[k], L + k, known)
        OBVIOUS
    <3>1. <<k, f[k - 1]>> \in (1..n) \X S
        BY <1>1
    <3> QED BY <2>1, <3>1 DEF Looped
  <2>3. Turns(f)
      BY <1>1, <2>1, <2>2 DEF Looped
  <2> QED BY <2>3
<1>4. Turns(after)
    BY <1>3
<1>5. after[0] = w /\ \A k \in 1..n : after[k] = AddEntry(after[k - 1], new[k], L + k, known)
  <2> HIDE DEF after
  <2> QED BY <1>1, <1>4
<1>6. AddEntries(w, new, known) = after[n]
    BY DEF AddEntries, n
<1> DEFINE Added(k) == /\ after[k] \in WorkSet
                       /\ after[k].d.journal = w.d.journal \cup (L + 1 .. L + k)
                       /\ after[k].end = IF k = 0 THEN w.end ELSE L + k
                       /\ after[k].ok => w.ok
           G == {k \in 0..n : Added(k)}
<1> HIDE DEF after
<1>7. 0..n \subseteq G
  <2> HIDE DEF L
  <2>1. 0 \in G
    <3>1. (L + 1 .. L + 0) = {}
        BY <1>0
    <3> QED BY <1>1, <1>5, <3>1
  <2>2. ASSUME NEW k \in 1..n, k - 1 \in G PROVE Added(k)
    <3>1. Added(k - 1)
        BY <2>2
    <3>2. after[k] = AddEntry(after[k - 1], new[k], L + k, known)
        BY <1>5
    <3>3. /\ after[k] \in WorkSet
          /\ after[k].d.journal = after[k - 1].d.journal \cup {L + k}
          /\ after[k].end = L + k
          /\ after[k].ok => after[k - 1].ok
        BY <1>1, <3>1, <3>2, AddEntryTyped
    <3>4. (L + 1 .. L + (k - 1)) \cup {L + k} = L + 1 .. L + k
      <4>1. k \in Nat /\ k > 0
          BY <1>1
      <4>2. \A i : i \in (L + 1 .. L + (k - 1)) \/ i = L + k <=> i \in L + 1 .. L + k
          BY <1>0, <4>1
      <4> QED BY <4>2
    <3>5. k # 0 /\ k \in Nat
        BY <1>1
    <3> QED BY <3>1, <3>3, <3>4, <3>5
  <2>3. \A k \in 1..n : k - 1 \in G => k \in G
    <3> HIDE DEF Added
    <3> QED BY <1>1, <2>2
  <2> HIDE DEF G
  <2> QED BY <1>1, <2>1, <2>3, EachTurn
<1>8. Added(n)
  <2> HIDE DEF Added
  <2> QED BY <1>1, <1>7
<1> QED BY <1>6, <1>8 DEF n

\* A change that the repository makes itself.
LEMMA InsertTyped ==
  ASSUME NEW d \in Database, NEW e, IsEntry(e), NEW i \in 1..MaxEntries
  PROVE  /\ Insert(d, e, i) \in Database
         /\ Insert(d, e, i).journal = d.journal \cup {i} /\ Insert(d, e, i).tip = i
<1> DEFINE v == Work(d)
           w == Replay(v, e, FALSE, d.latest, "accept")
<1>1. v \in WorkSet /\ d.latest \in Version /\ v.d = d
  <2>1. <<>> \in Seq(Change)
      OBVIOUS
  <2> QED BY <2>1 DEF Work, WorkSet, Database
<1> HIDE DEF v
<1>2. w \in WorkSet /\ SameJournal(w, v)
  <2> DEFINE known == d.latest
             remote == FALSE
  <2>1. known \in Version /\ remote \in BOOLEAN
      BY <1>1
  <2> HIDE DEF known, remote
  <2>2. /\ Replay(v, e, remote, known, "accept") \in WorkSet
        /\ SameJournal(Replay(v, e, remote, known, "accept"), v)
      BY <1>1, <2>1, ReplayTyped
  <2> QED BY <2>2 DEF known, remote
<1>3. Insert(d, e, i) = [w.d EXCEPT !.journal = @ \cup {i}, !.tip = i]
    BY DEF Insert, v
<1> HIDE DEF w
<1> DEFINE x == w.d
<1>4. x \in Database /\ x.journal = d.journal
    BY <1>1, <1>2 DEF WorkSet, SameJournal
<1>5. Insert(d, e, i) = [x EXCEPT !.journal = @ \cup {i}, !.tip = i]
    BY <1>3
<1> HIDE DEF x
<1> DEFINE j == x.journal \cup {i}
<1>6. j \in SUBSET (1..MaxEntries) /\ j = d.journal \cup {i}
    BY <1>4 DEF Database
<1>7. Insert(d, e, i) = [x EXCEPT !.journal = j, !.tip = i]
    BY <1>5
<1> HIDE DEF j
<1>8. [x EXCEPT !.journal = j, !.tip = i] \in Database
    BY <1>4, <1>6 DEF Database
<1>9. /\ [x EXCEPT !.journal = j, !.tip = i].journal = j
      /\ [x EXCEPT !.journal = j, !.tip = i].tip = i
    BY <1>4 DEF Database
<1> QED BY <1>6, <1>7, <1>8, <1>9

-----------------------------------------------------------------------------
(* Sequences. *)

\* Sequences and their elements.
LEMMA SequenceElements ==
  ASSUME NEW N, NEW q \in Seq(N)
  PROVE  /\ ToSet(q) \subseteq N
         /\ \A M : q \in Seq(M) <=> ToSet(q) \subseteq M
         /\ q = <<>> <=> ToSet(q) = {}
<1>1. Len(q) \in Nat /\ q \in [1..Len(q) -> N] /\ DOMAIN q = 1..Len(q)
    OBVIOUS
<1>2. ToSet(q) = {q[i] : i \in 1..Len(q)}
    BY <1>1 DEF ToSet
<1>3. ASSUME NEW M, ToSet(q) \subseteq M PROVE q \in Seq(M)
  <2>1. q \in [1..Len(q) -> M]
      BY <1>1, <1>2, <1>3
  <2> QED BY <1>1, <2>1
<1>4. ASSUME NEW M, q \in Seq(M) PROVE ToSet(q) \subseteq M
  <2>1. \A i \in 1..Len(q) : q[i] \in M
      BY <1>4
  <2> QED BY <1>2, <2>1
<1>5. q = <<>> <=> ToSet(q) = {}
  <2>1. q = <<>> <=> Len(q) = 0
      OBVIOUS
  <2>2. Len(q) = 0 <=> ToSet(q) = {}
      BY <1>1, <1>2
  <2> QED BY <2>1, <2>2
<1> QED BY <1>3, <1>4, <1>5

\* The top of a stack, and what is below it.
LEMMA TopOfStack ==
  ASSUME NEW N, NEW q \in Seq(N), q # <<>>
  PROVE  /\ Last(q) \in ToSet(q) /\ Front(q) \in Seq(N)
         /\ ToSet(q) = ToSet(Front(q)) \cup {Last(q)}
<1> DEFINE n == Len(q)
           p == Front(q)
<1>1. n \in Nat /\ n > 0 /\ DOMAIN q = 1..n /\ \A i \in 1..n : q[i] \in N
    OBVIOUS
<1>2. p \in Seq(N) /\ Len(p) = n - 1 /\ \A i \in 1..(n - 1) : p[i] = q[i]
  <2>1. p = SubSeq(q, 1, n - 1)
      BY DEF Front
  <2>2. /\ SubSeq(q, 1, n - 1) \in Seq(N)
        /\ Len(SubSeq(q, 1, n - 1)) = IF 1 <= n - 1 THEN (n - 1) - 1 + 1 ELSE 0
        /\ \A i \in 1..((n - 1) - 1 + 1) : SubSeq(q, 1, n - 1)[i] = q[1 + i - 1]
    <3>1. 1 \in Int /\ n - 1 \in Int /\ \A i \in 1..(n - 1) : q[i] \in N
        BY <1>1
    <3> HIDE DEF n
    <3> QED BY <3>1, SubSeqProperties
  <2> HIDE DEF n, p
  <2>3. (n - 1) - 1 + 1 = n - 1 /\ \A i \in 1..(n - 1) : 1 + i - 1 = i
      BY <1>1
  <2>4. (IF 1 <= n - 1 THEN (n - 1) - 1 + 1 ELSE 0) = n - 1
      BY <1>1
  <2> QED BY <2>1, <2>2, <2>3, <2>4
<1> HIDE DEF n
<1>3. Last(q) = q[n]
    BY DEF Last, n
<1>4. ToSet(q) = {q[i] : i \in 1..n}
    BY <1>1 DEF ToSet
<1> HIDE DEF p
<1>5. ToSet(p) = {p[i] : i \in 1..(n - 1)}
  <2>1. DOMAIN p = 1..(n - 1)
      BY <1>2
  <2> QED BY <2>1 DEF ToSet
<1>6. \A i \in 1..n : i = n \/ i \in 1..(n - 1)
    BY <1>1
<1>7. n \in 1..n /\ \A i \in 1..(n - 1) : i \in 1..n
    BY <1>1
<1>8. ToSet(q) = ToSet(p) \cup {q[n]}
    BY <1>2, <1>4, <1>5, <1>6, <1>7
<1> QED BY <1>2, <1>3, <1>8 DEF p

\* Elements that come behind the others.
LEMMA ElementsOfConcat ==
  ASSUME NEW N, NEW p \in Seq(N), NEW q \in Seq(N)
  PROVE  p \o q \in Seq(N) /\ ToSet(p \o q) = ToSet(p) \cup ToSet(q)
<1> DEFINE m == Len(p)
           n == Len(q)
           u == p \o q
<1>1. /\ m \in Nat /\ n \in Nat /\ u \in Seq(N) /\ Len(u) = m + n
      /\ \A i \in 1..(m + n) : u[i] = IF i <= m THEN p[i] ELSE q[i - m]
    BY ConcatProperties
<1>2. DOMAIN p = 1..m /\ DOMAIN q = 1..n /\ DOMAIN u = 1..(m + n)
    BY <1>1
<1> HIDE DEF m, n, u
<1>3. /\ \A i \in 1..m : u[i] = p[i] /\ i \in 1..(m + n)
      /\ \A i \in 1..n : u[m + i] = q[i] /\ m + i \in 1..(m + n)
  <2>1. \A i \in 1..n : m + i \in 1..(m + n) /\ ~(m + i <= m) /\ (m + i) - m = i
      BY <1>1
  <2>2. \A i \in 1..m : i \in 1..(m + n) /\ i <= m
      BY <1>1
  <2> QED BY <1>1, <2>1, <2>2
<1>4. \A i \in 1..(m + n) : i \in 1..m \/ \E j \in 1..n : i = m + j
  <2> SUFFICES ASSUME NEW i \in 1..(m + n), i \notin 1..m PROVE \E j \in 1..n : i = m + j
      OBVIOUS
  <2>1. i - m \in 1..n /\ i = m + (i - m)
      BY <1>1
  <2> QED BY <2>1
<1>5. ToSet(u) = ToSet(p) \cup ToSet(q)
    BY <1>2, <1>3, <1>4 DEF ToSet
<1> QED BY <1>1, <1>5 DEF u

-----------------------------------------------------------------------------
(* Importing. *)

\* Entries whose parents are older keep the log sound.
LEMMA LogGrows ==
  ASSUME LogOK, NEW new \in Seq(EntrySet), log' = log \o new,
         \A k \in 1..Len(new) : /\ IsEntry(new[k])
                                /\ ToSet(new[k].parents) \subseteq 1..(Len(log) + k - 1)
  PROVE  /\ LogOK'
         /\ Len(log') = Len(log) + Len(new)
         /\ \A i \in 1..Len(log) : log'[i] = log[i]
         /\ \A k \in 1..Len(new) : log'[Len(log) + k] = new[k]
<1>1. log \in Seq(EntrySet) /\ Len(log) \in Nat /\ Len(new) \in Nat
    BY DEF LogOK
<1>2. /\ log' \in Seq(EntrySet)
      /\ Len(log') = Len(log) + Len(new)
      /\ \A i \in 1..Len(log) : log'[i] = log[i]
      /\ \A k \in 1..Len(new) : log'[Len(log) + k] = new[k]
  <2>1. /\ log \o new \in Seq(EntrySet)
        /\ Len(log \o new) = Len(log) + Len(new)
        /\ \A i \in 1..Len(log) + Len(new) :
             (log \o new)[i] = IF i <= Len(log) THEN log[i] ELSE new[i - Len(log)]
      BY <1>1, ConcatProperties
  <2>2. \A k \in 1..Len(new) : /\ Len(log) + k \in 1..Len(log) + Len(new)
                               /\ ~(Len(log) + k <= Len(log)) /\ (Len(log) + k) - Len(log) = k
      BY <1>1
  <2>3. \A i \in 1..Len(log) : i \in 1..Len(log) + Len(new) /\ i <= Len(log)
      BY <1>1
  <2> QED BY <2>1, <2>2, <2>3
<1>3. ASSUME NEW i \in 1..Len(log')
      PROVE  IsEntry(log'[i]) /\ ToSet(log'[i].parents) \subseteq 1..(i - 1)
  <2>1. CASE i \in 1..Len(log)
      BY <1>2, <2>1 DEF LogOK, Parents
  <2>2. CASE i \notin 1..Len(log)
    <3>1. PICK k \in 1..Len(new) : i = Len(log) + k
      <4>1. i - Len(log) \in 1..Len(new) /\ i = Len(log) + (i - Len(log))
          BY <1>1, <1>2, <2>2
      <4> QED BY <4>1
    <3>2. log'[i] = new[k]
        BY <1>2, <3>1
    <3> QED BY <3>1, <3>2
  <2> QED BY <2>1, <2>2
<1>4. LogOK'
    BY <1>2, <1>3 DEF LogOK, Parents, IsEntry, Change, Rename, Delete, Undelete, Merge, Version,
                      EntrySet
<1> QED BY <1>2, <1>4

\* The first entry an import writes follows its last entry and the receiver's tip.
LEMMA FirstParentsAre ==
  ASSUME NEW n \in Nat, NEW d, d.tip \in 1..n \cup {None}, NEW end \in 1..n
  PROVE  /\ FirstParents(d, end) \in Seq(Nat)
         /\ ToSet(FirstParents(d, end)) = {end} \cup ({d.tip} \ {None})
<1> DEFINE tip == d.tip
           rest == IF tip = None THEN <<>> ELSE <<tip>>
           ps == <<end>> \o rest
<1>1. ps = FirstParents(d, end) /\ tip \in 1..n \cup {None}
    BY DEF FirstParents
<1> HIDE DEF tip
<1>2. <<end>> \in Seq(Nat) /\ Len(<<end>>) = 1 /\ <<end>>[1] = end
    OBVIOUS
<1>3. CASE tip = None
  <2>1. ps = <<end>>
      BY <1>2, <1>3
  <2>2. ToSet(ps) = {end}
      BY <2>1 DEF ToSet
  <2> QED BY <1>1, <1>2, <1>3, <2>1, <2>2 DEF tip
<1>4. CASE tip # None
  <2>1. rest \in Seq(Nat) /\ Len(rest) = 1 /\ rest[1] = tip
      BY <1>1, <1>4
  <2> HIDE DEF rest
  <2>2. /\ ps \in Seq(Nat) /\ Len(ps) = 2
        /\ \A k \in 1..2 : ps[k] = IF k <= 1 THEN <<end>>[k] ELSE rest[k - 1]
    <3> DEFINE e == <<end>>
    <3>1. e \in Seq(Nat) /\ Len(e) = 1
        BY <1>2
    <3> HIDE DEF e
    <3>a. /\ e \o rest \in Seq(Nat) /\ Len(e \o rest) = Len(e) + Len(rest)
          /\ \A k \in 1 .. Len(e) + Len(rest) :
               (e \o rest)[k] = IF k <= Len(e) THEN e[k] ELSE rest[k - Len(e)]
        BY <2>1, <3>1, ConcatProperties
    <3>2. /\ e \o rest \in Seq(Nat) /\ Len(e \o rest) = 2
          /\ \A k \in 1..2 : (e \o rest)[k] = IF k <= 1 THEN e[k] ELSE rest[k - 1]
        BY <2>1, <3>1, <3>a
    <3> QED BY <3>2 DEF e
  <2>3. ps[1] = end /\ ps[2] = tip
      BY <1>2, <2>1, <2>2
  <2> HIDE DEF ps
  <2>4. ToSet(ps) = {end, tip}
      BY <2>2, <2>3 DEF ToSet
  <2> QED BY <1>1, <1>4, <2>2, <2>4 DEF tip
<1> QED BY <1>3, <1>4

\* What a change says is the text of an entry.
LEMMA ChangeTyped ==
  ASSUME NEW c \in Change
  PROVE  c.type \in {"rename", "terminate", "merge"} /\ c.operand \in Names \cup Version \cup {None}
<1>1. CASE c \in {Rename(name) : name \in Names}
  <2>1. PICK name \in Names : c = Rename(name)
      BY <1>1
  <2>2. c.type = "rename" /\ c.operand = name
      BY <2>1 DEF Rename
  <2> QED BY <2>2
<1>2. CASE c \in {Delete(v) : v \in Version}
  <2>1. PICK v \in Version : c = Delete(v)
      BY <1>2
  <2>2. c.type = "terminate" /\ c.operand = v
      BY <2>1 DEF Delete
  <2> QED BY <2>2
<1>3. CASE c = Undelete
    BY <1>3 DEF Undelete
<1>4. CASE c = Merge
    BY <1>4 DEF Merge
<1> QED BY <1>1, <1>2, <1>3, <1>4 DEF Change

\* The entries new may be appended to the log: the first follows the entry end and
\* the tip, each of the others the one before it.
Appended(new, end, tip) ==
  /\ new \in Seq(EntrySet)
  /\ \A k \in 1..Len(new) :
       /\ IsEntry(new[k])
       /\ k = 1 => ToSet(new[k].parents) = {end} \cup ({tip} \ {None})
       /\ k # 1 => ToSet(new[k].parents) = {Len(log) + k - 1}
       /\ ToSet(new[k].parents) \subseteq 1..(Len(log) + k - 1)

\* The entries an import writes follow its last entry, the receiver's tip, and each other.
LEMMA AdditionsAre ==
  ASSUME Len(log) \in Nat, NEW d, d.tip \in 1..Len(log) \cup {None},
         NEW w, w.conflicts \in Seq(Change), w.end \in 1..Len(log), NEW entries,
         NEW new, new = Additions(d, w, entries)
  PROVE  /\ Appended(new, w.end, d.tip)
         /\ Len(new) = 0 => ~Diverged(d, entries)
<1> DEFINE L == Len(log)
           es == IF w.conflicts # <<>> THEN w.conflicts
                 ELSE IF Diverged(d, entries) THEN <<Merge>> ELSE <<>>
           ps(k) == IF k = 1 THEN FirstParents(d, w.end) ELSE <<L + k - 1>>
           above(k) == IF k = 1 THEN {w.end} \cup ({d.tip} \ {None}) ELSE {L + k - 1}
<1>1. es \in Seq(Change) /\ (Len(es) = 0 => ~Diverged(d, entries))
  <2>1. <<>> \in Seq(Change) /\ <<Merge>> \in Seq(Change) /\ Len(<<Merge>>) = 1
      BY Changes
  <2>2. w.conflicts # <<>> => Len(w.conflicts) # 0
      OBVIOUS
  <2> QED BY <2>1, <2>2
<1>2. new = [k \in 1..Len(es) |-> Entry(es[k], ps(k))]
    BY DEF Additions
<1> HIDE DEF es
<1>3. ASSUME NEW k \in Nat, k > 0
      PROVE  ps(k) \in Seq(Nat) /\ ToSet(ps(k)) = above(k) /\ above(k) \subseteq 1..(L + k - 1)
  <2>1. CASE k # 1
    <3> DEFINE p == L + k - 1
    <3>1. p \in Nat /\ p >= 1
        BY <1>3, <2>1
    <3>2. ps(k) = <<p>> /\ above(k) = {p}
        BY <2>1
    <3> HIDE DEF p
    <3>3. <<p>> \in Seq(Nat) /\ ToSet(<<p>>) = {p} /\ {p} \subseteq 1..p
        BY <3>1 DEF ToSet
    <3> QED BY <3>2, <3>3 DEF p
  <2>2. CASE k = 1
    <3>1. ps(k) = FirstParents(d, w.end) /\ L + k - 1 = L
        BY <2>2
    <3>2. above(k) = {w.end} \cup ({d.tip} \ {None})
        BY <2>2
    <3> HIDE DEF ps, above
    <3> QED BY <3>1, <3>2, FirstParentsAre
  <2> QED BY <2>1, <2>2
<1> HIDE DEF ps, above
<1>4. ASSUME NEW k \in 1..Len(es)
      PROVE  /\ Entry(es[k], ps(k)) \in EntrySet /\ IsEntry(Entry(es[k], ps(k)))
             /\ Entry(es[k], ps(k)).parents = ps(k)
  <2>1. es[k] \in Change /\ ps(k) \in Seq(Nat)
      BY <1>1, <1>3
  <2>2. /\ es[k].type \in {"rename", "terminate", "merge"}
        /\ es[k].operand \in Names \cup Version \cup {None}
      BY <2>1, ChangeTyped
  <2> QED BY <2>1, <2>2 DEF Entry, EntrySet, IsEntry
<1>5. new \in Seq(EntrySet) /\ Len(new) = Len(es) /\ Len(es) \in Nat
    BY <1>1, <1>2, <1>4
<1>6. ASSUME NEW k \in 1..Len(new)
      PROVE  /\ IsEntry(new[k]) /\ ToSet(new[k].parents) = above(k)
             /\ above(k) \subseteq 1..(L + k - 1)
  <2>1. new[k] = Entry(es[k], ps(k)) /\ k \in 1..Len(es) /\ k \in Nat /\ k > 0
      BY <1>2, <1>5
  <2> QED BY <1>3, <1>4, <2>1
<1>7. \A k \in 1..Len(new) :
        above(k) = IF k = 1 THEN {w.end} \cup ({d.tip} \ {None}) ELSE {L + k - 1}
    BY DEF above
<1> QED BY <1>1, <1>5, <1>6, <1>7 DEF Appended

\* A set of entries that has their parents has all they follow.
LEMMA ClosedFollowed ==
  LogOK /\ Len(log) <= MaxEntries =>
    \A J \in SUBSET (1..Len(log)) :
      (\A i \in J : Parents(i) \subseteq J) => \A i \in J : Followed(i) \subseteq J
<1> SUFFICES ASSUME LogOK, Len(log) <= MaxEntries, NEW J \in SUBSET (1..Len(log)),
                    \A i \in J : Parents(i) \subseteq J
             PROVE  \A i \in J : Followed(i) \subseteq J
    OBVIOUS
<1> DEFINE n == Len(log)
           G == {i \in 1..n : i \in J => Followed(i) \subseteq J}
<1>1. n \in Nat /\ \A i \in 1..n : Parents(i) \subseteq 1..(i - 1)
    BY DEF LogOK
<1>2. \A i \in 1..n : Followed(i) = {i} \cup UNION {Followed(j) : j \in Parents(i)}
    BY FollowedFacts
<1> HIDE DEF n
<1>3. ASSUME NEW m \in 1..n, 1..(m - 1) \subseteq G, m \in J PROVE Followed(m) \subseteq J
  <2>1. \A j \in Parents(m) : Followed(j) \subseteq J
      BY <1>1, <1>3
  <2>2. Followed(m) = {m} \cup UNION {Followed(j) : j \in Parents(m)}
      BY <1>2
  <2> QED BY <1>3, <2>1, <2>2
<1>4. 1..n \subseteq G
  <2>1. \A m \in 1..n : 1..(m - 1) \subseteq G => m \in G
      BY <1>3
  <2> HIDE DEF G
  <2> QED BY <1>1, <2>1, FromBelow
<1> QED BY <1>4 DEF n

\* What the import's loop keeps of the database d, when the entries E it goes
\* over follow the entry f: the journal has with an entry its parents, and once
\* f is accepted nothing is left to come after it.
Walk(x, d, f, E) ==
  /\ x.d.tip = d.tip
  /\ d.journal \subseteq x.d.journal /\ x.d.journal \subseteq d.journal \cup E
  /\ \A i \in x.d.journal : Parents(i) \subseteq x.d.journal
  /\ f \in x.d.journal => f \in d.journal \/ x.end = f

\* One entry.
LEMMA AcceptWalks ==
  ASSUME LogOK, Len(log) <= MaxEntries,
         NEW d, d.journal \subseteq 1..Len(log),
         NEW E \in SUBSET (1..Len(log)), NEW f \in 1..Len(log), E \subseteq Followed(f),
         NEW w \in WorkSet, Walk(w, d, f, E), NEW i \in E, NEW known \in Version, NEW choice
  PROVE  /\ Accept(w, i, known, choice) \in WorkSet
         /\ Walk(Accept(w, i, known, choice), d, f, E)
<1> DEFINE x == Accept(w, i, known, choice)
<1>1. i \in 1..MaxEntries /\ i \in 1..Len(log) /\ IsEntry(log[i])
    BY Constants DEF LogOK
<1>2. /\ x \in WorkSet /\ x.d.tip = w.d.tip
      /\ \/ x = w
         \/ /\ i \notin w.d.journal /\ Parents(i) \subseteq w.d.journal
            /\ x.d.journal = w.d.journal \cup {i} /\ x.end = i
    BY <1>1, AcceptTyped
<1> HIDE DEF x
<1>3. CASE x = w
    BY <1>2, <1>3 DEF x
<1>4. CASE /\ i \notin w.d.journal /\ Parents(i) \subseteq w.d.journal
           /\ x.d.journal = w.d.journal \cup {i} /\ x.end = i
  <2>1. \A j \in x.d.journal : Parents(j) \subseteq x.d.journal
      BY <1>4 DEF Walk
  <2>2. f \in w.d.journal => i \in w.d.journal
    <3> SUFFICES ASSUME f \in w.d.journal PROVE i \in w.d.journal
        OBVIOUS
    <3>1. /\ w.d.journal \in SUBSET (1..Len(log))
          /\ \A j \in w.d.journal : Parents(j) \subseteq w.d.journal
        BY DEF Walk
    <3>2. Followed(f) \subseteq w.d.journal
        BY <3>1, ClosedFollowed
    <3> QED BY <3>2
  <2>3. f \in x.d.journal => x.end = f
      BY <1>4, <2>2
  <2>4. x.d.tip = d.tip /\ d.journal \subseteq x.d.journal /\ x.d.journal \subseteq d.journal \cup E
      BY <1>2, <1>4 DEF Walk
  <2>5. Walk(x, d, f, E)
      BY <2>1, <2>3, <2>4 DEF Walk
  <2> QED BY <1>2, <2>5 DEF x
<1> QED BY <1>2, <1>3, <1>4

\* What a receiver d may be sent: it has all its tip follows, and the entries are
\* some that f follows, f being one of them or one that d has.
Receives(d, entries, f) ==
  /\ d \in Database /\ d.journal \subseteq 1..Len(log)
  /\ d.tip \in 1..Len(log) \cup {None} /\ d.journal = Followed(d.tip)
  /\ entries \in Seq(1..Len(log)) /\ entries # <<>>
  /\ f \in 1..Len(log) /\ ToSet(entries) \subseteq Followed(f)
  /\ f \in ToSet(entries) \cup d.journal

\* The loop over the received entries, when it is done: they are new, f is one
\* of them and the last, and the journal has all that f follows.
LEMMA AllAccepted ==
  ASSUME LogOK, Len(log) <= MaxEntries,
         NEW d, NEW entries, NEW f, Receives(d, entries, f),
         NEW known \in Version, NEW choice,
         NEW w, w = AcceptAll(d, entries, known, choice), w.ok
  PROVE  /\ w \in WorkSet /\ w.end = f /\ w.d.tip = d.tip
         /\ w.d.journal = d.journal \cup Followed(f)
         /\ ToSet(entries) \subseteq w.d.journal
<1>0. /\ d \in Database /\ d.journal \subseteq 1..Len(log)
      /\ d.tip \in 1..Len(log) \cup {None} /\ d.journal = Followed(d.tip)
      /\ entries \in Seq(1..Len(log)) /\ entries # <<>>
      /\ f \in 1..Len(log) /\ ToSet(entries) \subseteq Followed(f)
      /\ f \in ToSet(entries) \cup d.journal
    BY DEF Receives
<1>a. \A i \in d.journal : Parents(i) \subseteq d.journal
  <2>1. CASE d.tip = None
      BY <1>0, <2>1 DEF Followed
  <2>2. CASE d.tip # None
      BY <1>0, <2>2, FollowedFacts
  <2> QED BY <2>1, <2>2
<1> USE <1>0, <1>a
<1> DEFINE E == ToSet(entries)
           S == {x \in WorkSet : Walk(x, d, f, E)}
<1>1. E \in SUBSET (1..Len(log)) /\ E # {}
    BY SequenceElements
<1>2. Work(d) \in S
  <2>1. <<>> \in Seq(Change)
      OBVIOUS
  <2>2. Work(d) \in WorkSet /\ Work(d).d = d
      BY <2>1 DEF Work, WorkSet, Database
  <2> HIDE DEF E
  <2>3. Walk(Work(d), d, f, E)
      BY <2>2 DEF Walk
  <2> QED BY <2>2, <2>3
<1>3. \A x \in S : \A i \in E : Accept(x, i, known, choice) \in S
  <2> HIDE DEF E
  <2> QED BY <1>1, AcceptWalks DEF E
<1>4. PICK x \in S : w = [x EXCEPT !.ok = /\ x.ok
                                          /\ ToSet(entries) \cap d.journal = {}
                                          /\ ToSet(entries) \subseteq x.d.journal]
  <2> HIDE DEF S
  <2>1. \E x \in S : AcceptAll(d, entries, known, choice) =
           [x EXCEPT !.ok = /\ x.ok
                            /\ ToSet(entries) \cap d.journal = {}
                            /\ ToSet(entries) \subseteq x.d.journal]
      BY <1>2, <1>3, AcceptAllKeeps DEF E
  <2> QED BY <2>1
<1> HIDE DEF E
<1>5. x \in WorkSet /\ Walk(x, d, f, E)
    OBVIOUS
<1> HIDE DEF S
<1> DEFINE good == x.ok /\ E \cap d.journal = {} /\ E \subseteq x.d.journal
<1>6. w = [x EXCEPT !.ok = good]
    BY <1>4 DEF E
<1>7. good \in BOOLEAN
    BY <1>5 DEF WorkSet
<1> HIDE DEF good
<1>8. w \in WorkSet /\ w.d = x.d /\ w.end = x.end /\ w.ok = good
    BY <1>5, <1>6, <1>7 DEF WorkSet
<1>9. E \cap d.journal = {} /\ E \subseteq x.d.journal
    BY <1>8 DEF good
<1>10. f \notin d.journal
  <2> SUFFICES ASSUME f \in d.journal PROVE FALSE
      OBVIOUS
  <2>1. Followed(f) \subseteq d.journal
      BY ClosedFollowed
  <2> QED BY <1>1, <1>9, <2>1 DEF E
<1>11. f \in x.d.journal /\ x.end = f /\ x.d.tip = d.tip /\ d.journal \subseteq x.d.journal
       /\ x.d.journal \subseteq d.journal \cup E
    BY <1>5, <1>9, <1>10 DEF Walk, E
<1>12. Followed(f) \subseteq x.d.journal
  <2>1. /\ x.d.journal \in SUBSET (1..Len(log))
        /\ \A i \in x.d.journal : Parents(i) \subseteq x.d.journal
      BY <1>1, <1>5, <1>11 DEF Walk
  <2> QED BY <1>11, <2>1, ClosedFollowed
<1>13. x.d.journal = d.journal \cup Followed(f)
    BY <1>11, <1>12 DEF E
<1> QED BY <1>8, <1>9, <1>11, <1>13 DEF E


\* The log has grown by the entries new.
Grown(new) == log' = log \o new

\* The last entry an import writes follows all the import wrote, all its last
\* received entry f follows, and all the receiver's tip follows.
LEMMA AddedFollow ==
  ASSUME LogOK, NEW new, NEW f \in 1..Len(log), NEW tip \in 1..Len(log) \cup {None},
         Appended(new, f, tip), Len(new) # 0,
         Grown(new), Len(log) + Len(new) <= MaxEntries,
         NEW i, i = Len(log) + Len(new)
  PROVE  Followed(i)' = (Len(log) + 1 .. i) \cup Followed(f) \cup Followed(tip)
<1>a. /\ LogOK' /\ Len(log') = Len(log) + Len(new)
      /\ \A j \in 1..Len(log) : log'[j] = log[j]
      /\ \A k \in 1..Len(new) : log'[Len(log) + k] = new[k]
    BY LogGrows DEF Appended, Grown
<1>b. Len(log) \in Nat /\ Len(new) \in Nat
    BY DEF LogOK, Appended
<1>c. PICK L \in Nat, n \in Nat : L = Len(log) /\ n = Len(new)
    BY <1>b
<1>d. /\ n > 0 /\ Len(log') = L + n /\ L + n <= MaxEntries /\ f \in 1..L /\ tip \in 1..L \cup {None}
      /\ \A j \in 1..L : log'[j] = log[j]
    BY <1>a, <1>c
<1>e. \A k \in 1..n :
        /\ k = 1 => ToSet(log'[L + k].parents) = {f} \cup ({tip} \ {None})
        /\ k # 1 => ToSet(log'[L + k].parents) = {L + k - 1}
  <2> SUFFICES ASSUME NEW k \in 1..n
               PROVE  /\ k = 1 => ToSet(log'[L + k].parents) = {f} \cup ({tip} \ {None})
                      /\ k # 1 => ToSet(log'[L + k].parents) = {L + k - 1}
      OBVIOUS
  <2>1. log'[L + k] = new[k] /\ k \in 1..Len(new)
      BY <1>a, <1>c
  <2> QED BY <1>c, <2>1 DEF Appended
<1> DEFINE old == Followed(f) \cup Followed(tip)
           F(h) == Followed(h)'
           Q(h) == Parents(h)'
           G == {k \in 1..n : F(L + k) = (L + 1 .. L + k) \cup old}
<1>1. L \in Nat /\ n \in Nat /\ Len(log') = L + n
    BY <1>d
<1>2. \A h \in 1..(L + n) : F(h) = {h} \cup UNION {F(j) : j \in Q(h)}
    BY <1>a, <1>1, <1>d, FollowedFactsNext
<1>3. \A h \in 1..L \cup {None} : F(h) = Followed(h)
  <2>1. Len(log) <= Len(log') /\ Len(log') <= MaxEntries
      BY <1>c, <1>d
  <2>2. \A h \in 1..Len(log) \cup {None} : F(h) = Followed(h)
      BY <1>a, <2>1, FollowedStays
  <2> QED BY <1>c, <2>2
<1>4. \A k \in 1..n : Q(L + k) = IF k = 1 THEN {f} \cup ({tip} \ {None}) ELSE {L + k - 1}
    BY <1>e DEF Parents
<1> HIDE DEF F, Q
<1>5. Followed(None) = {}
    BY DEF Followed
<1>6. f \in 1..L /\ tip \in 1..L \cup {None}
    BY <1>d
<1>7. ASSUME NEW m \in 1..n, 1..(m - 1) \subseteq G PROVE F(L + m) = (L + 1 .. L + m) \cup old
  <2>1. F(L + m) = {L + m} \cup UNION {F(j) : j \in Q(L + m)}
    <3>1. L + m \in 1..(L + n)
        BY <1>1
    <3> QED BY <1>2, <3>1
  <2>2. CASE m = 1
    <3>1. Q(L + m) = {f} \cup ({tip} \ {None})
        BY <1>4, <2>2
    <3>2. UNION {F(j) : j \in Q(L + m)} = old
      <4>1. CASE tip = None
        <5>1. Q(L + m) = {f}
            BY <3>1, <4>1
        <5>2. old = Followed(f) /\ F(f) = Followed(f)
            BY <1>3, <1>5, <1>6, <4>1
        <5> HIDE DEF old
        <5> QED BY <5>1, <5>2
      <4>2. CASE tip # None
        <5>1. Q(L + m) = {f, tip}
            BY <3>1, <4>2
        <5>2. old = F(f) \cup F(tip)
            BY <1>3, <1>6
        <5> HIDE DEF old
        <5> QED BY <5>1, <5>2
      <4> QED BY <4>1, <4>2
    <3>3. {L + m} = L + 1 .. L + m
        BY <1>1, <2>2
    <3> HIDE DEF old
    <3> QED BY <2>1, <3>2, <3>3
  <2>3. CASE m # 1
    <3> DEFINE p == m - 1
    <3>1. p \in 1..n /\ p \in 1..(m - 1) /\ L + m - 1 = L + p
        BY <1>1, <2>3
    <3> HIDE DEF p
    <3>2. F(L + p) = (L + 1 .. L + p) \cup old
        BY <1>7, <3>1
    <3>3. Q(L + m) = {L + p}
        BY <1>4, <2>3, <3>1
    <3>4. F(L + m) = {L + m} \cup F(L + p)
      <4> HIDE DEF p
      <4> QED BY <2>1, <3>3
    <3>5. {L + m} \cup (L + 1 .. L + p) = L + 1 .. L + m
      <4>1. L + m - 1 = L + p /\ m \in Nat /\ m > 0 /\ p \in Nat
          BY <1>1, <3>1
      <4>2. \A h : h = L + m \/ h \in L + 1 .. L + p <=> h \in L + 1 .. L + m
          BY <1>1, <4>1
      <4> QED BY <4>2
    <3> HIDE DEF old
    <3> QED BY <3>2, <3>4, <3>5
  <2> QED BY <2>2, <2>3
<1>8. 1..n \subseteq G
  <2>1. \A m \in 1..n : 1..(m - 1) \subseteq G => m \in G
      BY <1>7
  <2> HIDE DEF G
  <2> QED BY <2>1, FromBelow
<1>9. F(L + n) = (L + 1 .. L + n) \cup old
  <2>1. n \in 1..n
      BY <1>d
  <2> QED BY <1>8, <2>1
<1>10. i = L + n
    BY <1>c
<1> QED BY <1>c, <1>9, <1>10 DEF F

\* The entries an import writes say what a journal can say.
LEMMA AdditionsSay ==
  ASSUME NEW d, NEW w, w.conflicts \in Seq(Change), NEW entries,
         NEW new, new = Additions(d, w, entries)
  PROVE  \E N : new \in Seq(N) /\ \A k \in 1..Len(new) : IsEntry(new[k])
<1> DEFINE es == IF w.conflicts # <<>> THEN w.conflicts
                 ELSE IF Diverged(d, entries) THEN <<Merge>> ELSE <<>>
           ps(k) == IF k = 1 THEN FirstParents(d, w.end) ELSE <<Len(log) + k - 1>>
           N == {Entry(es[k], ps(k)) : k \in 1..Len(es)}
<1>1. es \in Seq(Change)
  <2>1. <<>> \in Seq(Change) /\ <<Merge>> \in Seq(Change)
      BY Changes
  <2> QED BY <2>1
<1>2. new = [k \in 1..Len(es) |-> Entry(es[k], ps(k))]
    BY DEF Additions
<1> HIDE DEF es, ps
<1>3. Len(es) \in Nat /\ new \in [1..Len(es) -> N]
    BY <1>1, <1>2
<1>4. new \in Seq(N) /\ Len(new) = Len(es)
    BY <1>3
<1>5. \A k \in 1..Len(new) : IsEntry(new[k])
  <2> SUFFICES ASSUME NEW k \in 1..Len(new) PROVE IsEntry(new[k])
      OBVIOUS
  <2>1. new[k] = Entry(es[k], ps(k)) /\ es[k] \in Change
      BY <1>1, <1>2, <1>4
  <2> QED BY <2>1 DEF Entry, IsEntry
<1> QED BY <1>4, <1>5

\* The loop keeps types, whatever was received.
LEMMA AcceptAllTyped ==
  ASSUME LogOK, Len(log) <= MaxEntries, NEW d \in Database,
         NEW entries \in Seq(1..Len(log)), NEW known \in Version, NEW choice
  PROVE  AcceptAll(d, entries, known, choice) \in WorkSet
<1> DEFINE E == ToSet(entries)
           good(y) == y.ok /\ E \cap d.journal = {} /\ E \subseteq y.d.journal
<1>1. E \subseteq 1..Len(log) /\ Len(log) \in Nat
    BY DEF ToSet, LogOK
<1>2. Work(d) \in WorkSet
  <2>1. <<>> \in Seq(Change)
      OBVIOUS
  <2> QED BY <2>1 DEF Work, WorkSet, Database
<1>3. \A y \in WorkSet : \A i \in E : Accept(y, i, known, choice) \in WorkSet
  <2> SUFFICES ASSUME NEW y \in WorkSet, NEW i \in E
               PROVE  Accept(y, i, known, choice) \in WorkSet
      OBVIOUS
  <2>1. i \in 1..MaxEntries /\ IsEntry(log[i])
      BY <1>1, Constants DEF LogOK
  <2> QED BY <2>1, AcceptTyped
<1>4. PICK y \in WorkSet : AcceptAll(d, entries, known, choice) = [y EXCEPT !.ok = good(y)]
  <2>1. \E y \in WorkSet : AcceptAll(d, entries, known, choice) =
          [y EXCEPT !.ok = /\ y.ok
                           /\ ToSet(entries) \cap d.journal = {}
                           /\ ToSet(entries) \subseteq y.d.journal]
      BY <1>2, <1>3, AcceptAllKeeps
  <2> QED BY <2>1
<1>5. good(y) \in BOOLEAN
    BY DEF WorkSet
<1> HIDE DEF good
<1> QED BY <1>4, <1>5 DEF WorkSet

\* The import of the entries into the database d was accepted with the outcome o.
Imported(o, d, entries) ==
  /\ LogOK' /\ Len(log') = Len(log) + Len(o.new) /\ Len(o.new) \in Nat
  /\ \A i \in 1..Len(log) : log'[i] = log[i]
  /\ o.d \in Database
  /\ o.d.tip \in 1..Len(log')
  /\ \A i : i = o.d.tip => o.d.journal = Followed(i)'
  /\ d.journal \subseteq o.d.journal /\ ToSet(entries) \subseteq o.d.journal

\* An import that is accepted leaves a sound log, and a journal that is its tip
\* and all the tip follows; what was received is in it.  The entry f is where
\* the sender started: all that is received follows it.
LEMMA ImportKeeps ==
  ASSUME LogOK, Len(log) <= MaxEntries,
         NEW d, NEW entries, NEW f, Receives(d, entries, f),
         NEW known \in Version, NEW choice,
         NEW o, o = ImportJournal(d, entries, known, choice), o.ok,
         log' = log \o o.new, Len(log) + Len(o.new) <= MaxEntries
  PROVE  Imported(o, d, entries)
<1>0. /\ d \in Database /\ d.journal \subseteq 1..Len(log)
      /\ d.tip \in 1..Len(log) \cup {None} /\ d.journal = Followed(d.tip)
      /\ entries \in Seq(1..Len(log)) /\ entries # <<>>
      /\ f \in 1..Len(log) /\ ToSet(entries) \subseteq Followed(f)
    BY DEF Receives
<1> USE <1>0
<1> DEFINE w == AcceptAll(d, entries, known, choice)
           new == Additions(d, w, entries)
           x == AddEntries(w, new, known)
           L == Len(log)
           n == Len(new)
<1>1. o.new = new /\ o.d = [x.d EXCEPT !.tip = x.end] /\ x.ok
  <2>1. o = [new |-> new, d |-> [x.d EXCEPT !.tip = x.end], ok |-> x.ok]
      BY DEF ImportJournal
  <2> HIDE DEF x, new
  <2> QED BY <2>1
<1>2. w \in WorkSet /\ w.conflicts \in Seq(Change) /\ L \in Nat
    BY AcceptAllTyped DEF WorkSet, LogOK
<1> HIDE DEF w
<1>4. /\ x \in WorkSet
      /\ x.d.journal = w.d.journal \cup (L + 1 .. L + n)
      /\ x.end = IF n = 0 THEN w.end ELSE L + n
      /\ x.ok => w.ok
      /\ n \in Nat
  <2>1. PICK N : new \in Seq(N) /\ \A k \in 1..Len(new) : IsEntry(new[k])
      BY <1>2, AdditionsSay
  <2> HIDE DEF new
  <2>2. L + Len(new) <= MaxEntries
      BY <1>1
  <2> QED BY <1>2, <2>1, <2>2, AddEntriesAdd
<1> HIDE DEF x
<1>5. /\ w.end = f /\ w.d.tip = d.tip
      /\ w.d.journal = d.journal \cup Followed(f)
      /\ ToSet(entries) \subseteq w.d.journal
  <2>1. w = AcceptAll(d, entries, known, choice) /\ w.ok
      BY <1>1, <1>4 DEF w
  <2> QED BY <2>1, AllAccepted
<1>6. Appended(new, f, d.tip) /\ (n = 0 => ~Diverged(d, entries))
  <2>1. w.end = f /\ w.end \in 1..L
      BY <1>5
  <2>2. Appended(new, w.end, d.tip) /\ (Len(new) = 0 => ~Diverged(d, entries))
    <3>1. new = Additions(d, w, entries)
        OBVIOUS
    <3> HIDE DEF new
    <3> QED BY <1>2, <2>1, <3>1, AdditionsAre
  <2> HIDE DEF new
  <2> QED BY <2>1, <2>2
<1> HIDE DEF new
<1>7. /\ LogOK' /\ Len(log') = L + n
      /\ \A i \in 1..L : log'[i] = log[i]
    BY <1>1, <1>6, LogGrows DEF Appended
<1> HIDE DEF n
<1> DEFINE e == x.end
<1>8. e \in 1..(L + n)
    BY <1>2, <1>4, <1>5
<1>9. o.d \in Database /\ o.d.tip = e /\ o.d.journal = x.d.journal
  <2>1. e \in 1..MaxEntries /\ x.d \in Database
    <3>1. L + n <= MaxEntries
        BY <1>1 DEF n
    <3> QED BY <1>2, <1>4, <1>8, <3>1, Constants DEF WorkSet
  <2>2. o.d = [x.d EXCEPT !.tip = e]
      BY <1>1
  <2> HIDE DEF e
  <2> QED BY <2>1, <2>2 DEF Database
<1>10. Followed(None) = {}
    BY DEF Followed
<1>11. Len(log') <= MaxEntries /\ L <= Len(log')
    BY <1>1, <1>2, <1>4, <1>7 DEF n
<1>12. \A i : i = e => x.d.journal = Followed(i)'
  <2>1. CASE n = 0
    <3>1. e = f /\ x.d.journal = d.journal \cup Followed(f)
      <4>1. (L + 1 .. L + n) = {}
          BY <1>2, <2>1
      <4> QED BY <1>4, <1>5, <2>1, <4>1
    <3>2. d.journal \subseteq Followed(f)
      <4>1. CASE d.tip = None
          BY <1>10, <4>1
      <4>2. CASE d.tip # None
        <5>1. PICK i \in ToSet(entries) : d.tip \in Parents(i)
            BY <1>6, <2>1, <4>2 DEF Diverged
        <5>2. d.tip \in Followed(f)
            BY <5>1, FollowedFacts
        <5> QED BY <5>2, FollowedFacts
      <4> QED BY <4>1, <4>2
    <3>3. \A i : i = f => Followed(i)' = Followed(f)
        BY <1>7, <1>11, FollowedStays
    <3> QED BY <3>1, <3>2, <3>3
  <2>2. CASE n # 0
    <3>1. e = L + n
        BY <1>4, <2>2
    <3>2. \A i : i = L + n => Followed(i)' = (L + 1 .. i) \cup Followed(f) \cup Followed(d.tip)
      <4> SUFFICES ASSUME NEW i, i = L + n
                   PROVE  Followed(i)' = (L + 1 .. i) \cup Followed(f) \cup Followed(d.tip)
          OBVIOUS
      <4>1. Len(new) # 0 /\ Grown(new) /\ Len(log) + Len(new) <= MaxEntries
          BY <1>1, <2>2 DEF n, Grown
      <4>2. i = Len(log) + Len(new)
          BY DEF n
      <4>3. PICK N, t : N = new /\ t = d.tip
          OBVIOUS
      <4>4. /\ Appended(N, f, t) /\ Len(N) # 0 /\ Grown(N) /\ Len(log) + Len(N) <= MaxEntries
            /\ i = Len(log) + Len(N) /\ f \in 1..Len(log) /\ t \in 1..Len(log) \cup {None}
          BY <1>6, <4>1, <4>2, <4>3
      <4> HIDE <1>0
      <4>5. Followed(i)' = (Len(log) + 1 .. i) \cup Followed(f) \cup Followed(t)
          BY <4>4, AddedFollow
      <4> QED BY <4>3, <4>5
    <3>3. \A i : i = e => Followed(i)' = (L + 1 .. L + n) \cup Followed(f) \cup Followed(d.tip)
      <4> HIDE DEF e, L
      <4> QED BY <3>1, <3>2
    <3>4. x.d.journal = d.journal \cup Followed(f) \cup (L + 1 .. L + n)
        BY <1>4, <1>5
    <3> QED BY <3>3, <3>4
  <2> QED BY <2>1, <2>2
<1>13. d.journal \subseteq o.d.journal /\ ToSet(entries) \subseteq o.d.journal
    BY <1>4, <1>5, <1>9
<1>14. Len(o.new) = n /\ n \in Nat
    BY <1>1, <1>4 DEF n
<1> QED BY <1>7, <1>8, <1>9, <1>12, <1>13, <1>14 DEF Imported


-----------------------------------------------------------------------------
(* The invariant. *)

\* What a connection has exchanged: what was checked was received or is in the
\* receiver's journal; the parents of what was received are checked, or still to
\* come; all that is to come follows the tip the sender started at.  Where a
\* received entry has reached the receiver's journal by another way, or was
\* imported before over the same connection, the import will refuse.
SessionOK(s) ==
  /\ checked[s] \subseteq ToSet(received[s]) \cup db[Target(s)].journal
  /\ ToSet(received[s]) \subseteq checked[s]
  /\ \A i \in ToSet(received[s]) : Parents(i) \subseteq checked[s] \cup ToSet(stack[s])
  /\ from[s] = None \/ from[s] \in checked[s] \cup ToSet(stack[s])
  /\ ToSet(stack[s]) \subseteq Followed(from[s])
  /\ \/ ToSet(received[s]) \cap db[Target(s)].journal # {}
     \/ ToSet(received[s]) \subseteq Followed(from[s])
  /\ pc[s] \in {"import", "imported"} => stack[s] = <<>>
  /\ pc[s] = "imported" => ToSet(received[s]) \subseteq db[Target(s)].journal
  /\ pc[s] = "idle" => stack[s] = <<>> /\ checked[s] = {} /\ received[s] = <<>> /\ from[s] = None

\* Journals have entries of the log.
Journals ==
  \A r \in Replicas : /\ db[r].journal \subseteq 1..Len(log)
                      /\ db[r].tip \in 1..Len(log) \cup {None}

\* The inductive invariant.
IInv ==
  /\ TypeOK
  /\ LogOK
  /\ Journals
  /\ TipIsLast
  /\ \A s \in Sessions : SessionOK(s)

\* The log and the journals grow, and the entries of the log stay as they are.
Grows ==
  /\ LogOK'
  /\ Len(log) <= Len(log') /\ Len(log') <= MaxEntries
  /\ \A i \in 1..Len(log) : log'[i] = log[i]
  /\ \A r \in Replicas : db[r].journal \subseteq db'[r].journal

\* Session s does nothing.
Waits(s) ==
  /\ pc'[s] = pc[s] /\ push'[s] = push[s] /\ from'[s] = from[s] /\ stack'[s] = stack[s]
  /\ checked'[s] = checked[s] /\ received'[s] = received[s] /\ upto'[s] = upto[s]

\* The two ends of a connection are repositories.
LEMMA Ends ==
  TypeOK => \A s \in Sessions : Source(s) \in Replicas /\ Target(s) \in Replicas
  BY JournalAssumption DEF TypeOK, Source, Target, Replicas

\* What others do is nothing to a connection that waits.
LEMMA OthersUndisturbed ==
  ASSUME IInv, Grows, NEW s \in Sessions, Waits(s)
  PROVE  SessionOK(s)'
<1>1. /\ received[s] \in Seq(1..Len(log)) /\ from[s] \in (1..Len(log)) \cup {None}
      /\ SessionOK(s) /\ LogOK
    BY DEF IInv, TypeOK
<1>2. ToSet(received[s]) \subseteq 1..Len(log)
    BY <1>1, SequenceElements
<1>3. \A i \in ToSet(received[s]) : Parents(i)' = Parents(i)
    BY <1>2 DEF Grows, Parents
<1>4. Followed(from[s])' = Followed(from[s])
  <2>1. \A i \in 1..Len(log) \cup {None} : Followed(i)' = Followed(i)
      BY <1>1, FollowedStays DEF Grows
  <2>2. \A i : i = from[s] => Followed(i)' = Followed(i)
      BY <1>1, <2>1
  <2>3. from'[s] = from[s]
      BY DEF Waits
  <2> QED BY <2>2, <2>3 DEF Followed
<1>5. Target(s)' = Target(s) /\ Target(s) \in Replicas
    BY Ends DEF Waits, Target, IInv
<1>6. db[Target(s)].journal \subseteq db'[Target(s)].journal
    BY <1>5 DEF Grows
<1> QED BY <1>1, <1>3, <1>4, <1>5, <1>6 DEF SessionOK, Waits


\* The parents of an entry are older entries.
LEMMA ParentsTyped ==
  LogOK => \A i \in 1..Len(log) : log[i].parents \in Seq(1..(i - 1))
<1> SUFFICES ASSUME LogOK, NEW i \in 1..Len(log) PROVE log[i].parents \in Seq(1..(i - 1))
    OBVIOUS
<1>1. log[i].parents \in Seq(Nat) /\ ToSet(log[i].parents) \subseteq 1..(i - 1)
    BY LogEntries
<1> QED BY <1>1, SequenceElements

\* Where the log grows and sessions wait, the types of what they keep stay.
LEMMA SessionTypesStay ==
  ASSUME IInv, Grows, UNCHANGED sessionVars
  PROVE  /\ push' \in [Sessions -> BOOLEAN]
         /\ from' \in [Sessions -> (1..Len(log')) \cup {None}]
         /\ stack' \in [Sessions -> Seq(1..Len(log'))]
         /\ received' \in [Sessions -> Seq(1..Len(log'))]
         /\ checked' \in [Sessions -> SUBSET (1..Len(log'))]
         /\ upto' \in [Sessions -> Version \cup {None}]
<1> DEFINE N == 1..Len(log)
           M == 1..Len(log')
<1>1. N \subseteq M
    BY DEF Grows, IInv, LogOK
<1>2. /\ push \in [Sessions -> BOOLEAN] /\ from \in [Sessions -> N \cup {None}]
      /\ stack \in [Sessions -> Seq(N)] /\ received \in [Sessions -> Seq(N)]
      /\ checked \in [Sessions -> SUBSET N] /\ upto \in [Sessions -> Version \cup {None}]
    BY DEF IInv, TypeOK
<1>3. /\ push' = push /\ from' = from /\ stack' = stack /\ checked' = checked
      /\ received' = received /\ upto' = upto
    BY DEF sessionVars
<1> HIDE DEF N, M
<1>4. \A q \in Seq(N) : q \in Seq(M)
    BY <1>1, SequenceElements
<1>5. push' \in [Sessions -> BOOLEAN] /\ upto' \in [Sessions -> Version \cup {None}]
    BY <1>2, <1>3
<1>6. from' \in [Sessions -> M \cup {None}] /\ checked' \in [Sessions -> SUBSET M]
    BY <1>1, <1>2, <1>3
<1>7. stack' \in [Sessions -> Seq(M)] /\ received' \in [Sessions -> Seq(M)]
    BY <1>2, <1>3, <1>4
<1> QED BY <1>5, <1>6, <1>7 DEF M

\* The newest entry follows itself and what the tip before it follows.
LEMMA RecordGrows ==
  ASSUME IInv, NEW r \in Replicas, NEW e \in Change, Record(r, e, db[r]),
         NEW d \in Database, d.journal = db[r].journal \cup {NewId}, d.tip = NewId,
         db' = [db EXCEPT ![r] = d]
  PROVE  /\ Grows /\ Len(log') = Len(log) + 1
         /\ \A i : i = NewId => Followed(i)' = {i} \cup Followed(db[r].tip)
<1> DEFINE ps == IF db[r].tip = None THEN <<>> ELSE <<db[r].tip>>
           x == Entry(e, ps)
<1>0. PICK n \in Nat : n = Len(log)
    BY DEF IInv, LogOK
<1>1. LogOK /\ n \in Nat /\ NewId = n + 1 /\ n + 1 <= MaxEntries /\ log \in Seq(EntrySet)
    BY <1>0 DEF IInv, Record, NewId, LogOK
<1>2. db[r].tip \in 1..n \cup {None}
    BY <1>0 DEF IInv, Journals
<1>3. ps \in Seq(Nat) /\ ToSet(ps) = {db[r].tip} \ {None}
  <2>1. CASE db[r].tip = None
      BY <2>1 DEF ToSet
  <2>2. CASE db[r].tip # None
    <3> DEFINE t == db[r].tip
    <3>1. ps = <<t>> /\ t \in Nat /\ t # None
        BY <1>2, <2>2
    <3> HIDE DEF t
    <3>2. <<t>> \in Seq(Nat) /\ ToSet(<<t>>) = {t}
        BY <3>1 DEF ToSet
    <3> QED BY <3>1, <3>2 DEF t
  <2> QED BY <2>1, <2>2
<1>4. log' = Append(log, x)
    BY DEF Record
<1> HIDE DEF ps
<1>5. x \in EntrySet /\ IsEntry(x) /\ x.parents = ps
    BY <1>3, ChangeTyped DEF Entry, EntrySet, IsEntry
<1> HIDE DEF x
<1>6. /\ log' \in Seq(EntrySet) /\ Len(log') = n + 1
      /\ \A i \in 1..n : log'[i] = log[i]
      /\ log'[n + 1] = x
    BY <1>0, <1>1, <1>4, <1>5
<1>7. LogOK'
  <2>1. ASSUME NEW i \in 1..(n + 1)
        PROVE  IsEntry(log'[i]) /\ ToSet(log'[i].parents) \subseteq 1..(i - 1)
    <3>1. CASE i \in 1..n
        BY <1>0, <1>1, <1>6, <3>1, LogEntries
    <3>2. CASE i = n + 1
      <4>1. log'[i] = x /\ i - 1 = n
          BY <1>1, <1>6, <3>2
      <4>2. ToSet(ps) \subseteq 1..n
          BY <1>2, <1>3
      <4> QED BY <1>5, <4>1, <4>2
    <3> QED BY <1>1, <3>1, <3>2
  <2> QED BY <1>6, <2>1 DEF LogOK, Parents, IsEntry, Change, Rename, Delete, Undelete, Merge,
                            Version, EntrySet
<1>8. Grows
  <2>1. \A q \in Replicas : db[q].journal \subseteq db'[q].journal
      BY DEF IInv, TypeOK
  <2> QED BY <1>0, <1>1, <1>6, <1>7, <2>1 DEF Grows
<1>9. \A i : i = n + 1 => Followed(i)' = {i} \cup Followed(db[r].tip)
  <2>1. PICK t : t = db[r].tip
      OBVIOUS
  <2> DEFINE F(i) == Followed(i)'
             Q(i) == Parents(i)'
  <2>2. \A i \in 1..(n + 1) : F(i) = {i} \cup UNION {F(j) : j \in Q(i)}
      BY <1>1, <1>6, <1>7, FollowedFactsNext
  <2>3. \A i \in 1..n \cup {None} : F(i) = Followed(i)
      BY <1>0, <1>1, <1>8, FollowedStays DEF Grows
  <2>4. Q(n + 1) = {t} \ {None}
      BY <1>3, <1>5, <1>6, <2>1 DEF Parents
  <2>5. Followed(None) = {} /\ t \in 1..n \cup {None}
      BY <1>2, <2>1 DEF Followed
  <2> HIDE DEF F, Q
  <2>6. n + 1 \in 1..(n + 1)
      BY <1>1
  <2>7. F(n + 1) = {n + 1} \cup Followed(t)
    <3>1. CASE t = None
      <4>1. Q(n + 1) = {}
          BY <2>4, <3>1
      <4> QED BY <2>2, <2>5, <2>6, <3>1, <4>1
    <3>2. CASE t # None
      <4>1. Q(n + 1) = {t} /\ F(t) = Followed(t)
          BY <2>3, <2>4, <2>5, <3>2
      <4> QED BY <2>2, <2>6, <4>1
    <3> QED BY <3>1, <3>2
  <2>8. Followed(n + 1)' = {n + 1} \cup Followed(t)
      BY <2>7 DEF F
  <2> QED BY <2>1, <2>8
<1> QED BY <1>0, <1>1, <1>6, <1>8, <1>9

\* A change made in a repository keeps the invariant.
LEMMA RecordKeeps ==
  ASSUME IInv, NEW r \in Replicas, NEW e \in Change, Record(r, e, db[r]),
         NEW d \in Database, d.journal = db[r].journal \cup {NewId}, d.tip = NewId,
         db' = [db EXCEPT ![r] = d], made' \in Version
  PROVE  IInv'
<1>1. Grows /\ Len(log') = Len(log) + 1 /\ NewId = Len(log) + 1 /\ Len(log) \in Nat
  <2>1. Len(log) \in Nat /\ NewId = Len(log) + 1
      BY LogEntries DEF NewId, IInv
  <2>2. Grows /\ Len(log') = Len(log) + 1
      BY RecordGrows
  <2> QED BY <2>1, <2>2
<1>2. \A i : i = NewId => Followed(i)' = {i} \cup Followed(db[r].tip)
    BY RecordGrows
<1>3. pc' = pc /\ UNCHANGED sessionVars
    BY DEF Record
<1>4. db' \in [Replicas -> Database] /\ db'[r] = d /\ \A q \in Replicas : q # r => db'[q] = db[q]
    BY DEF IInv, TypeOK
<1>5. LogOK' => (\A i \in 1..Len(log) : log[i].parents \in Seq(1..(i - 1)))'
    BY ParentsTyped, PTL
<1>6. TypeOK'
  <2>1. pc' \in [Sessions -> {"idle", "send", "import", "imported"}]
      BY <1>3 DEF IInv, TypeOK
  <2> QED BY <1>1, <1>3, <1>4, <1>5, <2>1, SessionTypesStay DEF TypeOK, Grows
<1>7. Journals'
  <2> SUFFICES ASSUME NEW q \in Replicas
               PROVE  /\ db'[q].journal \subseteq 1..Len(log')
                      /\ db'[q].tip \in 1..Len(log') \cup {None}
      BY DEF Journals
  <2>1. db[q].journal \subseteq 1..Len(log) /\ db[q].tip \in 1..Len(log) \cup {None}
      BY DEF IInv, Journals
  <2>2. db[r].journal \subseteq 1..Len(log)
      BY DEF IInv, Journals
  <2> QED BY <1>1, <1>4, <2>1, <2>2
<1>8. TipIsLast'
  <2> SUFFICES ASSUME NEW q \in Replicas PROVE db'[q].journal = Followed(db[q].tip)'
      BY DEF TipIsLast
  <2>1. \A i \in 1..Len(log) \cup {None} : Followed(i)' = Followed(i)
      BY <1>1, FollowedStays DEF Grows, IInv
  <2>2. CASE q = r
    <3>1. \A i : i = d.tip => d.journal = Followed(i)'
        BY <1>2 DEF IInv, TipIsLast
    <3>2. db'[q] = d
        BY <1>4, <2>2
    <3> QED BY <3>1, <3>2 DEF Followed
  <2>3. CASE q # r
    <3>1. db'[q] = db[q] /\ db[q].tip \in 1..Len(log) \cup {None}
        BY <1>4, <2>3 DEF IInv, Journals
    <3>2. \A i : i = db[q].tip => Followed(i)' = db[q].journal
        BY <2>1, <3>1 DEF IInv, TipIsLast
    <3> QED BY <3>1, <3>2 DEF Followed
  <2> QED BY <2>2, <2>3
<1>9. \A s \in Sessions : SessionOK(s)'
  <2>1. \A s \in Sessions : Waits(s)
      BY <1>3 DEF Waits, sessionVars
  <2> QED BY <1>1, <2>1, OthersUndisturbed
<1> QED BY <1>1, <1>6, <1>7, <1>8, <1>9 DEF IInv, Grows


-----------------------------------------------------------------------------
(* What users do. *)

\* A rename records one entry over the tip.
LEMMA RenameKeeps ==
  ASSUME IInv, NEW r \in Replicas, NEW name \in Names, RenameBranch(r, name)
  PROVE  IInv'
<1> DEFINE e == Rename(name)
           i == NewId
           d == Insert(db[r], e, i)
<1>1. e \in Change /\ IsEntry(e)
    BY Changes DEF IsEntry
<1>2. Record(r, e, db[r]) /\ db' = [db EXCEPT ![r] = d] /\ made' = made
    BY DEF RenameBranch
<1>3. i \in 1..MaxEntries /\ db[r] \in Database /\ made' \in Version
    BY <1>2, Constants DEF IInv, LogOK, TypeOK, Record, NewId
<1> HIDE DEF e, i
<1>4. d \in Database /\ d.journal = db[r].journal \cup {i} /\ d.tip = i
    BY <1>1, <1>3, InsertTyped
<1> HIDE DEF d
<1> QED BY <1>1, <1>2, <1>3, <1>4, RecordKeeps DEF i

\* So does a deletion.
LEMMA DeleteKeeps ==
  ASSUME IInv, NEW r \in Replicas, DeleteBranch(r)
  PROVE  IInv'
<1> DEFINE e == Delete(db[r].heads[1])
           i == NewId
           d == Insert(db[r], e, i)
<1>1. e \in Change /\ IsEntry(e)
  <2>1. db[r].heads \in Seq(Version) /\ Len(db[r].heads) = 1
      BY DEF IInv, TypeOK, Database, DeleteBranch
  <2>2. db[r].heads[1] \in Version
      BY <2>1
  <2> QED BY <2>2, Changes DEF IsEntry
<1>2. Record(r, e, db[r]) /\ db' = [db EXCEPT ![r] = d] /\ made' = made
    BY DEF DeleteBranch
<1>3. i \in 1..MaxEntries /\ db[r] \in Database /\ made' \in Version
    BY <1>2, Constants DEF IInv, LogOK, TypeOK, Record, NewId
<1> HIDE DEF e, i
<1>4. d \in Database /\ d.journal = db[r].journal \cup {i} /\ d.tip = i
    BY <1>1, <1>3, InsertTyped
<1> HIDE DEF d
<1> QED BY <1>1, <1>2, <1>3, <1>4, RecordKeeps DEF i

\* Moving a head row keeps the rows versions.
LEMMA MoveHeadTyped ==
  ASSUME NEW heads \in Seq(Version), NEW p, NEW v \in Version
  PROVE  MoveHead(heads, p, v) \in Seq(Version)
<1>1. CASE HeadRow(heads, p) = {}
    BY <1>1 DEF MoveHead
<1>2. CASE HeadRow(heads, p) # {}
  <2> DEFINE at == CHOOSE i \in HeadRow(heads, p) : \A j \in HeadRow(heads, p) : i <= j
             moved == [heads EXCEPT ![at] = v]
  <2>1. MoveHead(heads, p, v) = moved
      BY <1>2 DEF MoveHead
  <2> HIDE DEF at
  <2>2. moved \in Seq(Version)
    <3> DEFINE n == Len(heads)
    <3>1. n \in Nat /\ heads \in [1..n -> Version]
        OBVIOUS
    <3> HIDE DEF n
    <3>2. moved \in [1..n -> Version]
        BY <3>1
    <3> QED BY <3>1, <3>2
  <2> QED BY <2>1, <2>2
<1> QED BY <1>1, <1>2

\* A step that leaves the log, the journals and the sessions alone.
LEMMA QuietStep ==
  ASSUME IInv, log' = log, db' \in [Replicas -> Database],
         \A r \in Replicas : db'[r].journal = db[r].journal /\ db'[r].tip = db[r].tip
  PROVE  /\ Grows /\ LogOK' /\ Journals' /\ TipIsLast'
         /\ \A i \in 1..Len(log) \cup {None} : Followed(i)' = Followed(i)
         /\ (\A i \in 1..Len(log) : log[i].parents \in Seq(1..(i - 1)))'
<1>1. LogOK' /\ Grows
  <2>1. LogOK /\ Len(log) \in Nat /\ Len(log) <= MaxEntries
      BY LogEntries DEF IInv, TypeOK
  <2>2. LogOK'
      BY <2>1 DEF LogOK, IsEntry, Parents, EntrySet, Change, Rename, Delete, Undelete, Merge,
                  Version
  <2> QED BY <2>1, <2>2 DEF Grows
<1>2. Ancestry' = Ancestry
    BY DEF Ancestry, Parents
<1>3. \A i : Followed(i)' = Followed(i)
    BY <1>2 DEF Followed
<1>4. Journals'
    BY DEF IInv, Journals
<1>5. TipIsLast'
    BY <1>2 DEF IInv, TipIsLast, Followed
<1>6. (\A i \in 1..Len(log) : log[i].parents \in Seq(1..(i - 1)))'
    BY DEF IInv, TypeOK
<1> QED BY <1>1, <1>3, <1>4, <1>5, <1>6

\* A commit touches versions and heads only.
LEMMA CommitKeeps ==
  ASSUME IInv, NEW r \in Replicas, Commit(r)
  PROVE  IInv'
<1> DEFINE v == made + 1
           x == db[r]
           heads == MoveHead(x.heads, made, v)
           d == [x EXCEPT !.heads = heads, !.latest = v]
<1>1. /\ v \in Version /\ made' = v /\ log' = log /\ pc' = pc /\ UNCHANGED sessionVars
      /\ db' = [db EXCEPT ![r] = d]
  <2>1. v \in Version
      BY Constants DEF Commit, IInv, TypeOK, Version
  <2> QED BY <2>1 DEF Commit
<1>2. x \in Database
    BY DEF IInv, TypeOK
<1> HIDE DEF v, x
<1>3. heads \in Seq(Version)
    BY <1>1, <1>2, MoveHeadTyped DEF Database
<1> HIDE DEF heads
<1>4. d \in Database /\ d.journal = x.journal /\ d.tip = x.tip
    BY <1>1, <1>2, <1>3 DEF Database
<1> HIDE DEF d
<1>5. /\ db' \in [Replicas -> Database]
      /\ \A q \in Replicas : db'[q].journal = db[q].journal /\ db'[q].tip = db[q].tip
    BY <1>1, <1>4 DEF IInv, TypeOK, x
<1>6. /\ Grows /\ LogOK' /\ Journals' /\ TipIsLast'
      /\ (\A i \in 1..Len(log) : log[i].parents \in Seq(1..(i - 1)))'
    BY <1>1, <1>5, QuietStep
<1>7. \A s \in Sessions : SessionOK(s)'
  <2>1. \A s \in Sessions : Waits(s)
      BY <1>1 DEF Waits, sessionVars
  <2> QED BY <1>6, <2>1, OthersUndisturbed
<1>8. TypeOK'
  <2>1. pc' \in [Sessions -> {"idle", "send", "import", "imported"}] /\ Len(log') <= MaxEntries
      BY <1>1 DEF IInv, TypeOK
  <2> QED BY <1>1, <1>5, <1>6, <2>1, SessionTypesStay DEF TypeOK
<1> QED BY <1>6, <1>7, <1>8 DEF IInv

\* A commit to a deleted branch also records that it is undeleted.
LEMMA CommitUndeletesKeeps ==
  ASSUME IInv, NEW r \in Replicas, CommitUndeletes(r)
  PROVE  IInv'
<1> DEFINE e == Undelete
           i == NewId
           x == Insert(db[r], e, i)
           v == made + 1
           heads == MoveHead(x.heads, db[r].terminus, v)
           d == [x EXCEPT !.heads = heads, !.latest = v]
<1>1. e \in Change /\ IsEntry(e)
    BY Changes DEF IsEntry
<1>2. Record(r, e, db[r]) /\ db' = [db EXCEPT ![r] = d] /\ made' = v
    BY DEF CommitUndeletes
<1>3. i \in 1..MaxEntries /\ db[r] \in Database /\ v \in Version
    BY <1>2, Constants DEF IInv, LogOK, TypeOK, Record, NewId, CommitUndeletes, Version
<1> HIDE DEF e, i
<1>4. x \in Database /\ x.journal = db[r].journal \cup {i} /\ x.tip = i
    BY <1>1, <1>3, InsertTyped
<1> HIDE DEF x, v
<1>5. heads \in Seq(Version)
    BY <1>3, <1>4, MoveHeadTyped DEF Database
<1> HIDE DEF heads
<1>6. d \in Database /\ d.journal = db[r].journal \cup {i} /\ d.tip = i
    BY <1>3, <1>4, <1>5 DEF Database
<1> HIDE DEF d
<1> QED BY <1>1, <1>2, <1>3, <1>6, RecordKeeps DEF i

-----------------------------------------------------------------------------
(* What sessions do. *)

\* A step of session s that leaves the repositories alone.
LEMMA SessionStep ==
  ASSUME IInv, UNCHANGED <<log, made, db>>, NEW s \in Sessions,
         \A q \in Sessions \ {s} : Waits(q),
         pc' \in [Sessions -> {"idle", "send", "import", "imported"}],
         push' \in [Sessions -> BOOLEAN],
         from' \in [Sessions -> (1..Len(log)) \cup {None}],
         stack' \in [Sessions -> Seq(1..Len(log))], received' \in [Sessions -> Seq(1..Len(log))],
         checked' \in [Sessions -> SUBSET (1..Len(log))],
         upto' \in [Sessions -> Version \cup {None}],
         SessionOK(s)'
  PROVE  IInv'
<1>1. log' = log /\ made' = made /\ db' = db
    OBVIOUS
<1>2. db' \in [Replicas -> Database] /\ made' \in Version /\ Len(log') <= MaxEntries
    BY <1>1 DEF IInv, TypeOK
<1>3. /\ Grows /\ LogOK' /\ Journals' /\ TipIsLast'
      /\ (\A i \in 1..Len(log) : log[i].parents \in Seq(1..(i - 1)))'
    BY <1>1, <1>2, QuietStep
<1>4. TypeOK'
    BY <1>1, <1>2, <1>3 DEF TypeOK
<1>5. \A q \in Sessions : SessionOK(q)'
  <2>1. \A q \in Sessions \ {s} : SessionOK(q)'
      BY <1>3, OthersUndisturbed
  <2>2. \A q \in Sessions : q = s => SessionOK(q)'
      BY <1>1 DEF SessionOK, Target, Parents, Followed, Ancestry
  <2> QED BY <2>1, <2>2
<1> QED BY <1>3, <1>4, <1>5 DEF IInv


\* What s does concerns s only.
LEMMA SessionTyped ==
  IInv => \A s \in Sessions :
    /\ pc[s] \in {"idle", "send", "import", "imported"} /\ push[s] \in BOOLEAN
    /\ from[s] \in (1..Len(log)) \cup {None}
    /\ stack[s] \in Seq(1..Len(log)) /\ received[s] \in Seq(1..Len(log))
    /\ checked[s] \in SUBSET (1..Len(log)) /\ upto[s] \in Version \cup {None}
    /\ Source(s) \in Replicas /\ Target(s) \in Replicas
    /\ SessionOK(s)
  BY Ends DEF IInv, TypeOK

\* The first stack has the sender's tip.
LEMMA StackOfTip ==
  ASSUME IInv, NEW r \in Replicas,
         NEW q, q = IF db[r].tip = None THEN <<>> ELSE <<db[r].tip>>
  PROVE  /\ db[r].tip \in (1..Len(log)) \cup {None}
         /\ q \in Seq(1..Len(log)) /\ ToSet(q) = {db[r].tip} \ {None}
         /\ ToSet(q) \subseteq Followed(db[r].tip)
<1> DEFINE t == db[r].tip
           N == 1..Len(log)
<1>1. t \in N \cup {None}
    BY DEF IInv, Journals
<1>2. CASE t = None
  <2>1. q = <<>>
      BY <1>2
  <2> QED BY <1>1, <1>2, <2>1 DEF ToSet
<1>3. CASE t # None
  <2>1. q = <<t>> /\ t \in N
      BY <1>1, <1>3
  <2>2. t \in Followed(t)
      BY <2>1, FollowedFacts DEF IInv, TypeOK
  <2> HIDE DEF t, N
  <2>3. q \in Seq(N) /\ ToSet(q) = {t}
      BY <2>1 DEF ToSet
  <2> QED BY <1>1, <1>3, <2>2, <2>3 DEF t, N
<1> QED BY <1>2, <1>3

\* A session starts with the sender's tip to send.
LEMMA StartKeeps ==
  ASSUME IInv, NEW s \in Sessions, NEW isPush \in BOOLEAN, Start(s, isPush)
  PROVE  IInv'
<1> DEFINE r == IF isPush THEN Owner[s] ELSE Vault
           tip == db[r].tip
           q == IF tip = None THEN <<>> ELSE <<tip>>
           N == 1..Len(log)
<1>1. r \in Replicas
    BY JournalAssumption DEF Replicas
<1>2. /\ pc[s] = "idle" /\ UNCHANGED <<log, made, db, checked, received, upto>>
      /\ pc' = [pc EXCEPT ![s] = "send"] /\ push' = [push EXCEPT ![s] = isPush]
      /\ from' = [from EXCEPT ![s] = tip] /\ stack' = [stack EXCEPT ![s] = q]
    BY DEF Start
<1> HIDE DEF r
<1>3. /\ tip \in N \cup {None} /\ q \in Seq(N) /\ ToSet(q) = {tip} \ {None}
      /\ ToSet(q) \subseteq Followed(tip)
    BY <1>1, StackOfTip
<1> HIDE DEF tip, q
<1>4. SessionOK(s) /\ TypeOK
    BY DEF IInv
<1>5. checked[s] = {} /\ ToSet(received[s]) = {}
    BY <1>2, <1>4 DEF SessionOK, ToSet
<1>6. /\ pc' \in [Sessions -> {"idle", "send", "import", "imported"}]
      /\ push' \in [Sessions -> BOOLEAN] /\ from' \in [Sessions -> N \cup {None}]
      /\ stack' \in [Sessions -> Seq(N)] /\ received' \in [Sessions -> Seq(N)]
      /\ checked' \in [Sessions -> SUBSET N] /\ upto' \in [Sessions -> Version \cup {None}]
  <2> HIDE DEF N
  <2>1. /\ pc \in [Sessions -> {"idle", "send", "import", "imported"}]
        /\ push \in [Sessions -> BOOLEAN] /\ from \in [Sessions -> N \cup {None}]
        /\ stack \in [Sessions -> Seq(N)] /\ received \in [Sessions -> Seq(N)]
        /\ checked \in [Sessions -> SUBSET N] /\ upto \in [Sessions -> Version \cup {None}]
      BY <1>4 DEF TypeOK, N
  <2> QED BY <1>2, <1>3, <2>1
<1>7. /\ pc'[s] = "send" /\ from'[s] = tip /\ stack'[s] = q
      /\ checked'[s] = {} /\ ToSet(received'[s]) = {}
    BY <1>2, <1>4, <1>5 DEF TypeOK
<1>8. \A p \in Sessions \ {s} : Waits(p)
    BY <1>2, <1>4 DEF Waits, TypeOK
<1>9. \A i : Followed(i)' = Followed(i)
    BY <1>2 DEF Followed, Ancestry, Parents
<1>10. SessionOK(s)'
  <2>1. ToSet(stack'[s]) \subseteq Followed(from[s])'
    <3>1. \A i : i = tip => ToSet(stack'[s]) \subseteq Followed(i)'
        BY <1>3, <1>7, <1>9
    <3> QED BY <1>7, <3>1 DEF Followed
  <2> QED BY <1>3, <1>7, <2>1 DEF SessionOK
<1> QED BY <1>2, <1>6, <1>8, <1>10, SessionStep

\* An entry is sent, or known, and its parents are next.
LEMMA SendEntryKeeps ==
  ASSUME IInv, NEW s \in Sessions, SendEntry(s)
  PROVE  IInv'
<1> DEFINE N == 1..Len(log)
           i == Last(stack[s])
           rest == Front(stack[s])
           J == db[Target(s)].journal
           has == i \in checked[s] \/ i \in J
           q == IF has THEN rest ELSE rest \o SentNext(i)
           p == IF has THEN received[s] ELSE Append(received[s], i)
           c == checked[s] \cup {i}
<1>1. /\ pc[s] = "send" /\ stack[s] # <<>> /\ UNCHANGED <<log, made, db, pc, push, from, upto>>
      /\ checked' = [checked EXCEPT ![s] = c]
      /\ stack' = [stack EXCEPT ![s] = q]
      /\ received' = [received EXCEPT ![s] = p]
    BY DEF SendEntry
<1>2. /\ SessionOK(s) /\ TypeOK /\ LogOK /\ stack[s] \in Seq(N) /\ received[s] \in Seq(N)
      /\ checked[s] \in SUBSET N
    BY SessionTyped DEF IInv
<1>3. /\ i \in ToSet(stack[s]) /\ rest \in Seq(N)
      /\ ToSet(stack[s]) = ToSet(rest) \cup {i}
    BY <1>1, <1>2, TopOfStack
<1> HIDE DEF i, rest
<1>4. i \in N
    BY <1>2, <1>3, SequenceElements
<1>5. i \in Followed(from[s]) /\ Parents(i) \subseteq Followed(from[s])
  <2>1. i \in Followed(from[s])
      BY <1>2, <1>3 DEF SessionOK
  <2>2. from[s] \in N
    <3>1. from[s] \in N \cup {None}
        BY SessionTyped
    <3>2. Followed(None) = {}
        BY DEF Followed
    <3> QED BY <2>1, <3>1, <3>2
  <2> QED BY <2>1, <2>2, <1>2, FollowedFacts DEF TypeOK
<1>6. SentNext(i) \in Seq(N) /\ ToSet(SentNext(i)) = Parents(i)
  <2>1. log[i].parents \in Seq(Nat) /\ Parents(i) \subseteq 1..(i - 1) /\ Len(log) \in Nat
      BY <1>2, <1>4, LogEntries DEF Parents
  <2>2. 1..(i - 1) \subseteq N
      BY <1>4, <2>1
  <2> HIDE DEF N
  <2> QED BY <2>1, <2>2, SequenceElements DEF SentNext, Parents
<1> HIDE DEF N
<1>7. /\ q \in Seq(N)
      /\ ToSet(q) = IF has THEN ToSet(rest) ELSE ToSet(rest) \cup Parents(i)
  <2> DEFINE u == SentNext(i)
  <2>1. rest \in Seq(N) /\ u \in Seq(N) /\ ToSet(u) = Parents(i)
      BY <1>3, <1>6
  <2> HIDE DEF u
  <2>2. rest \o u \in Seq(N) /\ ToSet(rest \o u) = ToSet(rest) \cup Parents(i)
      BY <2>1, ElementsOfConcat
  <2> HIDE DEF has
  <2> QED BY <2>1, <2>2 DEF u
<1>8. /\ p \in Seq(N)
      /\ ToSet(p) = IF has THEN ToSet(received[s]) ELSE ToSet(received[s]) \cup {i}
  <2> DEFINE u == received[s]
  <2>1. u \in Seq(N)
      BY <1>2
  <2> HIDE DEF u
  <2>2. Append(u, i) = u \o <<i>> /\ <<i>> \in Seq(N) /\ ToSet(<<i>>) = {i}
      BY <1>4, <2>1 DEF ToSet
  <2>3. Append(u, i) \in Seq(N) /\ ToSet(Append(u, i)) = ToSet(u) \cup {i}
    <3> DEFINE e == <<i>>
    <3>1. e \in Seq(N) /\ ToSet(e) = {i} /\ Append(u, i) = u \o e
        BY <2>2
    <3> HIDE DEF e
    <3> QED BY <2>1, <3>1, ElementsOfConcat
  <2> QED BY <2>1, <2>3 DEF u
<1> HIDE DEF q, p, c
<1>9. c \in SUBSET N
    BY <1>2, <1>4 DEF c
<1>10. /\ pc' \in [Sessions -> {"idle", "send", "import", "imported"}]
       /\ push' \in [Sessions -> BOOLEAN] /\ from' \in [Sessions -> N \cup {None}]
       /\ stack' \in [Sessions -> Seq(N)] /\ received' \in [Sessions -> Seq(N)]
       /\ checked' \in [Sessions -> SUBSET N] /\ upto' \in [Sessions -> Version \cup {None}]
  <2>1. /\ pc \in [Sessions -> {"idle", "send", "import", "imported"}]
        /\ push \in [Sessions -> BOOLEAN] /\ from \in [Sessions -> N \cup {None}]
        /\ stack \in [Sessions -> Seq(N)] /\ received \in [Sessions -> Seq(N)]
        /\ checked \in [Sessions -> SUBSET N] /\ upto \in [Sessions -> Version \cup {None}]
      BY <1>2 DEF TypeOK, N
  <2> QED BY <1>1, <1>7, <1>8, <1>9, <2>1
<1>11. /\ pc'[s] = "send" /\ from'[s] = from[s] /\ stack'[s] = q
       /\ checked'[s] = c /\ received'[s] = p /\ Target(s)' = Target(s) /\ db' = db
    BY <1>1, <1>2 DEF TypeOK, Target
<1>12. \A t \in Sessions \ {s} : Waits(t)
    BY <1>1, <1>2 DEF Waits, TypeOK
<1>13. (\A j : Parents(j)' = Parents(j)) /\ Followed(from[s])' = Followed(from[s])
    BY <1>1 DEF Followed, Ancestry, Parents
<1>14. SessionOK(s)'
  <2>1. c \subseteq ToSet(p) \cup J
      BY <1>2, <1>8 DEF SessionOK, c
  <2>2. ToSet(p) \subseteq c
      BY <1>2, <1>8 DEF SessionOK, c
  <2>3. \A j \in ToSet(p) : Parents(j) \subseteq c \cup ToSet(q)
      BY <1>2, <1>3, <1>7, <1>8 DEF SessionOK, c
  <2>4. from[s] = None \/ from[s] \in c \cup ToSet(q)
      BY <1>2, <1>3, <1>7 DEF SessionOK, c
  <2>5. ToSet(q) \subseteq Followed(from[s])
      BY <1>2, <1>3, <1>5, <1>7 DEF SessionOK
  <2>6. ToSet(p) \cap J # {} \/ ToSet(p) \subseteq Followed(from[s])
      BY <1>2, <1>5, <1>8 DEF SessionOK
  <2> HIDE DEF J
  <2>7. db'[Target(s)'].journal = J
      BY <1>11 DEF J
  <2> QED BY <1>11, <1>13, <2>1, <2>2, <2>3, <2>4, <2>5, <2>6, <2>7 DEF SessionOK
<1> QED BY <1>1, <1>10, <1>12, <1>14, SessionStep DEF N


\* When the stack is empty what was sent is imported.
LEMMA SendVersionsKeeps ==
  ASSUME IInv, NEW s \in Sessions, SendVersions(s)
  PROVE  IInv'
<1> DEFINE N == 1..Len(log)
<1>1. /\ stack[s] = <<>> /\ UNCHANGED <<log, made, db, push, from, stack, checked, received>>
      /\ pc' = [pc EXCEPT ![s] = "import"] /\ TypeOK /\ SessionOK(s)
    BY DEF SendVersions, IInv
<1>2. upto' \in [Sessions -> Version \cup {None}]
      /\ \A q \in Sessions \ {s} : upto'[q] = upto[q]
  <2>0. upto \in [Sessions -> Version \cup {None}]
      BY <1>1 DEF TypeOK
  <2>1. CASE upto' = upto
      BY <2>0, <2>1
  <2>2. CASE \E v \in Wanted(s) : upto' = [upto EXCEPT ![s] = v]
    <3>1. PICK v \in Wanted(s) : upto' = [upto EXCEPT ![s] = v]
        BY <2>2
    <3>2. v \in Version
      <4> DEFINE d == db[Source(s)]
      <4>1. d \in Database
          BY SessionTyped DEF IInv, TypeOK
      <4>2. CASE push[s]
        <5>1. v \in 0..d.latest
            BY <4>2 DEF Wanted
        <5>2. d.latest \in 0..MaxVersion /\ MaxVersion \in Nat
            BY <4>1, Constants DEF Database, Version
        <5> HIDE DEF d
        <5> QED BY <5>1, <5>2 DEF Version
      <4>3. CASE ~push[s] /\ d.terminus # None
        <5>1. v = d.terminus
            BY <4>3 DEF Wanted
        <5> QED BY <4>1, <4>3, <5>1 DEF Database
      <4>4. CASE ~push[s] /\ d.terminus = None
        <5>1. Len(d.heads) = 1 /\ v = d.heads[1]
            BY <4>4 DEF Wanted
        <5>2. d.heads \in Seq(Version)
            BY <4>1 DEF Database
        <5> HIDE DEF d
        <5> QED BY <5>1, <5>2
      <4> QED BY <4>2, <4>3, <4>4
    <3> QED BY <2>0, <3>1, <3>2
  <2> QED BY <2>1, <2>2 DEF SendVersions
<1>3. /\ pc' \in [Sessions -> {"idle", "send", "import", "imported"}]
      /\ push' \in [Sessions -> BOOLEAN] /\ from' \in [Sessions -> N \cup {None}]
      /\ stack' \in [Sessions -> Seq(N)] /\ received' \in [Sessions -> Seq(N)]
      /\ checked' \in [Sessions -> SUBSET N]
    BY <1>1 DEF TypeOK
<1>4. pc'[s] = "import" /\ Target(s)' = Target(s)
    BY <1>1 DEF TypeOK, Target
<1>5. \A q \in Sessions \ {s} : Waits(q)
    BY <1>1, <1>2 DEF Waits, TypeOK
<1>6. (\A i : Parents(i)' = Parents(i)) /\ Followed(from[s])' = Followed(from[s])
    BY <1>1 DEF Followed, Ancestry, Parents
<1>7. SessionOK(s)'
    BY <1>1, <1>4, <1>6 DEF SessionOK
<1> QED BY <1>1, <1>2, <1>3, <1>5, <1>7, SessionStep

\* A pull of all branches goes on with the next.
LEMMA NextBranchKeeps ==
  ASSUME IInv, NEW s \in Sessions, NextBranch(s)
  PROVE  IInv'
<1> DEFINE N == 1..Len(log)
           tip == db[Vault].tip
           q == IF tip = None THEN <<>> ELSE <<tip>>
<1>1. /\ pc[s] = "imported" /\ UNCHANGED <<log, made, db, push, checked, received, upto>>
      /\ pc' = [pc EXCEPT ![s] = "send"]
      /\ from' = [from EXCEPT ![s] = tip] /\ stack' = [stack EXCEPT ![s] = q]
    BY DEF NextBranch
<1>2. /\ tip \in N \cup {None} /\ q \in Seq(N) /\ ToSet(q) = {tip} \ {None}
      /\ ToSet(q) \subseteq Followed(tip)
  <2>1. Vault \in Replicas
      BY DEF Replicas
  <2> QED BY <2>1, StackOfTip
<1> HIDE DEF tip, q
<1>3. SessionOK(s) /\ TypeOK
    BY DEF IInv
<1>4. /\ pc' \in [Sessions -> {"idle", "send", "import", "imported"}]
      /\ push' \in [Sessions -> BOOLEAN] /\ from' \in [Sessions -> N \cup {None}]
      /\ stack' \in [Sessions -> Seq(N)] /\ received' \in [Sessions -> Seq(N)]
      /\ checked' \in [Sessions -> SUBSET N] /\ upto' \in [Sessions -> Version \cup {None}]
  <2> HIDE DEF N
  <2>1. /\ pc \in [Sessions -> {"idle", "send", "import", "imported"}]
        /\ push \in [Sessions -> BOOLEAN] /\ from \in [Sessions -> N \cup {None}]
        /\ stack \in [Sessions -> Seq(N)] /\ received \in [Sessions -> Seq(N)]
        /\ checked \in [Sessions -> SUBSET N] /\ upto \in [Sessions -> Version \cup {None}]
      BY <1>3 DEF TypeOK, N
  <2> QED BY <1>1, <1>2, <2>1
<1>5. /\ pc'[s] = "send" /\ from'[s] = tip /\ stack'[s] = q /\ Target(s)' = Target(s)
      /\ checked'[s] = checked[s] /\ received'[s] = received[s] /\ db' = db
    BY <1>1, <1>3 DEF TypeOK, Target
<1>6. \A p \in Sessions \ {s} : Waits(p)
    BY <1>1, <1>3 DEF Waits, TypeOK
<1>7. (\A i : Parents(i)' = Parents(i)) /\ Followed(from[s])' = Followed(tip)
    BY <1>1, <1>5 DEF Followed, Ancestry, Parents
<1>8. ToSet(stack[s]) = {}
    BY <1>1, <1>3 DEF SessionOK, ToSet
<1>9. SessionOK(s)'
  <2> DEFINE J == db[Target(s)].journal
             R == ToSet(received[s])
             c == checked[s]
  <2>1. /\ c \subseteq R \cup J /\ R \subseteq c /\ (\A i \in R : Parents(i) \subseteq c)
        /\ R \subseteq J
      BY <1>1, <1>3, <1>8 DEF SessionOK
  <2>2. R \cap J # {} \/ R \subseteq Followed(tip)
      BY <2>1
  <2>3. tip = None \/ tip \in c \cup ToSet(q)
      BY <1>2
  <2> QED BY <1>2, <1>5, <1>7, <2>1, <2>2, <2>3 DEF SessionOK
<1> QED BY <1>1, <1>4, <1>6, <1>9, SessionStep

\* A connection that is gone keeps nothing.
LEMMA DisconnectTyped ==
  ASSUME IInv, NEW s \in Sessions, Disconnect(s), NEW N, 1..Len(log) \subseteq N
  PROVE  /\ pc' \in [Sessions -> {"idle", "send", "import", "imported"}]
         /\ push' \in [Sessions -> BOOLEAN] /\ from' \in [Sessions -> N \cup {None}]
         /\ stack' \in [Sessions -> Seq(N)] /\ received' \in [Sessions -> Seq(N)]
         /\ checked' \in [Sessions -> SUBSET N] /\ upto' \in [Sessions -> Version \cup {None}]
         /\ \A q \in Sessions \ {s} : Waits(q)
         /\ SessionOK(s)'
<1> DEFINE M == 1..Len(log)
<1>1. /\ pc' = [pc EXCEPT ![s] = "idle"] /\ push' = [push EXCEPT ![s] = FALSE]
      /\ from' = [from EXCEPT ![s] = None] /\ stack' = [stack EXCEPT ![s] = <<>>]
      /\ checked' = [checked EXCEPT ![s] = {}] /\ received' = [received EXCEPT ![s] = <<>>]
      /\ upto' = [upto EXCEPT ![s] = None]
    BY DEF Disconnect
<1>2. /\ pc \in [Sessions -> {"idle", "send", "import", "imported"}]
      /\ push \in [Sessions -> BOOLEAN] /\ from \in [Sessions -> M \cup {None}]
      /\ stack \in [Sessions -> Seq(M)] /\ received \in [Sessions -> Seq(M)]
      /\ checked \in [Sessions -> SUBSET M] /\ upto \in [Sessions -> Version \cup {None}]
    BY DEF IInv, TypeOK
<1> HIDE DEF M
<1>3. stack \in [Sessions -> Seq(N)] /\ received \in [Sessions -> Seq(N)] /\ M \subseteq N
  <2>1. M \subseteq N
      BY DEF M
  <2>2. \A q \in Seq(M) : q \in Seq(N)
      BY <2>1, SequenceElements
  <2> QED BY <1>2, <2>1, <2>2
<1>4. <<>> \in Seq(N)
    OBVIOUS
<1>5. /\ pc' \in [Sessions -> {"idle", "send", "import", "imported"}]
      /\ push' \in [Sessions -> BOOLEAN] /\ from' \in [Sessions -> N \cup {None}]
      /\ stack' \in [Sessions -> Seq(N)] /\ received' \in [Sessions -> Seq(N)]
      /\ checked' \in [Sessions -> SUBSET N] /\ upto' \in [Sessions -> Version \cup {None}]
    BY <1>1, <1>2, <1>3, <1>4
<1>6. \A q \in Sessions \ {s} : Waits(q)
    BY <1>1, <1>2 DEF Waits
<1>7. /\ pc'[s] = "idle" /\ from'[s] = None /\ stack'[s] = <<>>
      /\ checked'[s] = {} /\ received'[s] = <<>>
    BY <1>1, <1>2
<1>8. ToSet(<<>>) = {}
    BY DEF ToSet
<1>9. SessionOK(s)'
    BY <1>7, <1>8 DEF SessionOK
<1> QED BY <1>5, <1>6, <1>9

\* A session that ends drops what was received.
LEMMA DisconnectKeeps ==
  ASSUME IInv, NEW s \in Sessions, Disconnect(s), UNCHANGED <<log, made, db>>
  PROVE  IInv'
<1> DEFINE N == 1..Len(log)
<1>1. /\ pc' \in [Sessions -> {"idle", "send", "import", "imported"}]
      /\ push' \in [Sessions -> BOOLEAN] /\ from' \in [Sessions -> N \cup {None}]
      /\ stack' \in [Sessions -> Seq(N)] /\ received' \in [Sessions -> Seq(N)]
      /\ checked' \in [Sessions -> SUBSET N] /\ upto' \in [Sessions -> Version \cup {None}]
      /\ \A q \in Sessions \ {s} : Waits(q)
      /\ SessionOK(s)'
    BY DisconnectTyped
<1> QED BY <1>1, SessionStep


\* What the import of session s finds.
LEMMA OutcomeIs ==
  ASSUME IInv, NEW s \in Sessions, NEW choice, NEW d, d = db[Target(s)]
  PROVE  /\ d \in Database /\ d.journal \subseteq 1..Len(log) /\ d.tip \in 1..Len(log) \cup {None}
         /\ d.journal = Followed(d.tip)
         /\ \E known \in Version : Outcome(s, choice) = ImportJournal(d, received[s], known, choice)
<1>1. Target(s) \in Replicas /\ upto[s] \in Version \cup {None}
    BY SessionTyped
<1>2. d \in Database
    BY <1>1 DEF IInv, TypeOK
<1>3. /\ d.journal \subseteq 1..Len(log) /\ d.tip \in 1..Len(log) \cup {None}
      /\ d.journal = Followed(d.tip)
    BY <1>1 DEF IInv, Journals, TipIsLast
<1> DEFINE known == IF upto[s] = None \/ d.latest >= upto[s] THEN d.latest ELSE upto[s]
<1>4. known \in Version
    BY <1>1, <1>2 DEF Database
<1>5. Outcome(s, choice) = ImportJournal(d, received[s], known, choice)
    BY DEF Outcome
<1> QED BY <1>2, <1>3, <1>4, <1>5

\* An import that is accepted finds none of what was received in the journal.
LEMMA ImportIsNew ==
  ASSUME LogOK, Len(log) <= MaxEntries, NEW d \in Database,
         NEW entries \in Seq(1..Len(log)), entries # <<>>, NEW known \in Version, NEW choice,
         NEW o, o = ImportJournal(d, entries, known, choice), o.ok,
         Len(log) + Len(o.new) <= MaxEntries
  PROVE  ToSet(entries) \cap d.journal = {}
<1> DEFINE w == AcceptAll(d, entries, known, choice)
           new == Additions(d, w, entries)
           x == AddEntries(w, new, known)
<1>1. o.new = new /\ x.ok
  <2>1. o = [new |-> new, d |-> [x.d EXCEPT !.tip = x.end], ok |-> x.ok]
      BY DEF ImportJournal
  <2> HIDE DEF x, new
  <2> QED BY <2>1
<1>2. w \in WorkSet /\ w.conflicts \in Seq(Change) /\ Len(log) \in Nat
    BY AcceptAllTyped DEF WorkSet, LogOK
<1>3. w.ok
  <2> HIDE DEF w
  <2>1. PICK N : new \in Seq(N) /\ \A k \in 1..Len(new) : IsEntry(new[k])
      BY <1>2, AdditionsSay
  <2> HIDE DEF new
  <2> QED BY <1>1, <1>2, <2>1, AddEntriesAdd
<1> DEFINE good(y) == /\ y.ok
                      /\ ToSet(entries) \cap d.journal = {}
                      /\ ToSet(entries) \subseteq y.d.journal
<1>4. \E y \in WorkSet : w = [y EXCEPT !.ok = good(y)]
  <2>1. Work(d) \in WorkSet
    <3>1. <<>> \in Seq(Change)
        OBVIOUS
    <3> QED BY <3>1 DEF Work, WorkSet, Database
  <2>2. \A y \in WorkSet : \A i \in ToSet(entries) : Accept(y, i, known, choice) \in WorkSet
    <3> SUFFICES ASSUME NEW y \in WorkSet, NEW i \in ToSet(entries)
                 PROVE  Accept(y, i, known, choice) \in WorkSet
        OBVIOUS
    <3>1. ToSet(entries) \subseteq 1..Len(log)
        BY SequenceElements
    <3>2. i \in 1..MaxEntries /\ IsEntry(log[i])
        BY <1>2, <3>1, Constants DEF LogOK
    <3> QED BY <3>2, AcceptTyped
  <2>3. \E y \in WorkSet : w = [y EXCEPT !.ok = /\ y.ok
                                                /\ ToSet(entries) \cap d.journal = {}
                                                /\ ToSet(entries) \subseteq y.d.journal]
      BY <2>1, <2>2, AcceptAllKeeps
  <2> QED BY <2>3
<1>5. PICK y \in WorkSet : w = [y EXCEPT !.ok = good(y)]
    BY <1>4
<1> HIDE DEF good, w
<1>6. w.ok = good(y)
    BY <1>5 DEF WorkSet
<1> QED BY <1>3, <1>6 DEF good

\* A received entry follows the sender's tip, and the tip is received or known,
\* unless the import refuses.
LEMMA ReceivedFollows ==
  ASSUME IInv, NEW s \in Sessions, pc[s] = "import"
  PROVE  /\ from[s] = None \/ from[s] \in ToSet(received[s]) \cup db[Target(s)].journal
         /\ \/ ToSet(received[s]) \cap db[Target(s)].journal # {}
            \/ ToSet(received[s]) \subseteq Followed(from[s])
         /\ \A i \in ToSet(received[s]) :
              Parents(i) \subseteq ToSet(received[s]) \cup db[Target(s)].journal
<1>1. SessionOK(s)
    BY DEF IInv
<1>2. ToSet(stack[s]) = {}
    BY <1>1 DEF SessionOK, ToSet
<1> QED BY <1>1, <1>2 DEF SessionOK

\* The step of an import: a sound log, and a journal with all that was received
\* and the tip the sender started at.
LEMMA ImportStep ==
  ASSUME IInv, NEW s \in Sessions, pc[s] = "import", NEW choice,
         NEW o, o = Outcome(s, choice), o.ok,
         Len(log) + Len(o.new) <= MaxEntries, log' = log \o o.new
  PROVE  /\ LogOK' /\ Len(log) <= Len(log') /\ Len(log') <= MaxEntries
         /\ \A i \in 1..Len(log) : log'[i] = log[i]
         /\ o.d \in Database /\ o.d.tip \in 1..Len(log') \cup {None}
         /\ \A i : i = o.d.tip => o.d.journal = Followed(i)'
         /\ db[Target(s)].journal \subseteq o.d.journal
         /\ ToSet(received[s]) \subseteq o.d.journal
         /\ from[s] = None \/ from[s] \in o.d.journal
<1> DEFINE d == db[Target(s)]
           entries == received[s]
           f == from[s]
<1>1. /\ d \in Database /\ d.journal \subseteq 1..Len(log) /\ d.tip \in 1..Len(log) \cup {None}
      /\ d.journal = Followed(d.tip)
    BY OutcomeIs
<1>2. PICK known \in Version : o = ImportJournal(d, entries, known, choice)
    BY OutcomeIs
<1>3. /\ entries \in Seq(1..Len(log)) /\ f \in 1..Len(log) \cup {None}
      /\ LogOK /\ Len(log) <= MaxEntries /\ Len(log) \in Nat
  <2>1. LogOK /\ Len(log) <= MaxEntries
      BY DEF IInv, TypeOK
  <2> QED BY <2>1, SessionTyped, LogEntries
<1>4. /\ f = None \/ f \in ToSet(entries) \cup d.journal
      /\ ToSet(entries) \cap d.journal # {} \/ ToSet(entries) \subseteq Followed(f)
    BY ReceivedFollows
<1> HIDE DEF d, entries, f
<1>5. CASE entries = <<>>
  <2>1. o.new = <<>> /\ o.d = d
      BY <1>2, <1>5 DEF ImportJournal
  <2>2. log' = log
    <3>1. log \in Seq(EntrySet)
        BY <1>3 DEF LogOK
    <3> QED BY <2>1, <3>1, ConcatEmptySeq
  <2>3. LogOK'
      BY <1>3, <2>2 DEF LogOK, IsEntry, Parents, EntrySet, Change, Rename, Delete, Undelete,
                        Merge, Version
  <2>4. \A i : Followed(i)' = Followed(i)
      BY <2>2 DEF Followed, Ancestry, Parents
  <2>5. ToSet(entries) = {}
      BY <1>5 DEF ToSet
  <2> QED BY <1>1, <1>3, <1>4, <2>1, <2>2, <2>3, <2>4, <2>5 DEF d, entries, f
<1>6. CASE entries # <<>>
  <2>1. ToSet(entries) \cap d.journal = {}
      BY <1>1, <1>2, <1>3, <1>6, ImportIsNew
  <2>2. ToSet(entries) \subseteq Followed(f) /\ ToSet(entries) # {}
      BY <1>3, <1>4, <1>6, <2>1, SequenceElements
  <2>3. f \in 1..Len(log)
    <3>1. Followed(None) = {}
        BY DEF Followed
    <3> QED BY <1>3, <2>2, <3>1
  <2>4. f \in ToSet(entries) \cup d.journal
      BY <1>3, <1>4, <2>3, Constants
  <2>5. /\ LogOK' /\ Len(log') = Len(log) + Len(o.new) /\ Len(o.new) \in Nat
        /\ \A i \in 1..Len(log) : log'[i] = log[i]
        /\ o.d \in Database
        /\ o.d.tip \in 1..Len(log')
        /\ \A i : i = o.d.tip => o.d.journal = Followed(i)'
        /\ d.journal \subseteq o.d.journal /\ ToSet(entries) \subseteq o.d.journal
    <3>1. Receives(d, entries, f)
        BY <1>1, <1>3, <1>6, <2>2, <2>3, <2>4 DEF Receives
    <3>2. Imported(o, d, entries)
        BY <1>2, <1>3, <3>1, ImportKeeps
    <3> QED BY <3>2 DEF Imported
  <2> QED BY <1>3, <2>4, <2>5 DEF d, entries, f
<1> QED BY <1>5, <1>6

\* Versions and heads do not touch the journal.
LEMMA ImportVersionsTyped ==
  ASSUME NEW d \in Database, NEW v \in Version, NEW isPush
  PROVE  /\ ImportVersions(d, v, isPush) \in Database
         /\ ImportVersions(d, v, isPush).journal = d.journal
         /\ ImportVersions(d, v, isPush).tip = d.tip
<1>1. <<v>> \in Seq(Version)
    OBVIOUS
<1> DEFINE latest == IF d.latest < v THEN v ELSE d.latest
           heads == IF \/ ~isPush /\ d.terminus # None
                       \/ \E h \in ToSet(d.heads) : h > v
                    THEN d.heads ELSE <<v>>
<1>2. latest \in Version /\ heads \in Seq(Version)
    BY <1>1 DEF Database
<1>3. ImportVersions(d, v, isPush) = [d EXCEPT !.latest = latest, !.heads = heads]
    BY DEF ImportVersions
<1> HIDE DEF latest, heads
<1> QED BY <1>2, <1>3 DEF Database


\* What an import that is committed leaves.
LEMMA ImportIs ==
  ASSUME IInv, NEW s \in Sessions, Import(s)
  PROVE  \E d \in Database :
           /\ LogOK' /\ Len(log) <= Len(log') /\ Len(log') <= MaxEntries
           /\ \A i \in 1..Len(log) : log'[i] = log[i]
           /\ d.tip \in 1..Len(log') \cup {None}
           /\ \A i : i = d.tip => d.journal = Followed(i)'
           /\ db[Target(s)].journal \subseteq d.journal
           /\ ToSet(received[s]) \subseteq d.journal
           /\ from[s] = None \/ from[s] \in d.journal
           /\ db' = [db EXCEPT ![Target(s)] = d]
<1>1. PICK choice \in AnswersOf(s) :
        LET o == Outcome(s, choice) IN
        /\ Accepted(s, o)
        /\ Len(log) + Len(o.new) <= MaxEntries
        /\ log' = log \o o.new
        /\ db' = [db EXCEPT ![Target(s)] =
                    IF upto[s] = None THEN o.d ELSE ImportVersions(o.d, upto[s], push[s])]
    BY DEF Import
<1> DEFINE o == Outcome(s, choice)
           x == o.d
           d == IF upto[s] = None THEN x ELSE ImportVersions(x, upto[s], push[s])
<1>2. /\ o.ok /\ Len(log) + Len(o.new) <= MaxEntries /\ log' = log \o o.new
      /\ db' = [db EXCEPT ![Target(s)] = d] /\ pc[s] = "import"
    BY <1>1 DEF Accepted, Import
<1> HIDE DEF o
<1>3. /\ LogOK' /\ Len(log) <= Len(log') /\ Len(log') <= MaxEntries
      /\ \A i \in 1..Len(log) : log'[i] = log[i]
      /\ x \in Database /\ x.tip \in 1..Len(log') \cup {None}
      /\ \A i : i = x.tip => x.journal = Followed(i)'
      /\ db[Target(s)].journal \subseteq x.journal
      /\ ToSet(received[s]) \subseteq x.journal
      /\ from[s] = None \/ from[s] \in x.journal
    BY <1>2, ImportStep DEF o
<1> HIDE DEF x
<1>4. d \in Database /\ d.journal = x.journal /\ d.tip = x.tip
  <2>1. upto[s] \in Version \cup {None}
      BY SessionTyped
  <2>2. CASE upto[s] = None
      BY <1>3, <2>2
  <2>3. CASE upto[s] # None
    <3> DEFINE v == upto[s]
    <3>1. v \in Version /\ d = ImportVersions(x, v, push[s])
        BY <2>1, <2>3
    <3> HIDE DEF v, d
    <3> QED BY <1>3, <3>1, ImportVersionsTyped
  <2> QED BY <2>2, <2>3
<1> HIDE DEF d
<1>5. \A i : i = d.tip => d.journal = Followed(i)'
    BY <1>3, <1>4
<1> QED BY <1>2, <1>3, <1>4, <1>5

\* An import keeps the invariant.
LEMMA ImportKeepsIt ==
  ASSUME IInv, NEW s \in Sessions, Import(s)
  PROVE  IInv'
<1> DEFINE r == Target(s)
           M == 1..Len(log')
<1>1. PICK d \in Database :
           /\ LogOK' /\ Len(log) <= Len(log') /\ Len(log') <= MaxEntries
           /\ \A i \in 1..Len(log) : log'[i] = log[i]
           /\ d.tip \in 1..Len(log') \cup {None}
           /\ \A i : i = d.tip => d.journal = Followed(i)'
           /\ db[r].journal \subseteq d.journal
           /\ ToSet(received[s]) \subseteq d.journal
           /\ from[s] = None \/ from[s] \in d.journal
           /\ db' = [db EXCEPT ![r] = d]
    BY ImportIs
<1>2. LogOK /\ TypeOK /\ Journals /\ TipIsLast /\ SessionOK(s) /\ r \in Replicas
    BY SessionTyped DEF IInv
<1>3. db' \in [Replicas -> Database] /\ db'[r] = d /\ \A q \in Replicas : q # r => db'[q] = db[q]
    BY <1>1, <1>2 DEF TypeOK
<1> HIDE DEF r
<1>4. Grows
    BY <1>1, <1>3 DEF Grows
<1>5. \A i \in 1..Len(log) \cup {None} : Followed(i)' = Followed(i)
    BY <1>1, <1>2, FollowedStays
<1>6. LogOK' => (\A i \in 1..Len(log) : log[i].parents \in Seq(1..(i - 1)))'
    BY ParentsTyped, PTL
<1>7. TipIsLast'
  <2> SUFFICES ASSUME NEW q \in Replicas PROVE db'[q].journal = Followed(db[q].tip)'
      BY DEF TipIsLast
  <2>1. CASE q = r
    <3>1. db'[q] = d
        BY <1>3, <2>1
    <3> QED BY <1>1, <3>1 DEF Followed
  <2>2. CASE q # r
    <3>1. db'[q] = db[q] /\ db[q].tip \in 1..Len(log) \cup {None}
        BY <1>2, <1>3, <2>2 DEF Journals
    <3>2. \A i : i = db[q].tip => Followed(i)' = db[q].journal
        BY <1>2, <1>5, <3>1 DEF TipIsLast
    <3> QED BY <3>1, <3>2 DEF Followed
  <2> QED BY <2>1, <2>2
<1>8. Len(log) \in Nat /\ Len(log') \in Nat /\ 1..Len(log) \subseteq M
  <2>1. Len(log) \in Nat /\ Len(log') \in Nat
      BY <1>1, <1>2 DEF LogOK
  <2> QED BY <1>1, <2>1
<1>9. Journals'
  <2>1. d.journal \subseteq 1..Len(log')
    <3>1. LogOK' /\ Len(log') <= MaxEntries => (\A i \in 1..Len(log) : Followed(i) \subseteq 1..i)'
        BY FollowedFactsNext
    <3>2. CASE d.tip = None
      <4>1. \A i : i = None => Followed(i)' = {}
          BY DEF Followed
      <4> QED BY <1>1, <3>2, <4>1
    <3>3. CASE d.tip # None
      <4> DEFINE t == d.tip
      <4>1. t \in 1..Len(log')
          BY <1>1, <3>3
      <4>2. \A i : i = t => d.journal = Followed(i)'
          BY <1>1
      <4> HIDE DEF t
      <4>3. \A i \in 1..Len(log') : Followed(i)' \subseteq 1..i
          BY <1>1, <3>1
      <4>4. d.journal \subseteq 1..t
          BY <4>1, <4>2, <4>3
      <4> QED BY <1>8, <4>1, <4>4
    <3> QED BY <3>2, <3>3
  <2> SUFFICES ASSUME NEW q \in Replicas
               PROVE  /\ db'[q].journal \subseteq 1..Len(log')
                      /\ db'[q].tip \in 1..Len(log') \cup {None}
      BY DEF Journals
  <2>2. CASE q = r
    <3>1. db'[q] = d
        BY <1>3, <2>2
    <3> QED BY <1>1, <2>1, <3>1
  <2>3. CASE q # r
    <3>1. db'[q] = db[q]
        BY <1>3, <2>3
    <3>2. db[q].journal \subseteq 1..Len(log) /\ db[q].tip \in 1..Len(log) \cup {None}
        BY <1>2 DEF Journals
    <3> QED BY <1>8, <3>1, <3>2
  <2> QED BY <2>2, <2>3
<1>10. made' \in Version
    BY <1>2 DEF Import, TypeOK
<1>11. CASE push[s]
  <2>1. Disconnect(s)
      BY <1>11 DEF Import
  <2>2. /\ pc' \in [Sessions -> {"idle", "send", "import", "imported"}]
        /\ push' \in [Sessions -> BOOLEAN] /\ from' \in [Sessions -> M \cup {None}]
        /\ stack' \in [Sessions -> Seq(M)] /\ received' \in [Sessions -> Seq(M)]
        /\ checked' \in [Sessions -> SUBSET M] /\ upto' \in [Sessions -> Version \cup {None}]
        /\ \A q \in Sessions \ {s} : Waits(q)
        /\ SessionOK(s)'
    <3> HIDE DEF M
    <3> QED BY <1>8, <2>1, DisconnectTyped
  <2>3. TypeOK'
      BY <1>1, <1>3, <1>6, <1>10, <2>2 DEF TypeOK
  <2>4. \A q \in Sessions \ {s} : SessionOK(q)'
      BY <1>4, <2>2, OthersUndisturbed
  <2>5. \A q \in Sessions : q = s => SessionOK(q)'
      BY <2>2 DEF SessionOK, Target, Parents, Followed, Ancestry
  <2> QED BY <1>1, <1>7, <1>9, <2>3, <2>4, <2>5 DEF IInv
<1>12. CASE ~push[s]
  <2>1. pc' = [pc EXCEPT ![s] = "imported"] /\ UNCHANGED sessionVars /\ pc[s] = "import"
      BY <1>12 DEF Import
  <2>2. pc' \in [Sessions -> {"idle", "send", "import", "imported"}] /\ pc'[s] = "imported"
        /\ \A q \in Sessions \ {s} : pc'[q] = pc[q]
      BY <1>2, <2>1 DEF TypeOK
  <2>3. /\ push' \in [Sessions -> BOOLEAN] /\ from' \in [Sessions -> M \cup {None}]
        /\ stack' \in [Sessions -> Seq(M)] /\ received' \in [Sessions -> Seq(M)]
        /\ checked' \in [Sessions -> SUBSET M] /\ upto' \in [Sessions -> Version \cup {None}]
      BY <1>4, <2>1, SessionTypesStay
  <2>4. TypeOK'
      BY <1>1, <1>3, <1>6, <1>10, <2>2, <2>3 DEF TypeOK
  <2>5. \A q \in Sessions \ {s} : SessionOK(q)'
    <3>1. \A q \in Sessions \ {s} : Waits(q)
        BY <2>1, <2>2 DEF Waits, sessionVars
    <3> QED BY <1>4, <3>1, OthersUndisturbed
  <2>6. \A q \in Sessions : q = s => SessionOK(q)'
    <3>1. /\ from'[s] = from[s] /\ stack'[s] = stack[s] /\ checked'[s] = checked[s]
          /\ received'[s] = received[s] /\ Target(s)' = r
        BY <2>1 DEF sessionVars, Target, r
    <3>2. from[s] \in 1..Len(log) \cup {None} /\ ToSet(received[s]) \subseteq 1..Len(log)
      <4>1. from[s] \in 1..Len(log) \cup {None} /\ received[s] \in Seq(1..Len(log))
          BY SessionTyped
      <4> QED BY <4>1, SequenceElements
    <3>3. Followed(from[s])' = Followed(from[s])
      <4>1. \A i : i = from[s] => Followed(i)' = Followed(i)
          BY <1>5, <3>2
      <4> QED BY <3>1, <4>1 DEF Followed
    <3>4. \A i \in ToSet(received[s]) : Parents(i)' = Parents(i)
        BY <1>1, <3>2 DEF Parents
    <3>5. db[r].journal \subseteq db'[r].journal /\ ToSet(received[s]) \subseteq db'[r].journal
        BY <1>1, <1>3
    <3>6. stack[s] = <<>>
        BY <1>2, <2>1 DEF SessionOK
    <3>7. SessionOK(s)'
        BY <1>2, <2>2, <3>1, <3>3, <3>4, <3>5, <3>6 DEF SessionOK, r
    <3> QED BY <3>7 DEF SessionOK, Target, Parents, Followed, Ancestry
  <2> QED BY <1>1, <1>7, <1>9, <2>4, <2>5, <2>6 DEF IInv
<1> QED BY <1>11, <1>12


-----------------------------------------------------------------------------
(* The theorems. *)

\* The invariant holds at the start.
LEMMA InitIInv == Init => IInv
<1> SUFFICES ASSUME Init PROVE IInv
    OBVIOUS
<1>1. /\ log = <<>> /\ Len(log) = 0 /\ made = 0
      /\ pc = [s \in Sessions |-> "idle"] /\ push = [s \in Sessions |-> FALSE]
      /\ from = [s \in Sessions |-> None] /\ stack = [s \in Sessions |-> <<>>]
      /\ checked = [s \in Sessions |-> {}] /\ received = [s \in Sessions |-> <<>>]
      /\ upto = [s \in Sessions |-> None]
    BY DEF Init
<1> DEFINE d == [journal |-> {}, tip |-> None, name |-> First,
                 terminus |-> None, heads |-> <<0>>, latest |-> 0]
<1>2. 0 \in Version /\ First \in Names /\ MaxEntries \in Nat /\ <<0>> \in Seq(Version)
  <2>1. 0 \in Version
      BY Constants DEF Version
  <2> QED BY <2>1, JournalAssumption
<1>3. d \in Database
    BY <1>2 DEF Database
<1>4. db = [r \in Replicas |-> d]
    BY DEF Init
<1>5. d.journal = {} /\ d.tip = None
    OBVIOUS
<1> HIDE DEF d
<1>6. TypeOK
  <2>1. <<>> \in Seq(1..Len(log))
      OBVIOUS
  <2> QED BY <1>1, <1>2, <1>3, <1>4, <2>1 DEF TypeOK
<1>7. LogOK
  <2>1. <<>> \in Seq(EntrySet)
      OBVIOUS
  <2> QED BY <1>1, <2>1 DEF LogOK
<1>8. Journals /\ TipIsLast
    BY <1>4, <1>5 DEF Journals, TipIsLast, Followed
<1>9. \A s \in Sessions : SessionOK(s)
  <2>1. ToSet(<<>>) = {}
      BY DEF ToSet
  <2> QED BY <1>1, <2>1 DEF SessionOK
<1> QED BY <1>6, <1>7, <1>8, <1>9 DEF IInv

\* Every step keeps it.
LEMMA NextKeeps == IInv /\ [Next]_vars => IInv'
<1> SUFFICES ASSUME IInv, [Next]_vars PROVE IInv'
    OBVIOUS
<1> USE JournalAssumption DEF Replicas
<1>1. ASSUME NEW r \in Writers, NEW name \in Names, RenameBranch(r, name) PROVE IInv'
    BY <1>1, RenameKeeps
<1>2. ASSUME NEW r \in Writers, DeleteBranch(r) PROVE IInv'
    BY <1>2, DeleteKeeps
<1>3. ASSUME NEW r \in Writers, Commit(r) PROVE IInv'
    BY <1>3, CommitKeeps
<1>4. ASSUME NEW r \in Writers, CommitUndeletes(r) PROVE IInv'
    BY <1>4, CommitUndeletesKeeps
<1>5. ASSUME NEW s \in Sessions, NEW isPush \in BOOLEAN, Start(s, isPush) PROVE IInv'
    BY <1>5, StartKeeps
<1>6. ASSUME NEW s \in Sessions, SendEntry(s) PROVE IInv'
    BY <1>6, SendEntryKeeps
<1>7. ASSUME NEW s \in Sessions, SendVersions(s) PROVE IInv'
    BY <1>7, SendVersionsKeeps
<1>8. ASSUME NEW s \in Sessions, Import(s) PROVE IInv'
    BY <1>8, ImportKeepsIt
<1>9. ASSUME NEW s \in Sessions, NextBranch(s) PROVE IInv'
    BY <1>9, NextBranchKeeps
<1>10. ASSUME NEW s \in Sessions, Refuse(s) PROVE IInv'
    BY <1>10, DisconnectKeeps DEF Refuse
<1>11. ASSUME NEW s \in Sessions, Close(s) PROVE IInv'
    BY <1>11, DisconnectKeeps DEF Close
<1>12. CASE UNCHANGED vars
  <2>1. log' = log /\ made' = made /\ db' = db /\ pc' = pc /\ UNCHANGED sessionVars
      BY <1>12 DEF vars
  <2>2. db' \in [Replicas -> Database]
      BY <2>1 DEF IInv, TypeOK
  <2>3. /\ Grows /\ LogOK' /\ Journals' /\ TipIsLast'
        /\ (\A i \in 1..Len(log) : log[i].parents \in Seq(1..(i - 1)))'
      BY <2>1, <2>2, QuietStep
  <2>4. \A s \in Sessions : SessionOK(s)'
    <3>1. \A s \in Sessions : Waits(s)
        BY <2>1 DEF Waits, sessionVars
    <3> QED BY <2>3, <3>1, OthersUndisturbed
  <2>5. TypeOK'
      BY <2>1, <2>2, <2>3, SessionTypesStay DEF TypeOK, IInv
  <2> QED BY <2>3, <2>4, <2>5 DEF IInv
<1> QED
    BY <1>1, <1>2, <1>3, <1>4, <1>5, <1>6, <1>7, <1>8, <1>9, <1>10, <1>11, <1>12 DEF Next

\* The inductive invariant.
THEOREM InductiveInvariant == Spec => []IInv
BY InitIInv, NextKeeps, PTL DEF Spec

\* Types, and that an entry's parents are older entries.
THEOREM TypeCorrect == Spec => []TypeOK
<1>1. IInv => TypeOK
    BY DEF IInv
<1> QED BY <1>1, InductiveInvariant, PTL

\* The journal of every repository is its tip and all that the tip follows, in
\* whatever order changes and imports come: so it is enough to send what is found
\* from the tip downwards (SendBranchJournal), and to stop at an entry that the
\* receiver has.
THEOREM JournalIsTip == Spec => []TipIsLast
<1>1. IInv => TipIsLast
    BY DEF IInv
<1> QED BY <1>1, InductiveInvariant, PTL

\* An import never waits for a parent that was not sent and is not in the
\* journal (ImportBranchJournal's "Error while importing branch journal!").
THEOREM NothingIsMissing == Spec => []NothingMissing
<1>1. IInv => NothingMissing
    BY ReceivedFollows DEF NothingMissing
<1> QED BY <1>1, InductiveInvariant, PTL

\* A committed import has brought the receiver all that the sender's tip
\* followed when the sender started.
THEOREM ImportsDeliver == Spec => ImportDelivers
<1>1. ASSUME IInv, NEW s \in Sessions, Import(s)
      PROVE  Followed(from[s]) \subseteq db'[Target(s)].journal
  <2> DEFINE r == Target(s)
             f == from[s]
  <2>1. PICK d \in Database :
           /\ LogOK' /\ Len(log) <= Len(log') /\ Len(log') <= MaxEntries
           /\ \A i \in 1..Len(log) : log'[i] = log[i]
           /\ d.tip \in 1..Len(log') \cup {None}
           /\ \A i : i = d.tip => d.journal = Followed(i)'
           /\ f = None \/ f \in d.journal
           /\ db' = [db EXCEPT ![r] = d]
      BY <1>1, ImportIs
  <2>2. LogOK /\ r \in Replicas /\ db \in [Replicas -> Database] /\ f \in 1..Len(log) \cup {None}
      BY <1>1, SessionTyped DEF IInv, TypeOK
  <2> HIDE DEF r, f
  <2>3. db'[r] = d
      BY <2>1, <2>2
  <2>4. CASE f = None
      BY <2>4 DEF Followed, f
  <2>5. CASE f # None
    <3>1. f \in d.journal /\ f \in 1..Len(log)
        BY <2>1, <2>2, <2>5
    <3>2. d.tip # None
      <4>1. \A i : i = None => Followed(i)' = {}
          BY DEF Followed
      <4> QED BY <2>1, <3>1, <4>1
    <3> DEFINE t == d.tip
    <3>3. t \in 1..Len(log') /\ \A i : i = t => d.journal = Followed(i)'
        BY <2>1, <3>2
    <3> HIDE DEF t
    <3>4. LogOK' /\ Len(log') <= MaxEntries =>
            (\A i \in 1..Len(log) : \A j \in Followed(i) : Followed(j) \subseteq Followed(i))'
        BY FollowedFactsNext
    <3>5. \A j \in Followed(t)' : Followed(j)' \subseteq Followed(t)'
        BY <2>1, <3>3, <3>4
    <3>6. \A i : i = f => Followed(i)' = Followed(i)
        BY <2>1, <2>2, <3>1, FollowedStays
    <3>7. \A i : i = f => Followed(i)' \subseteq d.journal
        BY <3>1, <3>3, <3>5
    <3>8. Followed(f) \subseteq d.journal
        BY <3>6, <3>7
    <3> QED BY <2>3, <3>8 DEF r, f
  <2> QED BY <2>4, <2>5
<1>2. IInv /\ [Next]_vars =>
        [\A s \in Sessions : Import(s) => Followed(from[s]) \subseteq db'[Target(s)].journal]_vars
    BY <1>1
<1> QED BY <1>2, InductiveInvariant, PTL DEF Spec, ImportDelivers

=============================================================================
