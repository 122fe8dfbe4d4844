------------------------------- MODULE Induction -------------------------------
(***************************************************************************)
(* Induction over numbers and recursion along them, in a form that takes   *)
(* sets and functions where the theorems of NaturalsInduction take         *)
(* operators; derived from the well-foundedness of the proper subsets of a *)
(* finite set.                                                             *)
(***************************************************************************)
EXTENDS FiniteSetTheorems, WellFoundedInduction, Sequences, Integers, TLAPS

LEMMA LeastNat ==
    ASSUME NEW S \in SUBSET Nat, S # {}
    PROVE  \E n \in S : \A m \in S : n <= m
<1> DEFINE R == StrictSubsetOrdering(Nat)
           T == {0..n : n \in S}
<1>1. IsWellFoundedOn(R, FiniteSubsetsOf(Nat))
  BY FS_StrictSubsetOrderingWellFounded
<1>2. T \subseteq FiniteSubsetsOf(Nat) /\ T # {}
  <2>1. ASSUME NEW n \in S PROVE 0..n \in SUBSET Nat /\ IsFiniteSet(0..n)
    BY FS_Interval
  <2> QED
    BY <2>1 DEF FiniteSubsetsOf
<1>3. PICK x \in T : \A y \in T : <<y, x>> \notin R
  <2> HIDE DEF R, T
  <2> QED
    BY <1>1, <1>2, WFMin
<1>4. PICK n \in S : x = 0..n
  OBVIOUS
<1>5. ASSUME NEW m \in S, m < n PROVE FALSE
  <2>1. <<0..m, 0..n>> \notin R
    BY <1>3, <1>4
  <2>2. 0..m \subseteq 0..n /\ n \in 0..n /\ n \notin 0..m
    BY <1>5
  <2> QED
    BY <2>1, <2>2 DEF StrictSubsetOrdering
<1> QED
  BY <1>5

LEMMA NatSetInduction ==
    ASSUME NEW S, 0 \in S, \A n \in Nat : n \in S => n + 1 \in S
    PROVE  Nat \subseteq S
<1> SUFFICES ASSUME Nat \ S # {} PROVE FALSE
  OBVIOUS
<1>1. PICK n \in Nat \ S : \A m \in Nat \ S : n <= m
  BY LeastNat
<1>2. n # 0 /\ n - 1 \in Nat
  BY <1>1
<1>3. n - 1 \in S
  BY <1>1, <1>2
<1>4. (n - 1) + 1 \in S
  BY <1>2, <1>3
<1> QED
  BY <1>1, <1>2, <1>4

\* A sequence of values, the first given and every other by a step from the one
\* before.
Recursion(s, T, first, n, F) ==
    /\ s \in [0..n -> T]
    /\ s[0] = first
    /\ \A k \in 1..n : s[k] = F[<<k, s[k - 1]>>]

\* There is one for every first value and every step.
LEMMA RecursionExists ==
    ASSUME NEW T, NEW first \in T, NEW n \in Nat, NEW F \in [(1..n) \X T -> T]
    PROVE  \E s : Recursion(s, T, first, n, F)
<1> DEFINE Good(m, s) == s[0] = first /\ \A k \in 1..m : s[k] = F[<<k, s[k - 1]>>]
           S == {m \in Nat : m <= n => \E s \in [0..m -> T] : Good(m, s)}
<1>1. 0 \in S
  <2> DEFINE s == [k \in 0..0 |-> first]
  <2>1. s \in [0..0 -> T] /\ Good(0, s)
    OBVIOUS
  <2> QED
    BY <2>1
<1>2. ASSUME NEW m \in Nat, m \in S PROVE m + 1 \in S
  <2> SUFFICES ASSUME m + 1 <= n PROVE \E s \in [0..m + 1 -> T] : Good(m + 1, s)
    OBVIOUS
  <2>1. PICK s \in [0..m -> T] : Good(m, s)
    BY <1>2
  <2>2. F[<<m + 1, s[m]>>] \in T
    <3>1. m + 1 \in 1..n /\ s[m] \in T
      BY <2>1
    <3> QED
      BY <3>1
  <2> DEFINE t == [k \in 0..m + 1 |-> IF k = m + 1 THEN F[<<m + 1, s[m]>>] ELSE s[k]]
  <2>3. t \in [0..m + 1 -> T] /\ t[m + 1] = F[<<m + 1, s[m]>>] /\ \A k \in 0..m : t[k] = s[k]
    BY <2>1, <2>2
  <2> HIDE DEF t
  <2>4. ASSUME NEW k \in 1..m + 1 PROVE t[k] = F[<<k, t[k - 1]>>]
    <3>1. CASE k = m + 1
      <4>1. k - 1 = m /\ t[k - 1] = s[m]
        BY <2>3, <3>1
      <4> QED
        BY <2>3, <3>1, <4>1
    <3>2. CASE k # m + 1
      <4>1. k \in 1..m /\ k \in 0..m /\ k - 1 \in 0..m
        BY <3>2
      <4>2. t[k] = s[k] /\ t[k - 1] = s[k - 1]
        BY <2>3, <4>1
      <4> QED
        BY <2>1, <4>1, <4>2
    <3> QED
      BY <3>1, <3>2
  <2>5. t[0] = first
    BY <2>1, <2>3
  <2> QED
    BY <2>3, <2>4, <2>5
<1>3. n \in S
  <2> HIDE DEF S
  <2> QED
    BY <1>1, <1>2, NatSetInduction
<1> QED
  BY <1>3 DEF Recursion

-------------------------------------------------------------------------------
(* The elements of a sequence that are in a set, in their order.             *)

\* What is kept of a sequence, up to each of its elements.
Kept(seq, set) ==
    CHOOSE kept : kept = [n \in 0..Len(seq) |->
        IF n = 0 THEN <<>>
        ELSE IF seq[n] \in set THEN Append(kept[n - 1], seq[n]) ELSE kept[n - 1]]

LEMMA KeptExists ==
    ASSUME NEW T, NEW seq \in Seq(T), NEW set
    PROVE  /\ Kept(seq, set)[0] = <<>>
           /\ \A n \in 1..Len(seq) :
                 Kept(seq, set)[n] = IF seq[n] \in set THEN Append(Kept(seq, set)[n - 1], seq[n])
                                     ELSE Kept(seq, set)[n - 1]
<1>1. PICK U, N : U = Seq(T) /\ N = Len(seq)
  OBVIOUS
<1> DEFINE F == [p \in (1..N) \X U |->
                   IF seq[p[1]] \in set THEN Append(p[2], seq[p[1]]) ELSE p[2]]
           Step(s, n) == IF seq[n] \in set THEN Append(s[n - 1], seq[n]) ELSE s[n - 1]
<1>2. N \in Nat /\ <<>> \in U
  BY <1>1
<1>3. F \in [(1..N) \X U -> U]
  BY <1>1
<1>4. PICK s : Recursion(s, U, <<>>, N, F)
  <2> HIDE DEF F
  <2> QED
    BY <1>2, <1>3, RecursionExists
<1>5. ASSUME NEW k \in 1..N PROVE s[k] = Step(s, k)
  <2>1. k - 1 \in 0..N /\ s[k - 1] \in U
    BY <1>2, <1>4 DEF Recursion
  <2> QED
    BY <1>4, <2>1 DEF Recursion
<1>6. s = [n \in 0..N |-> IF n = 0 THEN <<>> ELSE Step(s, n)]
  <2> HIDE DEF Step
  <2>1. \A n \in 0..N : n = 0 \/ n \in 1..N
    BY <1>2
  <2> QED
    BY <1>4, <1>5, <2>1 DEF Recursion
<1>7. Kept(seq, set) = [n \in 0..N |-> IF n = 0 THEN <<>> ELSE Step(Kept(seq, set), n)]
  BY <1>1, <1>6 DEF Kept
<1> HIDE DEF Step
<1>8. Kept(seq, set)[0] = <<>>
  BY <1>2, <1>7
<1>9. ASSUME NEW n \in 1..N PROVE Kept(seq, set)[n] = Step(Kept(seq, set), n)
  <2>1. n \in 0..N /\ n # 0
    BY <1>2
  <2> QED
    BY <1>7, <2>1
<1> QED
  BY <1>1, <1>8, <1>9 DEF Step

LEMMA AppendIs ==
    ASSUME NEW T, NEW s \in Seq(T), NEW x \in T
    PROVE  /\ Append(s, x) \in Seq(T) /\ Len(Append(s, x)) = Len(s) + 1
           /\ \A i \in 1..Len(s) : Append(s, x)[i] = s[i]
           /\ Append(s, x)[Len(s) + 1] = x
  OBVIOUS

\* What is kept at the end is in the set, and each element as often as it was there.
LEMMA KeptIs ==
    ASSUME NEW T, NEW seq \in Seq(T), NEW set
    PROVE  /\ Kept(seq, set)[Len(seq)] \in Seq(T)
           /\ \A x : (\E i \in 1..Len(Kept(seq, set)[Len(seq)]) : Kept(seq, set)[Len(seq)][i] = x)
                      <=> (\E i \in 1..Len(seq) : seq[i] = x /\ x \in set)
           /\ (\A i, j \in 1..Len(seq) : seq[i] = seq[j] => i = j) =>
                 \A i, j \in 1..Len(Kept(seq, set)[Len(seq)]) :
                     Kept(seq, set)[Len(seq)][i] = Kept(seq, set)[Len(seq)][j] => i = j
<1> DEFINE kept == Kept(seq, set)
           Single == \A i, j \in 1..Len(seq) : seq[i] = seq[j] => i = j
           Good(n) ==
               /\ kept[n] \in Seq(T)
               /\ \A x : (\E i \in 1..Len(kept[n]) : kept[n][i] = x)
                          <=> (\E i \in 1..n : seq[i] = x /\ x \in set)
               /\ Single => \A i, j \in 1..Len(kept[n]) : kept[n][i] = kept[n][j] => i = j
           S == {n \in Nat : n <= Len(seq) => Good(n)}
<1>1. Len(seq) \in Nat /\ DOMAIN seq = 1..Len(seq)
  OBVIOUS
<1>2. kept[0] = <<>> /\ \A n \in 1..Len(seq) :
         kept[n] = IF seq[n] \in set THEN Append(kept[n - 1], seq[n]) ELSE kept[n - 1]
  BY KeptExists
<1> HIDE DEF kept
<1>6. Good(0)
  BY <1>2
<1>7. ASSUME NEW n \in Nat, n + 1 <= Len(seq), Good(n) PROVE Good(n + 1)
  <2> DEFINE last == seq[n + 1]
  <2>1. last \in T /\ n + 1 \in 1..Len(seq)
    BY <1>1, <1>7
  <2>2. CASE last \notin set
    <3>1. kept[n + 1] = kept[n]
      BY <2>1, <2>2, <1>2
    <3>2. \A x : (\E i \in 1..n : seq[i] = x /\ x \in set)
                 <=> (\E i \in 1..n + 1 : seq[i] = x /\ x \in set)
      <4>1. \A i \in 1..n + 1 : i \in 1..n \/ i = n + 1
        OBVIOUS
      <4>2. \A i \in 1..n : i \in 1..n + 1
        OBVIOUS
      <4> QED
        BY <4>1, <4>2, <2>2
    <3> QED
      BY <1>7, <3>1, <3>2
  <2>3. CASE last \in set
    <3> DEFINE before == kept[n]
               now == kept[n + 1]
    <3>1. before \in Seq(T) /\ Len(before) \in Nat
      BY <1>7
    <3>2. now = Append(before, last)
      <4>1. kept[n + 1] = Append(kept[(n + 1) - 1], seq[n + 1])
        BY <2>1, <2>3, <1>2
      <4>2. (n + 1) - 1 = n
        OBVIOUS
      <4> QED
        BY <4>1, <4>2
    <3>3. /\ now \in Seq(T) /\ Len(now) = Len(before) + 1
          /\ \A i \in 1..Len(before) : now[i] = before[i]
          /\ now[Len(before) + 1] = last
      <4> HIDE DEF before, now, last
      <4> QED
        BY <3>1, <3>2, <2>1, AppendIs
    <3>4. \A x : (\E i \in 1..Len(before) : before[i] = x)
                 <=> (\E i \in 1..n : seq[i] = x /\ x \in set)
      BY <1>7
    <3>5. Single => \A i, j \in 1..Len(before) : before[i] = before[j] => i = j
      BY <1>7
    <3>6. Single => \A i \in 1..Len(before) : before[i] # last
      <4> SUFFICES ASSUME Single, NEW i \in 1..Len(before), before[i] = last PROVE FALSE
        OBVIOUS
      <4>1. PICK k \in 1..n : seq[k] = last
        BY <3>4
      <4>2. k \in 1..Len(seq) /\ k # n + 1
        BY <2>1, <4>1
      <4> QED
        BY <2>1, <4>1, <4>2
    <3> HIDE DEF before, now, last, kept
    <3>7. \A i \in 1..Len(now) : i \in 1..Len(before) \/ i = Len(before) + 1
      BY <3>1, <3>3
    <3>8. \A x : (\E i \in 1..Len(now) : now[i] = x)
                 <=> (\E i \in 1..Len(before) : before[i] = x) \/ x = last
      <4>1. \A i \in 1..Len(before) : i \in 1..Len(now)
        BY <3>1, <3>3
      <4>2. Len(before) + 1 \in 1..Len(now)
        BY <3>1, <3>3
      <4> QED
        BY <4>1, <4>2, <3>3, <3>7
    <3>9. \A x : (\E i \in 1..n + 1 : seq[i] = x /\ x \in set)
                 <=> (\E i \in 1..n : seq[i] = x /\ x \in set) \/ x = last
      <4>1. \A i \in 1..n + 1 : i \in 1..n \/ i = n + 1
        OBVIOUS
      <4>2. n + 1 \in 1..n + 1 /\ \A i \in 1..n : i \in 1..n + 1
        OBVIOUS
      <4>3. seq[n + 1] = last
        BY DEF last
      <4> QED
        BY <4>1, <4>2, <4>3, <2>3
    <3>10. \A x : (\E i \in 1..Len(now) : now[i] = x)
                  <=> (\E i \in 1..n + 1 : seq[i] = x /\ x \in set)
      BY <3>4, <3>8, <3>9
    <3>11. Single => \A i, j \in 1..Len(now) : now[i] = now[j] => i = j
      <4> SUFFICES ASSUME Single, NEW i \in 1..Len(now), NEW j \in 1..Len(now), now[i] = now[j]
                   PROVE  i = j
        OBVIOUS
      <4>1. CASE i \in 1..Len(before) /\ j \in 1..Len(before)
        BY <4>1, <3>3, <3>5
      <4>2. CASE i \in 1..Len(before) /\ j = Len(before) + 1
        BY <4>2, <3>3, <3>6
      <4>3. CASE j \in 1..Len(before) /\ i = Len(before) + 1
        BY <4>3, <3>3, <3>6
      <4> QED
        BY <3>7, <4>1, <4>2, <4>3
    <3> QED
      BY <3>3, <3>10, <3>11 DEF now
  <2> QED
    BY <2>2, <2>3
<1> HIDE DEF Good
<1>8. Nat \subseteq S
  <2>1. 0 \in S
    BY <1>6
  <2>2. ASSUME NEW n \in Nat, n \in S PROVE n + 1 \in S
    <3>1. CASE n + 1 <= Len(seq)
      <4>1. Good(n)
        BY <1>1, <2>2, <3>1
      <4>2. Good(n + 1)
        BY <1>7, <3>1, <4>1
      <4> QED
        BY <4>2
    <3> QED
      BY <3>1
  <2> HIDE DEF S
  <2> QED
    BY <2>1, <2>2, NatSetInduction
<1>9. Good(Len(seq))
  BY <1>1, <1>8
<1> USE DEF Good
<1> QED
  BY <1>9 DEF kept


-------------------------------------------------------------------------------
(* A sequence of sequences, one after another (FlattenSeq).                  *)

\* What the sequences up to each of them give.
Joined(seqs) ==
    CHOOSE joined : joined = [i \in 1..Len(seqs) |->
        IF i = 1 THEN seqs[i] ELSE joined[i - 1] \o seqs[i]]

LEMMA JoinedExists ==
    ASSUME NEW T, NEW seqs \in Seq(Seq(T))
    PROVE  \A n \in 1..Len(seqs) :
              Joined(seqs)[n] = IF n = 1 THEN seqs[n] ELSE Joined(seqs)[n - 1] \o seqs[n]
<1>1. PICK U, N : U = Seq(T) /\ N = Len(seqs)
  OBVIOUS
<1> DEFINE F == [p \in (1..N) \X U |-> p[2] \o seqs[p[1]]]
           Step(s, n) == IF n = 1 THEN seqs[n] ELSE s[n - 1] \o seqs[n]
<1>2. N \in Nat /\ <<>> \in U /\ \A n \in 1..N : seqs[n] \in U
  BY <1>1
<1>3. F \in [(1..N) \X U -> U]
  BY <1>1, <1>2
<1>4. PICK s : Recursion(s, U, <<>>, N, F)
  <2> HIDE DEF F
  <2> QED
    BY <1>2, <1>3, RecursionExists
<1>5. ASSUME NEW k \in 1..N PROVE s[k] = Step(s, k)
  <2>1. k - 1 \in 0..N /\ s[k - 1] \in U /\ s[k] = s[k - 1] \o seqs[k] /\ s[0] = <<>>
    BY <1>2, <1>4 DEF Recursion
  <2>2. <<>> \o seqs[k] = seqs[k]
    BY <1>1, <1>2
  <2>3. CASE k = 1
    <3>1. s[k - 1] = <<>>
      BY <2>1, <2>3
    <3> QED
      BY <2>1, <2>2, <2>3, <3>1
  <2> QED
    BY <2>1, <2>3
<1> DEFINE t == [n \in 1..N |-> s[n]]
<1>6. t = [n \in 1..N |-> Step(t, n)]
  <2>1. ASSUME NEW n \in 1..N PROVE s[n] = Step(t, n)
    <3>1. n = 1 \/ n - 1 \in 1..N
      BY <1>2
    <3> QED
      BY <1>5, <3>1
  <2> QED
    BY <2>1
<1> HIDE DEF t
<1>7. Joined(seqs) = [n \in 1..N |-> Step(Joined(seqs), n)]
  BY <1>1, <1>6 DEF Joined
<1> QED
  BY <1>1, <1>7

\* The elements of all of them.
AllAreJoined(T, seqs, n) ==
    /\ Joined(seqs)[n] \in Seq(T)
    /\ \A x : (\E i \in 1..Len(Joined(seqs)[n]) : Joined(seqs)[n][i] = x)
               <=> (\E k \in 1..n : \E i \in 1..Len(seqs[k]) : seqs[k][i] = x)

LEMMA JoinedIs ==
    ASSUME NEW T, NEW seqs \in Seq(Seq(T)), NEW n \in 1..Len(seqs)
    PROVE  AllAreJoined(T, seqs, n)
<1>1. PICK j, U, N : j = Joined(seqs) /\ U = Seq(T) /\ N = Len(seqs)
  OBVIOUS
<1>2. N \in Nat /\ \A m \in 1..N : seqs[m] \in U
  BY <1>1
<1> DEFINE Holds(s, x) == \E i \in 1..Len(s) : s[i] = x
           Good(m) == /\ j[m] \in U
                      /\ \A x : Holds(j[m], x) <=> \E k \in 1..m : Holds(seqs[k], x)
           S == {m \in Nat : m \in 1..N => Good(m)}
<1>3. \A m \in 1..N : j[m] = IF m = 1 THEN seqs[m] ELSE j[m - 1] \o seqs[m]
  BY <1>1, JoinedExists
<1>4. ASSUME NEW s \in U, NEW t \in U
      PROVE  s \o t \in U /\ \A x : Holds(s \o t, x) <=> Holds(s, x) \/ Holds(t, x)
  <2>1. /\ s \o t \in U /\ Len(s \o t) = Len(s) + Len(t) /\ Len(s) \in Nat /\ Len(t) \in Nat
        /\ \A i \in 1..Len(s) : (s \o t)[i] = s[i]
        /\ \A i \in 1..Len(t) : (s \o t)[Len(s) + i] = t[i]
    BY <1>1, <1>4
  <2>2. \A i \in 1..Len(s) + Len(t) : i \in 1..Len(s) \/ (i - Len(s) \in 1..Len(t) /\ i = Len(s) + (i - Len(s)))
    BY <2>1
  <2>3. ASSUME NEW x, Holds(s \o t, x) PROVE Holds(s, x) \/ Holds(t, x)
    <3>1. PICK i \in 1..Len(s) + Len(t) : (s \o t)[i] = x
      BY <2>1, <2>3
    <3>2. CASE i \in 1..Len(s)
      BY <2>1, <3>1, <3>2
    <3>3. CASE i - Len(s) \in 1..Len(t) /\ i = Len(s) + (i - Len(s))
      <4>1. (s \o t)[Len(s) + (i - Len(s))] = t[i - Len(s)]
        BY <2>1, <3>3
      <4> QED
        BY <3>1, <3>3, <4>1
    <3> QED
      BY <2>2, <3>1, <3>2, <3>3
  <2>4. ASSUME NEW x, Holds(s, x) PROVE Holds(s \o t, x)
    BY <2>1, <2>4
  <2>5. ASSUME NEW x, Holds(t, x) PROVE Holds(s \o t, x)
    <3>1. PICK i \in 1..Len(t) : t[i] = x
      BY <2>5
    <3>2. Len(s) + i \in 1..Len(s \o t)
      BY <2>1
    <3> QED
      BY <2>1, <3>1, <3>2
  <2> QED
    BY <2>1, <2>3, <2>4, <2>5
<1> HIDE DEF Holds
<1>5. 0 \in S
  OBVIOUS
<1>6. ASSUME NEW m \in Nat, m \in S PROVE m + 1 \in S
  <2> SUFFICES ASSUME m + 1 \in 1..N PROVE Good(m + 1)
    OBVIOUS
  <2>1. CASE m = 0
    <3>1. m + 1 = 1 /\ 1..1 = {1} /\ 1 \in 1..N
      BY <2>1
    <3>2. j[1] = seqs[1] /\ seqs[1] \in U
      BY <1>2, <1>3, <3>1
    <3>3. Good(1)
      BY <3>1, <3>2
    <3> QED
      BY <3>1, <3>3
  <2>2. CASE m # 0
    <3>1. m \in 1..N /\ Good(m) /\ m + 1 # 1 /\ (m + 1) - 1 = m
      BY <1>2, <1>6, <2>2
    <3>2. j[m + 1] = j[m] \o seqs[m + 1] /\ seqs[m + 1] \in U
      BY <1>2, <1>3, <3>1
    <3>3. \A k : k \in 1..m + 1 <=> k \in 1..m \/ k = m + 1
      OBVIOUS
    <3>4. j[m + 1] \in U /\ \A x : Holds(j[m + 1], x) <=> Holds(j[m], x) \/ Holds(seqs[m + 1], x)
      BY <1>4, <3>1, <3>2
    <3> QED
      BY <3>1, <3>3, <3>4
  <2> QED
    BY <2>1, <2>2
<1>7. Good(n)
  <2> HIDE DEF S
  <2>1. n \in S
    <3>1. Nat \subseteq S
      BY <1>5, <1>6, NatSetInduction
    <3> QED
      BY <1>1, <1>2, <3>1
  <2> USE DEF S
  <2> QED
    BY <1>1, <2>1
<1> QED
  BY <1>1, <1>7 DEF Holds, AllAreJoined
===============================================================================
