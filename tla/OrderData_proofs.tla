-------------------------- MODULE OrderData_proofs --------------------------
(***************************************************************************)
(* From the fragments of the order data to the documents in it, for every  *)
(* choice of the limits and of the sizes of the pieces the decoders and    *)
(* the extraction work in, and for whatever the bank sends.  The lemmas on *)
(* running sums and on division come first; they are used for the other    *)
(* parts of a response as well.                                            *)
(***************************************************************************)
EXTENDS OrderData, ZipContainer, WellFoundedInduction, TLAPS

-----------------------------------------------------------------------------
(* Sums and selections. *)

(* Induction over positions.  "Less than" on the naturals, as a set of pairs. *)
Below == {p \in Nat \X Nat : p[1] < p[2]}

(* Every set of numbers that is not empty has a least one. *)
LEMMA LeastNumber ==
    ASSUME NEW T, T \subseteq Nat, T # {}
    PROVE  \E x \in T : \A y \in T : x <= y
<1>1. IsWellFoundedOn(Below, Nat)
    BY NatLessThanWellFounded DEF OpToRel, Below
<1>2. PICK x \in T : \A y \in T : ~ (<<y, x>> \in Below)
    BY <1>1, WFMin
<1>3. \A m, n \in Nat : m < n => <<m, n>> \in Below
    BY DEF Below
<1>4. x \in Nat /\ \A y \in T : y \in Nat /\ ~ (y < x)
    BY <1>2, <1>3
<1>5. \A y \in T : x <= y
    BY <1>4
<1> QED BY <1>5

(* What holds at 0, and after each position up to N if it holds before it,    *)
(* holds at all of them.                                                      *)
LEMMA UpTo ==
    ASSUME NEW N \in Nat, NEW T, 0 \in T,
           \A n \in 1..N : n - 1 \in T => n \in T
    PROVE  \A n \in 0..N : n \in T
<1> DEFINE bad == {n \in Nat : n <= N /\ n \notin T}
<1> SUFFICES ASSUME bad # {} PROVE FALSE
    OBVIOUS
<1>1. PICK n \in bad : \A m \in bad : n <= m
    <2>1. bad \subseteq Nat
        OBVIOUS
    <2> HIDE DEF bad
    <2> QED BY <2>1, LeastNumber
<1>2. n \in Nat /\ n # 0 /\ n - 1 \in Nat /\ n <= N
    BY <1>1
<1>3. n - 1 \notin bad
    BY <1>1, <1>2
<1>4. n - 1 \in T
    BY <1>2, <1>3
<1> QED BY <1>1, <1>2, <1>4

(* The running sums are what their definition says, position by position. *)
LEMMA RunningStep ==
    ASSUME NEW s, Len(s) \in Nat
    PROVE  /\ Running(s)[0] = 0
           /\ \A n \in 1..Len(s) : Running(s)[n] = Running(s)[n - 1] + s[n]
<1> DEFINE Is(f, N) == f = [n \in 0..N |-> IF n = 0 THEN 0 ELSE f[n - 1] + s[n]]
           T == {N \in Nat : \E f : Is(f, N)}
<1>1. 0 \in T
  <2>1. Is([n \in 0..0 |-> 0], 0)
      OBVIOUS
  <2> QED BY <2>1
<1>2. ASSUME NEW N \in 1..Len(s), N - 1 \in T
      PROVE  N \in T
  <2>1. PICK g : Is(g, N - 1)
      BY <1>2
  <2> DEFINE f == [n \in 0..N |-> IF n = N THEN g[N - 1] + s[N] ELSE g[n]]
  <2>2. Is(f, N)
      BY <2>1
  <2> HIDE DEF f, Is
  <2>3. \E h : Is(h, N)
      BY <2>2
  <2> QED BY <2>3
<1>3. Len(s) \in T
  <2> HIDE DEF T
  <2>1. \A n \in 0..Len(s) : n \in T
      BY <1>1, <1>2, UpTo
  <2> QED BY <2>1
<1> DEFINE f == CHOOSE sum : sum = [n \in 0..Len(s) |-> IF n = 0 THEN 0 ELSE sum[n - 1] + s[n]]
<1>4. Running(s) = f
    BY DEF Running
<1>5. \E g : g = [n \in 0..Len(s) |-> IF n = 0 THEN 0 ELSE g[n - 1] + s[n]]
    BY <1>3
<1>6. f = [n \in 0..Len(s) |-> IF n = 0 THEN 0 ELSE f[n - 1] + s[n]]
    BY <1>5, Zenon
<1> HIDE DEF f
<1> QED BY <1>4, <1>6

(* Sums of sizes are sizes. *)
LEMMA RunningTyped ==
    ASSUME NEW s \in Seq(Nat)
    PROVE  \A n \in 0..Len(s) : Running(s)[n] \in Nat
<1> DEFINE T == {n \in Nat : Running(s)[n] \in Nat}
<1>0. Len(s) \in Nat
    OBVIOUS
<1>1. 0 \in T
    BY RunningStep, <1>0
<1>2. ASSUME NEW n \in 1..Len(s), n - 1 \in T PROVE n \in T
    BY <1>2, RunningStep, <1>0
<1>3. \A n \in 0..Len(s) : n \in T
  <2> HIDE DEF T
  <2> QED BY <1>0, <1>1, <1>2, UpTo
<1> QED BY <1>3

(* They only grow. *)
LEMMA RunningGrows ==
    ASSUME NEW s \in Seq(Nat), NEW m \in 0..Len(s), NEW n \in 0..Len(s), m <= n
    PROVE  Running(s)[m] <= Running(s)[n]
<1> DEFINE T == {k \in Nat : m <= k => Running(s)[m] <= Running(s)[k]}
<1>0. Len(s) \in Nat /\ \A k \in 0..Len(s) : Running(s)[k] \in Nat
    BY RunningTyped
<1>1. 0 \in T
    BY <1>0
<1>2. ASSUME NEW k \in 1..Len(s), k - 1 \in T PROVE k \in T
  <2>1. Running(s)[k] = Running(s)[k - 1] + s[k] /\ s[k] \in Nat
      BY RunningStep, <1>0
  <2>2. k - 1 \in 0..Len(s) /\ Running(s)[k - 1] \in Nat /\ Running(s)[m] \in Nat
      BY <1>0
  <2>3. m <= k => m <= k - 1 \/ m = k
      OBVIOUS
  <2> QED BY <1>2, <2>1, <2>2, <2>3
<1>3. \A k \in 0..Len(s) : k \in T
  <2> HIDE DEF T
  <2> QED BY <1>0, <1>1, <1>2, UpTo
<1> QED BY <1>3

(* Two sequences that agree up to a position have the same sums up to it. *)
LEMMA RunningAgrees ==
    ASSUME NEW s, NEW t, Len(s) \in Nat, Len(t) \in Nat,
           NEW N \in Nat, N <= Len(s), N <= Len(t),
           \A n \in 1..N : s[n] = t[n]
    PROVE  \A n \in 0..N : Running(s)[n] = Running(t)[n]
<1> DEFINE T == {n \in Nat : Running(s)[n] = Running(t)[n]}
<1>1. 0 \in T
    BY RunningStep
<1>2. ASSUME NEW n \in 1..N, n - 1 \in T PROVE n \in T
  <2>1. n \in 1..Len(s) /\ n \in 1..Len(t)
      OBVIOUS
  <2>2. Running(s)[n] = Running(s)[n - 1] + s[n] /\ Running(t)[n] = Running(t)[n - 1] + t[n]
      BY <2>1, RunningStep
  <2> QED BY <1>2, <2>2
<1>3. \A n \in 0..N : n \in T
  <2> HIDE DEF T
  <2> QED BY <1>1, <1>2, UpTo
<1> QED BY <1>3

(* The facts about the sums of some sizes. *)
LEMMA SumFacts ==
    ASSUME NEW s \in Seq(Nat)
    PROVE  /\ Running(s)[0] = 0
           /\ \A n \in 1..Len(s) : Running(s)[n] = Running(s)[n - 1] + s[n]
           /\ \A n \in 0..Len(s) : Running(s)[n] \in Nat /\ Running(s)[n] <= SumOf(s)
           /\ \A m, n \in 0..Len(s) : m <= n => Running(s)[m] <= Running(s)[n]
           /\ SumOf(s) \in Nat
<1>1. Len(s) \in Nat /\ Len(s) \in 0..Len(s)
    OBVIOUS
<1>2. \A m, n \in 0..Len(s) : m <= n => Running(s)[m] <= Running(s)[n]
    BY RunningGrows
<1>3. \A n \in 0..Len(s) : Running(s)[n] <= Running(s)[Len(s)]
    BY <1>1, <1>2
<1> QED BY <1>1, <1>2, <1>3, RunningStep, RunningTyped DEF SumOf

(* One number more. *)
LEMMA SumAppend ==
    ASSUME NEW s \in Seq(Nat), NEW x \in Nat
    PROVE  SumOf(Append(s, x)) = SumOf(s) + x
<1> DEFINE t == Append(s, x)
<1>1. t \in Seq(Nat) /\ Len(t) = Len(s) + 1 /\ t[Len(s) + 1] = x
      /\ \A n \in 1..Len(s) : t[n] = s[n]
    OBVIOUS
<1> HIDE DEF t
<1>2. Running(s)[Len(s)] = Running(t)[Len(s)]
    <2>1. Len(s) \in Nat /\ Len(t) \in Nat /\ Len(s) <= Len(s) /\ Len(s) <= Len(t)
        BY <1>1
    <2>2. \A n \in 0..Len(s) : Running(s)[n] = Running(t)[n]
        BY <1>1, <2>1, RunningAgrees, Zenon
    <2> QED BY <2>1, <2>2
<1>3. Len(t) \in Nat /\ Len(t) \in 1..Len(t) /\ Len(t) - 1 = Len(s)
    BY <1>1
<1>4. Running(t)[Len(t)] = Running(t)[Len(t) - 1] + t[Len(t)]
    BY <1>3, RunningStep
<1> QED BY <1>1, <1>2, <1>3, <1>4 DEF SumOf, t

-----------------------------------------------------------------------------
(* The same for selections. *)
LEMMA KeepingStep ==
    ASSUME NEW s, NEW S, Len(s) \in Nat
    PROVE  /\ Keeping(s, S)[0] = <<>>
           /\ \A n \in 1..Len(s) :
                  Keeping(s, S)[n] = IF s[n] \in S THEN Append(Keeping(s, S)[n - 1], s[n])
                                     ELSE Keeping(s, S)[n - 1]
<1> DEFINE first == <<>>
           Extend(kept, n) == IF s[n] \in S THEN Append(kept, s[n]) ELSE kept
<1>0. Keeping(s, S) =
        CHOOSE kept : kept = [n \in 0..Len(s) |-> IF n = 0 THEN first ELSE Extend(kept[n - 1], n)]
    BY DEF Keeping
<1> HIDE DEF first, Extend
<1> DEFINE Is(f, N) == f = [n \in 0..N |-> IF n = 0 THEN first ELSE Extend(f[n - 1], n)]
           T == {N \in Nat : \E f : Is(f, N)}
<1>1. 0 \in T
  <2>1. Is([n \in 0..0 |-> first], 0)
      OBVIOUS
  <2> QED BY <2>1
<1>2. ASSUME NEW N \in 1..Len(s), N - 1 \in T
      PROVE  N \in T
  <2>1. PICK g : Is(g, N - 1)
      BY <1>2
  <2> DEFINE f == [n \in 0..N |-> IF n = N THEN Extend(g[N - 1], N) ELSE g[n]]
  <2>2. Is(f, N)
      BY <2>1
  <2> HIDE DEF f, Is
  <2>3. \E h : Is(h, N)
      BY <2>2
  <2> QED BY <2>3
<1>3. Len(s) \in T
  <2> HIDE DEF T
  <2>1. \A n \in 0..Len(s) : n \in T
      BY <1>1, <1>2, UpTo
  <2> QED BY <2>1
<1> DEFINE k == Keeping(s, S)
<1>4. \E g : g = [n \in 0..Len(s) |-> IF n = 0 THEN first ELSE Extend(g[n - 1], n)]
    BY <1>3
<1>5. k = [n \in 0..Len(s) |-> IF n = 0 THEN first ELSE Extend(k[n - 1], n)]
    BY <1>0, <1>4, Zenon
<1> HIDE DEF k
<1>6. k[0] = first /\ \A n \in 1..Len(s) : k[n] = Extend(k[n - 1], n)
    BY <1>5
<1> QED BY <1>6, Zenon DEF k, first, Extend

(* The elements of a sequence with one more. *)
LEMMA AppendElements ==
    ASSUME NEW A, NEW s \in Seq(A), NEW x \in A
    PROVE  /\ Append(s, x) \in Seq(A)
           /\ ToSet(Append(s, x)) = ToSet(s) \cup {x}
<1> DEFINE t == Append(s, x)
<1>1. t \in Seq(A) /\ Len(t) = Len(s) + 1 /\ t[Len(s) + 1] = x
      /\ \A n \in 1..Len(s) : t[n] = s[n]
    OBVIOUS
<1>2. DOMAIN s = 1..Len(s) /\ DOMAIN t = 1..(Len(s) + 1) /\ Len(s) \in Nat
    BY <1>1
<1> HIDE DEF t
<1>3. ASSUME NEW y \in ToSet(t) PROVE y \in ToSet(s) \cup {x}
    BY <1>1, <1>2 DEF ToSet
<1>4. ASSUME NEW y \in ToSet(s) PROVE y \in ToSet(t)
    BY <1>1, <1>2 DEF ToSet
<1>5. x \in ToSet(t)
    BY <1>1, <1>2 DEF ToSet
<1> QED BY <1>1, <1>3, <1>4, <1>5 DEF t

(* A selection holds exactly the elements in S. *)
LEMMA KeepElements ==
    ASSUME NEW A, NEW s \in Seq(A), NEW S
    PROVE  /\ Keep(s, S) \in Seq(A)
           /\ ToSet(Keep(s, S)) = ToSet(s) \cap S
<1> DEFINE k == Keeping(s, S)
           T == {n \in Nat : k[n] \in Seq(A) /\ ToSet(k[n]) = {s[i] : i \in 1..n} \cap S}
<1>0. Len(s) \in Nat
    OBVIOUS
<1>4. /\ k[0] = <<>>
      /\ \A n \in 1..Len(s) : k[n] = IF s[n] \in S THEN Append(k[n - 1], s[n]) ELSE k[n - 1]
    BY <1>0, KeepingStep
<1> HIDE DEF k
<1>1. 0 \in T
  <2>1. <<>> \in Seq(A) /\ ToSet(<<>>) = {}
      BY DEF ToSet
  <2>2. {s[i] : i \in 1..0} = {}
      OBVIOUS
  <2> QED BY <1>4, <2>1, <2>2
<1>2. ASSUME NEW n \in 1..Len(s), n - 1 \in T PROVE n \in T
  <2>1. {s[i] : i \in 1..n} = {s[i] : i \in 1..(n - 1)} \cup {s[n]}
    <3>1. \A i \in 1..n : i \in 1..(n - 1) \/ i = n
        OBVIOUS
    <3>2. 1..(n - 1) \subseteq 1..n /\ n \in 1..n
        OBVIOUS
    <3> QED BY <3>1, <3>2
  <2>2. CASE s[n] \in S
    <3>1. k[n] = Append(k[n - 1], s[n])
        BY <1>4, <2>2, Zenon
    <3>4. s[n] \in A
        OBVIOUS
    <3>2. k[n - 1] \in Seq(A) /\ ToSet(k[n - 1]) = {s[i] : i \in 1..(n - 1)} \cap S
        BY <1>2
    <3>3. k[n] \in Seq(A) /\ ToSet(k[n]) = ToSet(k[n - 1]) \cup {s[n]}
      <4> DEFINE p == k[n - 1]
                 x == s[n]
      <4>1. p \in Seq(A) /\ x \in A
          BY <3>2, <3>4
      <4> HIDE DEF p, x
      <4>2. Append(p, x) \in Seq(A) /\ ToSet(Append(p, x)) = ToSet(p) \cup {x}
          BY <4>1, AppendElements
      <4> QED BY <3>1, <4>2, Zenon DEF p, x
    <3> QED BY <2>1, <2>2, <3>2, <3>3
  <2>3. CASE s[n] \notin S
    <3>1. k[n] = k[n - 1]
        BY <1>4, <2>3
    <3> QED BY <2>1, <2>3, <3>1, <1>2
  <2> QED BY <2>2, <2>3
<1>3. Len(s) \in T
  <2> HIDE DEF T
  <2>1. \A n \in 0..Len(s) : n \in T
      BY <1>0, <1>1, <1>2, UpTo
  <2> QED BY <2>1, <1>0
<1>5. ToSet(s) = {s[i] : i \in 1..Len(s)}
    BY DEF ToSet
<1> QED BY <1>3, <1>5 DEF Keep, k

(* The elements of two sequences in a row. *)
LEMMA ConcatElements ==
    ASSUME NEW A, NEW s \in Seq(A), NEW t \in Seq(A)
    PROVE  /\ s \o t \in Seq(A)
           /\ ToSet(s \o t) = ToSet(s) \cup ToSet(t)
<1> DEFINE u == s \o t
<1>1. u \in Seq(A) /\ Len(u) = Len(s) + Len(t)
      /\ (\A n \in 1..Len(s) : u[n] = s[n])
      /\ \A n \in 1..Len(t) : u[Len(s) + n] = t[n]
    OBVIOUS
<1>2. DOMAIN s = 1..Len(s) /\ DOMAIN t = 1..Len(t) /\ DOMAIN u = 1..(Len(s) + Len(t))
      /\ Len(s) \in Nat /\ Len(t) \in Nat
    BY <1>1
<1> HIDE DEF u
<1>3. ASSUME NEW n \in DOMAIN u PROVE u[n] \in ToSet(s) \cup ToSet(t)
  <2>1. CASE n <= Len(s)
      BY <1>1, <1>2, <2>1 DEF ToSet
  <2>2. CASE ~(n <= Len(s))
    <3>1. n - Len(s) \in 1..Len(t) /\ Len(s) + (n - Len(s)) = n
        BY <1>2, <2>2
    <3>2. u[n] = t[n - Len(s)]
        BY <1>1, <3>1
    <3> QED BY <1>2, <3>1, <3>2 DEF ToSet
  <2> QED BY <2>1, <2>2
<1>4. ASSUME NEW n \in 1..Len(s) PROVE s[n] \in ToSet(u)
  <2>1. n \in DOMAIN u /\ u[n] = s[n]
      BY <1>1, <1>2
  <2> QED BY <2>1 DEF ToSet
<1>5. ASSUME NEW n \in 1..Len(t) PROVE t[n] \in ToSet(u)
  <2>1. Len(s) + n \in DOMAIN u /\ u[Len(s) + n] = t[n]
      BY <1>1, <1>2
  <2> QED BY <2>1 DEF ToSet
<1>6. ToSet(u) \subseteq ToSet(s) \cup ToSet(t)
    BY <1>3 DEF ToSet
<1>7. ToSet(s) \subseteq ToSet(u) /\ ToSet(t) \subseteq ToSet(u)
    BY <1>2, <1>4, <1>5 DEF ToSet
<1> QED BY <1>1, <1>6, <1>7 DEF u

(* The elements of a sequence of sequences in a row. *)
LEMMA FlattenElements ==
    ASSUME NEW A, NEW q \in Seq(Seq(A))
    PROVE  /\ FlattenSeq(q) \in Seq(A)
           /\ ToSet(FlattenSeq(q)) = UNION {ToSet(q[i]) : i \in 1..Len(q)}
<1>0. Len(q) \in Nat
    OBVIOUS
<1>1. CASE Len(q) = 0
  <2>1. q = <<>> /\ FlattenSeq(q) = q
      BY <1>1 DEF FlattenSeq
  <2>2. <<>> \in Seq(A) /\ ToSet(<<>>) = {}
      BY DEF ToSet
  <2>3. UNION {ToSet(q[i]) : i \in 1..Len(q)} = {}
      BY <1>1
  <2> QED BY <2>1, <2>2, <2>3
<1>2. CASE Len(q) # 0
  <2> DEFINE Join(f, n) == f \o q[n]
             k == CHOOSE f : f = [n \in 1..Len(q) |-> IF n = 1 THEN q[n] ELSE f[n - 1] \o q[n]]
  <2>0. FlattenSeq(q) = k[Len(q)]
      BY <1>2 DEF FlattenSeq
  <2>1. k = CHOOSE f : f = [n \in 1..Len(q) |-> IF n = 1 THEN q[n] ELSE Join(f[n - 1], n)]
      OBVIOUS
  <2> HIDE DEF k, Join
  <2> DEFINE Is(f, N) == f = [n \in 1..N |-> IF n = 1 THEN q[n] ELSE Join(f[n - 1], n)]
             T == {N \in Nat : \E f : Is(f, N)}
  <2>2. 0 \in T
    <3>1. Is([n \in 1..0 |-> 0], 0)
        OBVIOUS
    <3> QED BY <3>1
  <2>3. ASSUME NEW N \in 1..Len(q), N - 1 \in T
        PROVE  N \in T
    <3>1. PICK g : Is(g, N - 1)
        BY <2>3
    <3> DEFINE f == [n \in 1..N |-> IF n = N THEN IF n = 1 THEN q[n] ELSE Join(g[N - 1], N)
                                    ELSE g[n]]
    <3>2. Is(f, N)
        BY <3>1
    <3> HIDE DEF f, Is
    <3>3. \E h : Is(h, N)
        BY <3>2
    <3> QED BY <3>3
  <2>4. Len(q) \in T
    <3> HIDE DEF T
    <3>1. \A n \in 0..Len(q) : n \in T
        BY <1>0, <2>2, <2>3, UpTo
    <3> QED BY <1>0, <3>1
  <2>5. \E g : g = [n \in 1..Len(q) |-> IF n = 1 THEN q[n] ELSE Join(g[n - 1], n)]
      BY <2>4
  <2>6. k = [n \in 1..Len(q) |-> IF n = 1 THEN q[n] ELSE Join(k[n - 1], n)]
      BY <2>1, <2>5, Zenon
  <2>7. k[1] = q[1] /\ \A n \in 2..Len(q) : k[n] = Join(k[n - 1], n)
    <3>1. 1 \in 1..Len(q) /\ \A n \in 2..Len(q) : n \in 1..Len(q) /\ n # 1
        BY <1>0, <1>2
    <3>2. \A n \in 1..Len(q) : k[n] = IF n = 1 THEN q[n] ELSE Join(k[n - 1], n)
        BY <2>6, Zenon
    <3> QED BY <3>1, <3>2, Zenon
  <2> DEFINE Elements(n) == UNION {ToSet(q[i]) : i \in 1..n}
             R == {n \in Nat : n = 0 \/ (k[n] \in Seq(A) /\ ToSet(k[n]) = Elements(n))}
  <2>8. ASSUME NEW n \in 1..Len(q), n - 1 \in R
        PROVE  n \in R
    <3>1. Elements(n) = Elements(n - 1) \cup ToSet(q[n])
      <4>1. \A i \in 1..n : i \in 1..(n - 1) \/ i = n
          OBVIOUS
      <4>2. 1..(n - 1) \subseteq 1..n /\ n \in 1..n
          OBVIOUS
      <4> QED BY <4>1, <4>2
    <3>2. q[n] \in Seq(A)
        OBVIOUS
    <3>3. CASE n = 1
      <4>1. Elements(0) = {}
          OBVIOUS
      <4>2. k[1] \in Seq(A) /\ ToSet(k[1]) = ToSet(q[1]) /\ Elements(1) = ToSet(q[1])
          BY <2>7, <3>1, <3>2, <3>3, <4>1, SMTT(30)
      <4> QED BY <3>3, <4>2
    <3>4. CASE n # 1
      <4> DEFINE p == k[n - 1]
                 x == q[n]
      <4>1. p \in Seq(A) /\ ToSet(p) = Elements(n - 1)
          BY <2>8, <3>4
      <4>2. k[n] = Join(k[n - 1], n)
          BY <2>7, <3>4
      <4>3. k[n] = p \o x
          BY <4>2, Zenon DEF Join
      <4> HIDE DEF p, Elements
      <4>4. x \in Seq(A)
          BY <3>2
      <4> HIDE DEF x
      <4>5. p \o x \in Seq(A) /\ ToSet(p \o x) = ToSet(p) \cup ToSet(x)
          BY <4>1, <4>4, ConcatElements
      <4>6. k[n] \in Seq(A) /\ ToSet(k[n]) = Elements(n)
          BY <3>1, <4>1, <4>3, <4>5, Zenon DEF x
      <4> QED BY <4>6
    <3> QED BY <3>3, <3>4
  <2>9. Len(q) \in R
    <3>1. 0 \in R
        OBVIOUS
    <3> HIDE DEF R
    <3>2. \A n \in 0..Len(q) : n \in R
        BY <1>0, <2>8, <3>1, UpTo
    <3> QED BY <1>0, <3>2
  <2> QED BY <1>2, <2>0, <2>9
<1> QED BY <1>1, <1>2

(* The elements of a sequence over S are in S. *)
LEMMA ElementTyped ==
    ASSUME NEW S, NEW s \in Seq(S), NEW n \in 1..Len(s)
    PROVE  s[n] \in S
OBVIOUS

(* A sequence written position by position. *)
LEMMA SequenceOf ==
    ASSUME NEW S, NEW N \in Nat, NEW s \in [1..N -> S]
    PROVE  s \in Seq(S) /\ Len(s) = N
OBVIOUS

(* A sum is bounded if it is wherever a number was added to it. *)
LEMMA RunningBounded ==
    ASSUME NEW s \in Seq(Nat), NEW M \in Nat,
           \A n \in 1..Len(s) : s[n] # 0 => Running(s)[n] <= M
    PROVE  \A n \in 0..Len(s) : Running(s)[n] <= M
<1> DEFINE T == {n \in Nat : Running(s)[n] <= M}
<1>0. /\ Len(s) \in Nat /\ Running(s)[0] = 0
      /\ \A n \in 1..Len(s) : Running(s)[n] = Running(s)[n - 1] + s[n]
      /\ \A n \in 0..Len(s) : Running(s)[n] \in Nat
    BY SumFacts
<1>1. 0 \in T
    BY <1>0
<1>2. ASSUME NEW n \in 1..Len(s), n - 1 \in T PROVE n \in T
  <2>1. s[n] \in Nat /\ n - 1 \in 0..Len(s) /\ Running(s)[n - 1] \in Nat
      BY <1>0
  <2>2. CASE s[n] = 0
      BY <1>0, <1>2, <2>1, <2>2
  <2>3. CASE s[n] # 0
      BY <2>3
  <2> QED BY <2>2, <2>3
<1>3. \A n \in 0..Len(s) : n \in T
  <2> HIDE DEF T
  <2> QED BY <1>0, <1>1, <1>2, UpTo
<1> QED BY <1>3

-----------------------------------------------------------------------------
(* Multiplication and division. *)

(* Multiplication by a positive number keeps the order. *)
LEMMA TimesGrows ==
    ASSUME NEW C \in Nat \ {0}, NEW p \in Int, NEW q \in Int
    PROVE  /\ p * C \in Int
           /\ p < q <=> p * C < q * C
           /\ (p + 1) * C = p * C + C
           /\ (p + q) * C = p * C + q * C
<1>1. p * C \in Int /\ q * C \in Int /\ (p + 1) * C = p * C + C /\ (p + q) * C = p * C + q * C
    OBVIOUS
<1>2. ASSUME p < q PROVE p * C < q * C
  <2>1. q - p >= 1 /\ q - p \in Int
      BY <1>2
  <2>2. (q - p) * C >= 1 * C
      BY <2>1
  <2>3. (q - p) * C = q * C - p * C
      OBVIOUS
  <2> QED BY <1>1, <2>2, <2>3
<1>3. ASSUME p >= q PROVE p * C >= q * C
  <2>1. p - q >= 0 /\ p - q \in Int
      BY <1>3
  <2>2. (p - q) * C >= 0
      BY <2>1
  <2>3. (p - q) * C = p * C - q * C
      OBVIOUS
  <2> QED BY <1>1, <2>2, <2>3
<1> QED BY <1>1, <1>2, <1>3

(* Quotient and remainder of a division by a positive number. *)
LEMMA DivisionFacts ==
    ASSUME NEW C \in Nat \ {0}, NEW a \in Int
    PROVE  /\ a \div C \in Int /\ a % C \in 0..(C - 1)
           /\ a = (a \div C) * C + (a % C)
OBVIOUS

(* Quotient and remainder are the only ones. *)
LEMMA DivisionUnique ==
    ASSUME NEW C \in Nat \ {0}, NEW a \in Int, NEW q \in Int, NEW r \in 0..(C - 1),
           a = q * C + r
    PROVE  a \div C = q /\ a % C = r
<1> DEFINE d == a \div C
           m == a % C
<1>1. d \in Int /\ m \in 0..(C - 1) /\ a = d * C + m
    BY DivisionFacts
<1> HIDE DEF d, m
<1>2. ~(d < q)
  <2> SUFFICES ASSUME d < q PROVE FALSE
      OBVIOUS
  <2>1. d + 1 <= q /\ d + 1 \in Int
      BY <1>1
  <2>2. d + 1 = q \/ d + 1 < q
      BY <1>1, <2>1
  <2>3. (d + 1) * C <= q * C
      BY <1>1, <2>1, <2>2, TimesGrows
  <2>4. (d + 1) * C = d * C + C /\ d * C \in Int /\ q * C \in Int
      BY <1>1, TimesGrows
  <2> QED BY <1>1, <2>3, <2>4
<1>3. ~(q < d)
  <2> SUFFICES ASSUME q < d PROVE FALSE
      OBVIOUS
  <2>1. q + 1 <= d /\ q + 1 \in Int
      BY <1>1
  <2>2. q + 1 = d \/ q + 1 < d
      BY <1>1, <2>1
  <2>3. (q + 1) * C <= d * C
      BY <1>1, <2>1, <2>2, TimesGrows
  <2>4. (q + 1) * C = q * C + C /\ d * C \in Int /\ q * C \in Int
      BY <1>1, TimesGrows
  <2> QED BY <1>1, <2>3, <2>4
<1>4. d = q
    BY <1>1, <1>2, <1>3
<1>5. m = r
  <2>1. q * C \in Int
      BY TimesGrows
  <2> QED BY <1>1, <1>4, <2>1
<1> QED BY <1>4, <1>5 DEF d, m

(* Whole multiples do not change the remainder. *)
LEMMA RemainderShift ==
    ASSUME NEW C \in Nat \ {0}, NEW x \in Int, NEW y \in Int, x % C = 0
    PROVE  (x + y) % C = y % C
<1> DEFINE p == x \div C
           q == y \div C
           r == y % C
<1>1. p \in Int /\ x = p * C + 0
    BY DivisionFacts
<1>2. q \in Int /\ r \in 0..(C - 1) /\ y = q * C + r
    BY DivisionFacts
<1> HIDE DEF p, q, r
<1>3. (p + q) * C = p * C + q * C /\ p * C \in Int /\ q * C \in Int
    BY <1>1, <1>2, TimesGrows
<1>4. x + y = (p + q) * C + r
    BY <1>1, <1>2, <1>3
<1>5. x + y \in Int /\ p + q \in Int
    BY <1>1, <1>2
<1>6. (x + y) % C = r
    BY <1>2, <1>4, <1>5, DivisionUnique
<1> QED BY <1>6 DEF r

-----------------------------------------------------------------------------
(* The buffers of the decoders. *)

(* Ciphertext of n compressed bytes: E002 pads to the next block, and by a    *)
(* whole block where n fills one.  Base64 turns three bytes into four         *)
(* characters.                                                                *)
Encrypted(n) == n + AesBlock - (n % AesBlock)
Encoded(n) == ((n + 2) \div 3) * 4

(* The constants are positive. *)
LEMMA ConstantsPositive ==
    /\ MaxCompressed \in Nat /\ MaxCompressed > 0
    /\ MaxDecompressed \in Nat /\ MaxDecompressed > 0
    /\ MaxXmlInput \in Nat /\ MaxSegment \in Nat
    /\ Base64Chunk \in Nat /\ Base64Chunk > 0
    /\ InflateChunk \in Nat /\ AesBlock \in Nat /\ AesBlock > 0
BY LimitsPositive, OrderDataLimits

(* _encoded_order_data_limit and the limit on the ciphertext admit every      *)
(* amount of compressed data the limit on it admits: no download within       *)
(* max_compressed_bytes is refused for the size of its encoded form.          *)
THEOREM EncodedLimitAdmits ==
    \A n \in 1..MaxCompressed :
        /\ Encrypted(n) <= MaxCompressed + AesBlock
        /\ Encoded(Encrypted(n)) <= encoded_order_data_limit
<1> SUFFICES ASSUME NEW n \in 1..MaxCompressed
             PROVE  /\ Encrypted(n) <= MaxCompressed + AesBlock
                    /\ Encoded(Encrypted(n)) <= encoded_order_data_limit
    OBVIOUS
<1>1. n % AesBlock \in 0..(AesBlock - 1)
    BY ConstantsPositive
<1>2. Encrypted(n) \in Int /\ Encrypted(n) <= MaxCompressed + AesBlock
    BY <1>1, ConstantsPositive DEF Encrypted
<1>3. ASSUME NEW a \in Int, NEW b \in Int, a <= b
      PROVE  (a \div 3) * 4 <= (b \div 3) * 4
    BY <1>3
<1>4. Encoded(Encrypted(n)) <= encoded_order_data_limit
    BY <1>2, <1>3, ConstantsPositive DEF Encoded, encoded_order_data_limit
<1> QED BY <1>2, <1>4

-----------------------------------------------------------------------------
(* The bounds of the buffers. *)

Steps == {"collect", "decode", "feed", "inflate", "expanded", "refused", "stopped"}

BufferTypes ==
    /\ order \in OrderForms
    /\ step \in Steps
    /\ frag \in 0..Len(order.fragments)
    /\ encoded \in Int /\ pending \in Int /\ ciphertext \in Int /\ block \in Int
    /\ compressed \in Int /\ offset \in Int /\ result \in Int

(* A fragment is taken for decoding only after its size was checked. *)
TakenChecked ==
    step \notin {"refused", "stopped"} =>
        \A n \in 1..Len(order.fragments) :
            (step = "collect" => n <= frag) => order.fragments[n].size <= MaxSegment

(* What the checks after each piece have established. *)
WithinBefore ==
    /\ step = "collect" /\ frag < Len(order.fragments) =>
           encoded <= encoded_order_data_limit
    /\ step \in {"collect", "feed"} => compressed <= MaxCompressed
    /\ step \in {"collect", "decode", "feed", "inflate"} => result <= OutputLimit

BufferInv == BufferTypes /\ TakenChecked /\ WithinBefore /\ BuffersBounded

(* The limits that are computed from others are integers. *)
LEMMA ComputedLimits ==
    ASSUME order \in OrderForms
    PROVE  /\ encoded_order_data_limit \in Nat
           /\ OutputLimit \in Nat
BY ConstantsPositive DEF encoded_order_data_limit, OutputLimit, Least

(* What iter_decrypt_e002 leaves is less than two blocks, and it decrypts no  *)
(* more than it has, less the block it keeps.                                 *)
LEMMA HeldBack ==
    ASSUME NEW held \in Int
    PROVE  /\ Decryptable(held) \in Int
           /\ held - Decryptable(held) < 2 * AesBlock
           /\ held >= AesBlock => Decryptable(held) <= held - AesBlock
           /\ held < AesBlock => Decryptable(held) = 0
<1>1. held % AesBlock \in 0..(AesBlock - 1)
    BY ConstantsPositive
<1> QED BY <1>1, ConstantsPositive DEF Decryptable

(* Decoding shrinks. *)
LEMMA DecodedBounded ==
    ASSUME NEW characters \in Int, NEW pad \in Nat, characters <= Base64Chunk
    PROVE  Decoded(characters, pad) \in Int /\ Decoded(characters, pad) <= Base64Chunk
<1>1. (characters \div 4) * 3 <= Base64Chunk
    BY ConstantsPositive
<1> QED BY <1>1, ConstantsPositive DEF Decoded

(* The fragments are what the bank sent: a size and at most two "=". *)
LEMMA FragmentTyped ==
    ASSUME order \in OrderForms, NEW n \in 1..Len(order.fragments)
    PROVE  order.fragments[n].size \in Nat /\ order.fragments[n].pad \in Nat
<1>1. order.fragments \in Seq([size: Nat, pad: 0..2, clean: BOOLEAN])
    BY DEF OrderForms
<1>2. order.fragments[n] \in [size: Nat, pad: 0..2, clean: BOOLEAN]
    BY <1>1, ElementTyped
<1> QED BY <1>2

(* Nothing is held before the first fragment. *)
LEMMA BufferInit == (\E o \in OrderForms : OrderInit(o)) => BufferInv
<1> SUFFICES ASSUME NEW o \in OrderForms, OrderInit(o)
             PROVE  BufferInv
    OBVIOUS
<1>1. BufferTypes
    BY DEF OrderInit, BufferTypes, Steps, OrderForms
<1> QED
    BY <1>1, ComputedLimits, ConstantsPositive
    DEF OrderInit, BufferInv, BufferTypes, TakenChecked, WithinBefore, BuffersBounded

(* Every step of the decoders keeps every buffer within its bound. *)
LEMMA BufferNext == BufferInv /\ [DecodingStep]_orderVars => BufferInv'
<1> SUFFICES ASSUME BufferInv, [DecodingStep]_orderVars
             PROVE  BufferInv'
    OBVIOUS
<1> USE DEF BufferInv
<1>0. /\ encoded_order_data_limit \in Nat /\ OutputLimit \in Nat
      /\ order.fragments \in Seq([size: Nat, pad: 0..2, clean: BOOLEAN])
      /\ Len(order.fragments) \in Nat /\ Len(order.fragments) > 0
      /\ order.aesPad \in Nat
    BY ComputedLimits DEF BufferTypes, OrderForms
<1>1. CASE Collect
  <2> DEFINE f == order.fragments[frag + 1]
             last == frag + 1 = Len(order.fragments)
  <2>1. f.size \in Nat
    <3>1. frag + 1 \in 1..Len(order.fragments)
        BY <1>0, <1>1 DEF Collect, Fragments, BufferTypes
    <3> QED BY <3>1, FragmentTyped DEF BufferTypes
  <2>2. order' = order /\ frag' = frag + 1 /\ step' \in {"refused", "collect"}
        /\ frag < Len(order.fragments) /\ step = "collect"
        /\ UNCHANGED <<pending, ciphertext, block, compressed, offset, result>>
      BY <1>1 DEF Collect, Refuse, Fragments
  <2>3. encoded' = IF FragmentValid(f, last) THEN encoded + f.size ELSE encoded
      BY <1>1 DEF Collect, Fragments
  <2>4. step' = "collect" =>
          /\ FragmentValid(f, last)
          /\ ~last => encoded + f.size <= encoded_order_data_limit
      <3>1. step' = IF \/ ~FragmentValid(f, last)
                       \/ /\ encoded + f.size > encoded_order_data_limit
                          /\ order.kind = "btd" \/ ~last
                    THEN "refused" ELSE "collect"
          BY <1>1 DEF Collect, Refuse, Fragments, LimitCollected
      <3>2. encoded + f.size \in Int
          BY <1>0, <2>1 DEF BufferTypes
      <3> HIDE DEF f, BufferInv
      <3> QED BY <1>0, <3>1, <3>2
  <2>5. FragmentValid(f, last) => f.size <= MaxSegment
      BY <2>1, ConstantsPositive DEF FragmentValid
  <2>6. BufferTypes'
      BY <2>1, <2>2, <2>3, <1>0 DEF BufferTypes, Steps
  <2>7. TakenChecked'
      BY <2>2, <2>4, <2>5, <1>0 DEF TakenChecked, BufferTypes
  <2>8. encoded' <= encoded_order_data_limit + MaxSegment
    <3>1. encoded \in Int /\ encoded <= encoded_order_data_limit
        BY <2>2 DEF WithinBefore, BufferTypes
    <3>2. encoded' = encoded \/ (encoded' = encoded + f.size /\ f.size <= MaxSegment)
        BY <2>3, <2>5
    <3> HIDE DEF f, BufferInv
    <3> QED BY <1>0, <2>1, <3>1, <3>2, ConstantsPositive
  <2>9. WithinBefore'
      BY <2>1, <2>2, <2>3, <2>4, <1>0 DEF WithinBefore, BufferTypes, OutputLimit
  <2> QED BY <2>2, <2>6, <2>7, <2>8, <2>9 DEF BuffersBounded, OutputLimit
<1>2. CASE BeginDecoding
  <2>1. /\ step = "collect" /\ frag = Len(order.fragments) /\ frag' = 0
        /\ step' \in {"refused", "feed", "decode"}
        /\ UNCHANGED <<order, encoded, pending, ciphertext, block, compressed, offset, result>>
      BY <1>2 DEF BeginDecoding, Refuse, Fragments
  <2> QED
      BY <2>1, <1>0 DEF BufferTypes, Steps, TakenChecked, WithinBefore, BuffersBounded,
                        OutputLimit
<1>3. CASE DecodeWhole
  <2> DEFINE pad == order.fragments[Len(order.fragments)].pad
             size == Decoded(encoded, pad)
  <2>1. pad \in Nat /\ size \in Int
      <3>1. Len(order.fragments) \in 1..Len(order.fragments)
          BY <1>0
      <3>2. pad \in Nat
          BY <3>1, FragmentTyped DEF BufferTypes
      <3> QED BY <3>2 DEF Decoded, BufferTypes
  <2>2. /\ step = "decode" /\ step' \in {"refused", "inflate"} /\ ciphertext' = size
        /\ UNCHANGED <<order, frag, encoded, pending, block, offset, result>>
        /\ \/ compressed' = 0
           \/ size <= MaxCompressed + AesBlock /\ compressed' = size - order.aesPad
      BY <1>3, <2>1, ConstantsPositive DEF DecodeWhole, Refuse, Fragments, Padding
  <2>3. compressed' \in Int /\ compressed' <= MaxCompressed + Base64Chunk + 2 * AesBlock
      BY <2>1, <2>2, <1>0, ConstantsPositive
  <2> QED
      BY <2>1, <2>2, <2>3 DEF BufferTypes, Steps, TakenChecked, WithinBefore, BuffersBounded,
                         OutputLimit
<1>4. CASE TakeFragment
  <2>1. /\ step = "feed" /\ frag < Len(order.fragments) /\ pending <= Base64Chunk
        /\ frag' = frag + 1 /\ pending' = pending + order.fragments[frag + 1].size
        /\ UNCHANGED <<order, step, encoded, ciphertext, block, compressed, offset, result>>
      BY <1>4 DEF TakeFragment, Fragments
  <2>2. order.fragments[frag + 1].size \in Nat
    <3>1. frag + 1 \in 1..Len(order.fragments)
        BY <1>0, <2>1 DEF BufferTypes
    <3> QED BY <3>1, FragmentTyped DEF BufferTypes
  <2>3. order.fragments[frag + 1].size <= MaxSegment
      BY <1>0, <2>1 DEF BufferTypes, TakenChecked
  <2>4. pending' \in Int /\ pending' <= Base64Chunk + MaxSegment
      BY <2>1, <2>2, <2>3, ConstantsPositive DEF BufferTypes
  <2> QED
      BY <2>1, <2>4, <1>0 DEF BufferTypes, TakenChecked, WithinBefore, BuffersBounded,
                              OutputLimit
<1>5. CASE DecodeChunk
  <2>1. /\ step = "feed" /\ pending' = pending - Base64Chunk
        /\ step' \in {"refused", "feed"}
        /\ UNCHANGED <<order, frag, encoded, offset, result>>
      BY <1>5 DEF DecodeChunk, Refuse
  <2>2. CASE UNCHANGED <<ciphertext, block, compressed>>
      BY <2>1, <2>2, ConstantsPositive
      DEF BufferTypes, Steps, TakenChecked, WithinBefore, BuffersBounded, OutputLimit
  <2>3. CASE /\ Feed(Decoded(Base64Chunk, 0))
             /\ Refuse(\/ ciphertext' > MaxCompressed + AesBlock
                       \/ compressed' > MaxCompressed, "feed")
    <3> DEFINE bytes == Decoded(Base64Chunk, 0)
               held == block + bytes
    <3>1. bytes \in Int /\ bytes <= Base64Chunk
        BY DecodedBounded, ConstantsPositive
    <3>2. held \in Int /\ held < Base64Chunk + 2 * AesBlock
        BY <3>1, ConstantsPositive DEF BufferTypes, BuffersBounded
    <3>3. /\ Decryptable(held) \in Int
          /\ held - Decryptable(held) < 2 * AesBlock
          /\ Decryptable(held) <= Base64Chunk + 2 * AesBlock
        BY <3>2, HeldBack, ConstantsPositive
    <3>4. /\ ciphertext' = ciphertext + bytes
          /\ \/ UNCHANGED <<block, compressed>>
             \/ /\ block' = held - Decryptable(held)
                /\ compressed' = compressed + Decryptable(held)
        BY <2>3 DEF Feed
    <3>5. /\ ciphertext' \in Int /\ block' \in Int /\ compressed' \in Int
          /\ block' < 2 * AesBlock
          /\ compressed' <= MaxCompressed + Base64Chunk + 2 * AesBlock
      <4>1. /\ ciphertext \in Int /\ block \in Int /\ compressed \in Int
            /\ compressed <= MaxCompressed /\ block < 2 * AesBlock
          BY <2>1 DEF BufferTypes, WithinBefore, BuffersBounded
      <4> DEFINE taken == Decryptable(held)
      <4>2. /\ held - taken < 2 * AesBlock /\ taken \in Int
            /\ taken <= Base64Chunk + 2 * AesBlock
          BY <3>3
      <4> HIDE DEF bytes, held, taken
      <4>3. /\ ciphertext' = ciphertext + bytes
            /\ \/ block' = block /\ compressed' = compressed
               \/ block' = held - taken /\ compressed' = compressed + taken
          BY <3>4 DEF taken
      <4> QED BY <4>1, <4>2, <4>3, <3>1, <3>2, ConstantsPositive
    <3>6. step' = "feed" => compressed' <= MaxCompressed
        BY <2>3, <3>5, ConstantsPositive DEF Refuse
    <3> QED
        BY <2>1, <3>5, <3>6, ConstantsPositive
        DEF BufferTypes, Steps, TakenChecked, WithinBefore, BuffersBounded, OutputLimit
  <2> QED BY <1>5, <2>2, <2>3 DEF DecodeChunk
<1>6. CASE DecodeLast
  <2> DEFINE pad == order.fragments[Len(order.fragments)].pad
             bytes == Decoded(pending, pad)
             held == block + bytes
             final == held - Decryptable(held)
             size == compressed + Decryptable(held) + (AesBlock - order.aesPad)
  <2>1. pad \in Nat /\ pending \in Int
    <3>1. Len(order.fragments) \in 1..Len(order.fragments)
        BY <1>0
    <3> QED BY <3>1, FragmentTyped DEF BufferTypes
  <2>2. pending <= Base64Chunk
      BY <1>6, ConstantsPositive DEF DecodeLast, HasFullChunk, BufferTypes
  <2>3. bytes \in Int /\ bytes <= Base64Chunk
    <3> HIDE DEF pad
    <3> QED BY <2>1, <2>2, DecodedBounded
  <2>4. held \in Int /\ held < Base64Chunk + 2 * AesBlock
      BY <2>3, ConstantsPositive DEF BufferTypes, BuffersBounded
  <2>5. /\ Decryptable(held) \in Int /\ final < 2 * AesBlock
        /\ final = AesBlock => Decryptable(held) <= held - AesBlock
      BY <2>4, HeldBack, ConstantsPositive
  <2>6. /\ step = "feed" /\ step' \in {"refused", "inflate"} /\ pending' = 0
        /\ ciphertext' = ciphertext + bytes /\ block' = final
        /\ \/ compressed' = compressed
           \/ final = AesBlock /\ compressed' = size
        /\ UNCHANGED <<order, frag, encoded, offset, result>>
      BY <1>6 DEF DecodeLast, Refuse, Fragments, Padding
  <2>7. compressed' \in Int /\ compressed' <= MaxCompressed + Base64Chunk + 2 * AesBlock
    <3>1. compressed \in Int /\ compressed <= MaxCompressed /\ order.aesPad \in Nat
        BY <2>6, <1>0 DEF BufferTypes, WithinBefore
    <3> DEFINE taken == Decryptable(held)
    <3>2. /\ taken \in Int
          /\ \/ compressed' = compressed
             \/ /\ taken <= held - AesBlock
                /\ compressed' = compressed + taken + (AesBlock - order.aesPad)
        BY <2>5, <2>6
    <3> HIDE DEF held, taken
    <3> QED BY <3>1, <3>2, <2>4, ConstantsPositive
  <2>8. /\ ciphertext' \in Int /\ block' \in Int /\ pending' \in Int
        /\ block' < 2 * AesBlock /\ pending' <= Base64Chunk + MaxSegment
    <3> HIDE DEF bytes
    <3>1. ciphertext \in Int /\ bytes \in Int
        BY <2>3 DEF BufferTypes
    <3>2. ciphertext' \in Int /\ pending' \in Int /\ pending' <= Base64Chunk + MaxSegment
        BY <3>1, <2>6, ConstantsPositive
    <3>3. block' \in Int /\ block' < 2 * AesBlock
        BY <2>4, <2>5, <2>6, ConstantsPositive
    <3> QED BY <3>2, <3>3
  <2> HIDE DEF pad, bytes, held, final, size
  <2> QED
      BY <2>6, <2>7, <2>8, ConstantsPositive
      DEF BufferTypes, Steps, TakenChecked, WithinBefore, BuffersBounded, OutputLimit
<1>7. CASE InflateSlice
  <2> DEFINE available == Expansion(order, Slice)
             output == Inflated(available, Allowance)
  <2>1. Allowance \in Int /\ Allowance >= 1
      BY <1>0, <1>7 DEF InflateSlice, Allowance, BufferTypes, WithinBefore
  <2>2. available \in Nat
      BY DEF Expansion, BufferTypes, OrderForms
  <2>3. output \in Nat /\ output <= Allowance
      BY <2>1, <2>2 DEF Inflated, Least
  <2>4. /\ step = "inflate" /\ step' \in {"refused", "inflate"}
        /\ result' = result \/ result' = result + output
        /\ step' = "inflate" => ~(result' > OutputLimit)
        /\ UNCHANGED <<order, frag, encoded, pending, ciphertext, block, compressed>>
      BY <1>7 DEF InflateSlice, Refuse
  <2>5. result' \in Int /\ result' <= OutputLimit + 1
      BY <1>0, <2>3, <2>4 DEF Allowance, BufferTypes, WithinBefore
  <2>6. offset' \in Int
      BY <1>7, ConstantsPositive DEF InflateSlice, Least, BufferTypes
  <2> QED
      BY <1>0, <2>4, <2>5, <2>6
      DEF BufferTypes, Steps, TakenChecked, WithinBefore, BuffersBounded, OutputLimit
<1>8. CASE FinishInflating
  <2>1. /\ step = "inflate" /\ step' \in {"refused", "expanded"}
        /\ UNCHANGED <<order, frag, encoded, pending, ciphertext, block, compressed, offset,
                       result>>
      BY <1>8 DEF FinishInflating, Refuse
  <2> QED
      BY <2>1 DEF BufferTypes, Steps, TakenChecked, WithinBefore, BuffersBounded, OutputLimit
<1>9. CASE StopDecoding
  <2>1. /\ step \in {"collect", "feed", "inflate"} /\ step' = "stopped"
        /\ UNCHANGED <<order, frag, encoded, pending, ciphertext, block, compressed, offset,
                       result>>
      BY <1>9 DEF StopDecoding
  <2> QED
      BY <2>1 DEF BufferTypes, Steps, TakenChecked, WithinBefore, BuffersBounded, OutputLimit
<1>10. CASE UNCHANGED orderVars
    BY <1>10 DEF orderVars, BufferTypes, TakenChecked, WithinBefore, BuffersBounded,
                 OutputLimit
<1> QED
    BY <1>1, <1>2, <1>3, <1>4, <1>5, <1>6, <1>7, <1>8, <1>9, <1>10 DEF DecodingStep

(* Whatever the bank sends, and for all limits and chunk sizes, no buffer of  *)
(* the decoders grows past its limit by more than one piece, and the inflated *)
(* data by more than the one byte that shows the overrun.                     *)
THEOREM DecodingBounded == DecodingSpec => []BuffersBounded
<1>1. BufferInv => BuffersBounded
    BY DEF BufferInv
<1> QED
    BY <1>1, BufferInit, BufferNext, PTL DEF DecodingSpec

-----------------------------------------------------------------------------
(* The verdict on the order data. *)

(* Every fragment is valid in its place. *)
Valid(o, n) == FragmentValid(o.fragments[n], n = Len(o.fragments))
Whole(o) == \A n \in 1..Len(o.fragments) : Valid(o, n)

(* The characters of the first n fragments. *)
Characters(o, n) == Running(FragmentSizes(o.fragments))[n]

(* The parts of order data. *)
LEMMA OrderTyped ==
    ASSUME NEW o \in OrderForms
    PROVE  /\ Len(o.fragments) \in Nat /\ Len(o.fragments) > 0
           /\ \A n \in 1..Len(o.fragments) :
                  o.fragments[n].size \in Nat /\ o.fragments[n].pad \in 0..2
           /\ o.aesPad \in Nat /\ o.ends \in Int /\ o.broken \in Nat
           /\ o.kind \in {"btd", "metadata"}
           /\ Padding(o.fragments) \in 0..2
<1>1. /\ o.fragments \in Seq([size: Nat, pad: 0..2, clean: BOOLEAN]) /\ o.fragments # <<>>
      /\ o.aesPad \in Nat /\ o.ends \in Int /\ o.broken \in Nat /\ o.kind \in {"btd", "metadata"}
    BY DEF OrderForms
<1>2. Len(o.fragments) \in Nat /\ Len(o.fragments) > 0
    BY <1>1
<1>3. \A n \in 1..Len(o.fragments) : o.fragments[n] \in [size: Nat, pad: 0..2, clean: BOOLEAN]
    BY <1>1, ElementTyped
<1>4. Len(o.fragments) \in 1..Len(o.fragments)
    BY <1>2
<1> QED BY <1>1, <1>2, <1>3, <1>4 DEF Padding

(* The characters of one fragment more. *)
LEMMA CharactersStep ==
    ASSUME NEW o \in OrderForms
    PROVE  /\ Characters(o, 0) = 0
           /\ \A n \in 1..Len(o.fragments) :
                  Characters(o, n) = Characters(o, n - 1) + o.fragments[n].size
           /\ \A n \in 0..Len(o.fragments) :
                  Characters(o, n) \in Nat /\ Characters(o, n) <= TotalSize(o.fragments)
           /\ \A m, n \in 0..Len(o.fragments) : m <= n => Characters(o, m) <= Characters(o, n)
           /\ Characters(o, Len(o.fragments)) = TotalSize(o.fragments)
           /\ TotalSize(o.fragments) \in Nat
<1> DEFINE s == FragmentSizes(o.fragments)
<1>1. s \in Seq(Nat) /\ Len(s) = Len(o.fragments)
  <2>1. s \in [1..Len(o.fragments) -> Nat] /\ Len(o.fragments) \in Nat
      BY OrderTyped DEF FragmentSizes
  <2> HIDE DEF s
  <2> QED BY <2>1, SequenceOf
<1>2. \A n \in 1..Len(o.fragments) : s[n] = o.fragments[n].size
    BY DEF FragmentSizes
<1> HIDE DEF s
<1>3. /\ Running(s)[0] = 0
      /\ \A n \in 1..Len(s) : Running(s)[n] = Running(s)[n - 1] + s[n]
      /\ \A n \in 0..Len(s) : Running(s)[n] \in Nat /\ Running(s)[n] <= SumOf(s)
      /\ \A m, n \in 0..Len(s) : m <= n => Running(s)[m] <= Running(s)[n]
      /\ SumOf(s) \in Nat
    BY <1>1, SumFacts
<1>4. \A n \in 1..Len(o.fragments) : Running(s)[n] = Running(s)[n - 1] + o.fragments[n].size
    BY <1>1, <1>2, <1>3
<1>5. TotalSize(o.fragments) = SumOf(s) /\ SumOf(s) = Running(s)[Len(o.fragments)]
    BY <1>1 DEF TotalSize, s, SumOf
<1> QED BY <1>1, <1>3, <1>4, <1>5, Zenon DEF Characters, s

(* The characters of valid fragments are whole quantums. *)
LEMMA QuantumsWhole ==
    ASSUME NEW o \in OrderForms, NEW N \in 0..Len(o.fragments), \A n \in 1..N : Valid(o, n)
    PROVE  \A n \in 0..N : Characters(o, n) % 4 = 0
<1> DEFINE T == {n \in Nat : Characters(o, n) % 4 = 0}
<1>0. Len(o.fragments) \in Nat /\ N \in Nat
    BY OrderTyped
<1>1. 0 \in T
    BY CharactersStep
<1>2. ASSUME NEW n \in 1..N, n - 1 \in T PROVE n \in T
  <2> DEFINE a == Characters(o, n - 1)
             b == o.fragments[n].size
  <2>1. n \in 1..Len(o.fragments) /\ n - 1 \in 0..Len(o.fragments)
      BY <1>0
  <2>2. a \in Nat /\ Characters(o, n) = a + b
      BY <2>1, CharactersStep
  <2>3. b \in Nat /\ b % 4 = 0 /\ a % 4 = 0
    <3>1. b \in Nat
        BY <2>1, OrderTyped
    <3>2. Valid(o, n)
        OBVIOUS
    <3>3. b % 4 = 0
        BY <3>2, Zenon DEF Valid, FragmentValid
    <3> QED BY <1>2, <3>1, <3>3
  <2> HIDE DEF a, b
  <2>4. (a + b) % 4 = 0
      BY <2>2, <2>3
  <2> QED BY <2>2, <2>4
<1>3. \A n \in 0..N : n \in T
  <2> HIDE DEF T
  <2> QED BY <1>0, <1>1, <1>2, UpTo
<1> QED BY <1>3

(* What the whole comes to. *)
LEMMA EncryptedFacts ==
    ASSUME NEW o \in OrderForms, Whole(o)
    PROVE  LET size == TotalSize(o.fragments)
           IN  /\ size \in Nat /\ size % 4 = 0 /\ size >= 4
               /\ EncryptedSize(o) = (size \div 4) * 3 - Padding(o.fragments)
               /\ EncryptedSize(o) \in Nat /\ EncryptedSize(o) >= 1
<1> DEFINE size == TotalSize(o.fragments)
           N == Len(o.fragments)
<1>1. N \in Nat /\ N > 0 /\ Padding(o.fragments) \in 0..2
    BY OrderTyped
<1>2. size = Characters(o, N) /\ size \in Nat
    BY CharactersStep
<1>3. size % 4 = 0
  <2>1. N \in 0..N /\ \A n \in 1..N : Valid(o, n)
      BY <1>1 DEF Whole
  <2> QED BY <1>2, <2>1, QuantumsWhole
<1>4. size >= 1
  <2>1. N \in 1..N /\ N - 1 \in 0..N
      BY <1>1
  <2>2. size = Characters(o, N - 1) + o.fragments[N].size /\ Characters(o, N - 1) \in Nat
      BY <1>2, <2>1, CharactersStep
  <2>3. o.fragments[N].size \in Nat /\ o.fragments[N].size >= 1
    <3>1. FragmentValid(o.fragments[N], N = Len(o.fragments)) /\ o.fragments[N].size \in Nat
        BY <2>1, OrderTyped DEF Whole, Valid
    <3> QED BY <3>1, ConstantsPositive DEF FragmentValid
  <2> QED BY <2>2, <2>3
<1>5. EncryptedSize(o) = (size \div 4) * 3 - Padding(o.fragments)
    BY DEF EncryptedSize, Decoded
<1> HIDE DEF size
<1> QED BY <1>1, <1>2, <1>3, <1>4, <1>5 DEF size

(* What is admissible passes the limits on the encrypted and the encoded      *)
(* form.                                                                      *)
LEMMA AdmissibleFits ==
    ASSUME NEW o \in OrderForms, Admissible(o)
    PROVE  /\ Whole(o)
           /\ EncryptedSize(o) <= MaxCompressed + AesBlock
           /\ TotalSize(o.fragments) <= encoded_order_data_limit
<1>1. Whole(o)
    BY Zenon DEF Admissible, Whole, Valid
<1> DEFINE size == TotalSize(o.fragments)
           e == EncryptedSize(o)
           p == Padding(o.fragments)
<1>2. /\ size \in Nat /\ size % 4 = 0 /\ e = (size \div 4) * 3 - p /\ e \in Nat
    BY <1>1, EncryptedFacts
<1>3. p \in 0..2 /\ o.aesPad \in Nat
    BY OrderTyped
<1>4. o.aesPad \in 1..AesBlock /\ e - o.aesPad \in 1..MaxCompressed
    BY Zenon DEF Admissible, DataSize
<1> HIDE DEF size, e, p
<1>5. e <= MaxCompressed + AesBlock
    BY <1>2, <1>3, <1>4, ConstantsPositive
<1>6. size <= ((MaxCompressed + AesBlock + 2) \div 3) * 4
    BY <1>2, <1>3, <1>5, ConstantsPositive
<1> QED BY <1>1, <1>5, <1>6 DEF encoded_order_data_limit, size, e

(* How many slices some data has. *)
LEMMA SliceCounted ==
    ASSUME NEW size \in Nat
    PROVE  /\ SliceCount(size) \in Nat
           /\ \A q \in Nat : q * InflateChunk \in Nat
                             /\ (q < SliceCount(size) <=> q * InflateChunk < size)
<1> DEFINE C == InflateChunk
           S == SliceCount(size)
           r == (size + C - 1) % C
<1>0. C \in Nat \ {0}
    BY OrderDataLimits
<1> HIDE DEF C
<1>1. S \in Int /\ r \in 0..(C - 1) /\ size + C - 1 = S * C + r
  <2>1. size + C - 1 \in Int
      BY <1>0
  <2> QED BY <1>0, <2>1, DivisionFacts DEF SliceCount, C
<1> HIDE DEF S, r
<1>2. S * C \in Int
    BY <1>0, <1>1, TimesGrows
<1>3. ~(S < 0)
  <2>1. S < 0 <=> S * C < 0 * C
      BY <1>0, <1>1, TimesGrows
  <2>2. 0 * C = 0
      BY <1>0
  <2> QED BY <1>0, <1>1, <1>2, <2>1, <2>2
<1>4. ASSUME NEW q \in Nat
      PROVE  q * C \in Nat /\ (q < S <=> q * C < size)
  <2>1. q * C \in Int /\ (q < S <=> q * C < S * C) /\ (q + 1) * C = q * C + C
      BY <1>0, <1>1, TimesGrows
  <2>2. q + 1 \in Int /\ (S < q + 1 <=> S * C < (q + 1) * C)
      BY <1>0, <1>1, TimesGrows
  <2>3. q * C >= 0
    <3>1. q < 0 <=> q * C < 0 * C
        BY <1>0, TimesGrows
    <3>2. 0 * C = 0
        BY <1>0
    <3> QED BY <2>1, <3>1, <3>2
  <2>4. CASE q < S
    <3>1. ~(S * C < q * C + C)
        BY <1>1, <2>1, <2>2, <2>4
    <3>2. q * C < size
      <4> DEFINE x == S * C
                 y == q * C
      <4>1. x \in Int /\ y \in Int /\ ~(x < y + C) /\ size + C - 1 = x + r
          BY <1>1, <1>2, <2>1, <3>1
      <4> HIDE DEF x, y
      <4>2. y < size
          BY <1>0, <1>1, <4>1
      <4> QED BY <4>2 DEF y
    <3> QED BY <2>1, <2>3, <2>4, <3>2
  <2>5. CASE ~(q < S)
    <3>1. ~(q * C < size)
      <4> DEFINE x == S * C
                 y == q * C
      <4>1. x \in Int /\ y \in Int /\ ~(y < x) /\ size + C - 1 = x + r
          BY <1>1, <1>2, <2>1, <2>5
      <4> HIDE DEF x, y
      <4>2. ~(y < size)
          BY <1>0, <1>1, <4>1
      <4> QED BY <4>2 DEF y
    <3> QED BY <2>1, <2>3, <2>5, <3>1
  <2> QED BY <2>4, <2>5
<1> QED BY <1>1, <1>3, <1>4 DEF S, C

(* What the slices expand to. *)
LEMMA ExpansionsStep ==
    ASSUME NEW o \in OrderForms, DataSize(o) \in Nat
    PROVE  LET S == SliceCount(DataSize(o))
               R == Running(Expansions(o))
           IN  /\ S \in Nat
               /\ R[0] = 0
               /\ \A n \in 1..S : R[n] = R[n - 1] + Expansion(o, n) /\ Expansion(o, n) \in Nat
               /\ \A n \in 0..S : R[n] \in Nat /\ R[n] <= TotalExpansion(o)
               /\ R[S] = TotalExpansion(o) /\ TotalExpansion(o) \in Nat
<1> DEFINE S == SliceCount(DataSize(o))
           s == Expansions(o)
<1>1. S \in Nat
    BY SliceCounted
<1>2. \A n : Expansion(o, n) \in Nat
  <2>1. o.expands \in Seq(Nat)
      BY DEF OrderForms
  <2> QED BY <2>1 DEF Expansion
<1>3. s \in [1..S -> Nat] /\ \A n \in 1..S : s[n] = Expansion(o, n)
    BY <1>2 DEF Expansions
<1> HIDE DEF S
<1>4. s \in Seq(Nat) /\ Len(s) = S
  <2> HIDE DEF s
  <2> QED BY <1>1, <1>3, SequenceOf
<1> HIDE DEF s
<1>5. /\ Running(s)[0] = 0
      /\ \A n \in 1..Len(s) : Running(s)[n] = Running(s)[n - 1] + s[n]
      /\ \A n \in 0..Len(s) : Running(s)[n] \in Nat /\ Running(s)[n] <= SumOf(s)
      /\ SumOf(s) \in Nat
    BY <1>4, SumFacts
<1>6. \A n \in 1..S : Running(s)[n] = Running(s)[n - 1] + Expansion(o, n) /\ Expansion(o, n) \in Nat
    BY <1>2, <1>3, <1>4, <1>5
<1>7. TotalExpansion(o) = SumOf(s) /\ SumOf(s) = Running(s)[S]
    BY <1>4 DEF TotalExpansion, s, SumOf
<1> QED BY <1>1, <1>4, <1>5, <1>6, <1>7, Zenon DEF S, s

-----------------------------------------------------------------------------
(* The fragments collected so far are valid and counted. *)
Collected ==
    /\ encoded = Characters(order, frag)
    /\ \A n \in 1..frag : Valid(order, n)
    /\ pending = 0 /\ ciphertext = 0 /\ block = 0 /\ compressed = 0

(* The characters taken are decoded or pending, the bytes decoded are         *)
(* decrypted or held back, and a block is held back once there is one.        *)
Fed ==
    /\ pending \in Nat /\ pending % 4 = 0 /\ (frag > 0 => pending > 0)
    /\ pending <= Characters(order, frag)
    /\ ciphertext = ((Characters(order, frag) - pending) \div 4) * 3
    /\ compressed \in Nat /\ block \in Nat /\ block + compressed = ciphertext
    /\ compressed % AesBlock = 0
    /\ compressed > 0 => block >= AesBlock

(* The data is what the whole comes to, and q slices of it are inflated. *)
Inflating ==
    /\ EncryptedSize(order) % AesBlock = 0
    /\ order.aesPad \in 1..AesBlock
    /\ compressed = DataSize(order) /\ compressed \in 0..MaxCompressed
    /\ result <= OutputLimit
    /\ \E q \in 0..SliceCount(compressed) :
          /\ offset = Least(q * InflateChunk, compressed)
          /\ result = Running(Expansions(order))[q]
          /\ order.broken \notin 1..q

(* The inductive invariant of the verdict on order data. *)
ExactInv ==
    /\ BufferTypes
    /\ step = "collect" => Collected
    /\ step \in {"decode", "feed", "inflate"} =>
           Whole(order) /\ encoded = TotalSize(order.fragments)
    /\ step \in {"collect", "decode", "feed"} => offset = 0 /\ result = 0
    /\ step = "feed" => Fed
    /\ step = "inflate" => Inflating
    /\ OrderDataVerdictExact

(* It holds before the first fragment. *)
LEMMA ExactInit == (\E o \in OrderForms : OrderInit(o)) => ExactInv
<1> SUFFICES ASSUME NEW o \in OrderForms, OrderInit(o) PROVE ExactInv
    OBVIOUS
<1>1. BufferTypes
    BY OrderTyped DEF OrderInit, BufferTypes, Steps
<1>2. Characters(o, 0) = 0
    BY CharactersStep
<1> QED BY <1>1, <1>2 DEF OrderInit, ExactInv, Collected, OrderDataVerdictExact

(* A fragment that is collected is valid, or the order data is not            *)
(* admissible.                                                                *)
LEMMA ExactCollect == ExactInv /\ Collect => ExactInv'
<1> SUFFICES ASSUME ExactInv, Collect PROVE ExactInv'
    OBVIOUS
<1> DEFINE n == frag + 1
           f == order.fragments[n]
           last == n = Len(order.fragments)
           size == encoded + f.size
<1>1. /\ step = "collect" /\ frag < Len(order.fragments) /\ frag' = n /\ order' = order
      /\ UNCHANGED <<pending, ciphertext, block, compressed, offset, result>>
      /\ encoded' = IF FragmentValid(f, last) THEN size ELSE encoded
      /\ step' = IF \/ ~FragmentValid(f, last)
                    \/ size > encoded_order_data_limit /\ LimitCollected(last)
                 THEN "refused" ELSE "collect"
    BY DEF Collect, Refuse, Fragments
<1>2. order \in OrderForms /\ frag \in 0..Len(order.fragments) /\ Len(order.fragments) \in Nat
      /\ encoded \in Int
    BY OrderTyped DEF ExactInv, BufferTypes
<1>3. n \in 1..Len(order.fragments) /\ n - 1 = frag /\ n \in 0..Len(order.fragments)
    BY <1>1, <1>2
<1>4. /\ Characters(order, n) = Characters(order, n - 1) + f.size
      /\ Characters(order, n) \in Nat /\ Characters(order, n) <= TotalSize(order.fragments)
      /\ TotalSize(order.fragments) \in Nat
    BY <1>2, <1>3, CharactersStep
<1>5. size = Characters(order, n) /\ f.size \in Nat
    BY <1>1, <1>2, <1>3, <1>4, OrderTyped DEF ExactInv, Collected
<1>6. FragmentValid(f, last) <=> Valid(order, n)
    BY DEF Valid
<1>7. encoded_order_data_limit \in Nat
    BY <1>2, ComputedLimits
<1>8. step' = "refused" => ~Admissible(order)
  <2> SUFFICES ASSUME step' = "refused", Admissible(order) PROVE FALSE
      OBVIOUS
  <2>1. Whole(order) /\ TotalSize(order.fragments) <= encoded_order_data_limit
      BY <1>2, AdmissibleFits
  <2>2. Valid(order, n)
      BY <1>3, <2>1 DEF Whole
  <2>3. size > encoded_order_data_limit
      BY <1>1, <1>6, <2>2
  <2> QED BY <1>4, <1>5, <1>7, <2>1, <2>3
<1>9. step' \in {"refused", "collect"}
    BY <1>1
<1>10. step' = "collect" => Collected'
  <2> SUFFICES ASSUME step' = "collect" PROVE Collected'
      OBVIOUS
  <2>1. FragmentValid(f, last)
      BY <1>1
  <2>2. encoded' = Characters(order, n) /\ Valid(order, n)
      BY <1>1, <1>5, <1>6, <2>1
  <2>3. \A m \in 1..n : m \in 1..frag \/ m = n
      BY <1>2
  <2>4. \A m \in 1..n : Valid(order, m)
      BY <1>1, <2>2, <2>3 DEF ExactInv, Collected
  <2> QED BY <1>1, <2>2, <2>4 DEF ExactInv, Collected
<1>11. BufferTypes'
    BY <1>1, <1>2, <1>3, <1>5 DEF ExactInv, BufferTypes, Steps
<1>12. OrderDataVerdictExact'
    BY <1>1, <1>8, <1>9 DEF OrderDataVerdictExact
<1> QED BY <1>1, <1>9, <1>10, <1>11, <1>12 DEF ExactInv

(* Nothing that is refused before the decoding begins is admissible. *)
LEMMA ExactBegin == ExactInv /\ BeginDecoding => ExactInv'
<1> SUFFICES ASSUME ExactInv, BeginDecoding PROVE ExactInv'
    OBVIOUS
<1>1. /\ step = "collect" /\ frag = Len(order.fragments) /\ frag' = 0 /\ order' = order
      /\ UNCHANGED <<encoded, pending, ciphertext, block, compressed, offset, result>>
      /\ step' = IF encoded > encoded_order_data_limit THEN "refused"
                 ELSE IF order.kind = "btd" THEN "feed" ELSE "decode"
    BY DEF BeginDecoding, Refuse, Fragments
<1>2. order \in OrderForms /\ Len(order.fragments) \in Nat
    BY OrderTyped DEF ExactInv, BufferTypes
<1>3. Whole(order) /\ encoded = TotalSize(order.fragments) /\ encoded \in Nat
    BY <1>1, <1>2, CharactersStep DEF ExactInv, Collected, Whole
<1>4. step' \in {"refused", "feed", "decode"}
    BY <1>1
<1>5. step' = "refused" => ~Admissible(order)
  <2> SUFFICES ASSUME step' = "refused", Admissible(order) PROVE FALSE
      OBVIOUS
  <2>1. encoded > encoded_order_data_limit /\ encoded <= encoded_order_data_limit
      BY <1>1, <1>2, <1>3, AdmissibleFits
  <2> QED BY <1>2, <1>3, <2>1, ComputedLimits
<1>6. Fed'
  <2>1. /\ pending' = 0 /\ ciphertext' = 0 /\ block' = 0 /\ compressed' = 0
      BY <1>1 DEF ExactInv, Collected
  <2>2. Characters(order, 0) = 0
      BY <1>2, CharactersStep
  <2>3. 0 % AesBlock = 0
    <3>1. AesBlock \in Nat \ {0} /\ 0 = 0 * AesBlock + 0 /\ 0 \in 0..(AesBlock - 1)
        BY ConstantsPositive
    <3> QED BY <3>1, DivisionUnique
  <2> HIDE DEF Fed
  <2>4. 0 % 4 = 0 /\ (0 - 0) \div 4 = 0 /\ 0 * 3 = 0 /\ 0 + 0 = 0 /\ 0 \in Nat /\ ~(0 > 0) /\ 0 <= 0
      OBVIOUS
  <2> QED BY <1>1, <2>1, <2>2, <2>3, <2>4 DEF Fed
<1>7. BufferTypes'
    BY <1>1, <1>2, <1>4 DEF ExactInv, BufferTypes, Steps
<1>8. OrderDataVerdictExact'
    BY <1>1, <1>4, <1>5 DEF OrderDataVerdictExact
<1>9. Whole(order)' /\ encoded' = TotalSize(order.fragments)' /\ offset' = 0 /\ result' = 0
    BY <1>1, <1>3 DEF ExactInv
<1> QED BY <1>4, <1>6, <1>7, <1>8, <1>9 DEF ExactInv

(* Nothing is inflated yet. *)
LEMMA InflateStart ==
    ASSUME NEW o \in OrderForms, DataSize(o) \in Nat
    PROVE  \E q \in 0..SliceCount(DataSize(o)) :
               /\ 0 = Least(q * InflateChunk, DataSize(o))
               /\ 0 = Running(Expansions(o))[q]
               /\ o.broken \notin 1..q
<1>1. 0 \in 0..SliceCount(DataSize(o)) /\ Running(Expansions(o))[0] = 0
  <2>1. SliceCount(DataSize(o)) \in Nat /\ Running(Expansions(o))[0] = 0
      BY ExpansionsStep
  <2> QED BY <2>1
<1>2. 0 * InflateChunk = 0 /\ o.broken \notin 1..0
    BY ConstantsPositive
<1>3. Least(0 * InflateChunk, DataSize(o)) = 0
    BY <1>2 DEF Least
<1> QED BY <1>1, <1>2, <1>3

(* The metadata decoder, which decrypts the whole at once. *)
LEMMA ExactWhole == ExactInv /\ DecodeWhole => ExactInv'
<1> SUFFICES ASSUME ExactInv, DecodeWhole PROVE ExactInv'
    OBVIOUS
<1> DEFINE size == EncryptedSize(order)
           pad == order.aesPad
           refused == \/ size = 0 \/ size > MaxCompressed + AesBlock
                      \/ size % AesBlock # 0
                      \/ pad \notin 1..AesBlock
<1>1. order \in OrderForms /\ step = "decode" /\ Whole(order) /\ encoded = TotalSize(order.fragments)
      /\ offset = 0 /\ result = 0
    BY DEF ExactInv, BufferTypes, DecodeWhole
<1>2. Decoded(encoded, Padding(Fragments)) = size
    BY <1>1 DEF EncryptedSize, Fragments
<1>3. /\ order' = order /\ UNCHANGED <<frag, encoded, pending, block, offset, result>>
      /\ ciphertext' = size
      /\ compressed' = IF refused THEN 0 ELSE size - pad
      /\ step' = IF refused \/ size - pad > MaxCompressed THEN "refused" ELSE "inflate"
    BY <1>2, Zenon DEF DecodeWhole, Refuse
<1>4. size \in Nat /\ size >= 1 /\ pad \in Nat
    BY <1>1, EncryptedFacts, OrderTyped
<1>5. DataSize(order) = size - pad
    BY DEF DataSize
<1>6. step' \in {"refused", "inflate"}
    BY <1>3
<1> HIDE DEF size, pad
<1>7. ASSUME step' = "refused" PROVE ~Admissible(order)
  <2> SUFFICES ASSUME Admissible(order) PROVE FALSE
      OBVIOUS
  <2>1. size <= MaxCompressed + AesBlock
      BY <1>1, AdmissibleFits DEF size
  <2>2. size % AesBlock = 0 /\ pad \in 1..AesBlock /\ size - pad \in 1..MaxCompressed
      BY <1>5, Zenon DEF Admissible, size, pad
  <2> QED BY <1>3, <1>4, <1>7, <2>1, <2>2, ConstantsPositive
<1>8. ASSUME step' = "inflate" PROVE Inflating'
  <2>1. /\ size % AesBlock = 0 /\ pad \in 1..AesBlock /\ compressed' = size - pad
        /\ size - pad <= MaxCompressed
      BY <1>3, <1>4, <1>8, ConstantsPositive
  <2>2. size >= AesBlock
    <3> DEFINE q == size \div AesBlock
    <3>1. AesBlock \in Nat \ {0}
        BY ConstantsPositive
    <3>2. q \in Int /\ size = q * AesBlock + 0
        BY <1>4, <2>1, <3>1, DivisionFacts
    <3> HIDE DEF q
    <3>3. (0 < q <=> 0 * AesBlock < q * AesBlock) /\ 0 * AesBlock = 0 /\ q * AesBlock \in Int
        BY <3>1, <3>2, TimesGrows
    <3>4. 0 < q
        BY <1>4, <3>2, <3>3
    <3>5. 1 = q \/ (1 < q <=> 1 * AesBlock < q * AesBlock)
        BY <3>1, <3>2, TimesGrows
    <3>6. 1 * AesBlock = AesBlock
        BY <3>1
    <3> QED BY <3>1, <3>2, <3>3, <3>4, <3>5, <3>6
  <2>3. compressed' \in 0..MaxCompressed /\ compressed' = DataSize(order) /\ DataSize(order) \in Nat
      BY <1>4, <1>5, <2>1, <2>2, ConstantsPositive
  <2>4. \E q \in 0..SliceCount(compressed') :
          /\ offset' = Least(q * InflateChunk, compressed')
          /\ result' = Running(Expansions(order))[q]
          /\ order.broken \notin 1..q
      BY <1>1, <1>3, <2>3, InflateStart
  <2>5. result' <= OutputLimit'
      BY <1>1, <1>3, ComputedLimits DEF OutputLimit
  <2> QED BY <1>3, <2>1, <2>3, <2>4, <2>5 DEF Inflating, size, pad
<1>9. BufferTypes'
  <2>1. ciphertext' \in Int /\ compressed' \in Int
      BY <1>3, <1>4
  <2> QED BY <1>3, <1>6, <2>1 DEF ExactInv, BufferTypes, Steps
<1>10. OrderDataVerdictExact'
    BY <1>3, <1>6, <1>7 DEF OrderDataVerdictExact
<1>11. Whole(order)' /\ encoded' = TotalSize(order.fragments)'
    BY <1>1, <1>3
<1> QED BY <1>6, <1>8, <1>9, <1>10, <1>11 DEF ExactInv

(* The next fragment is taken for decoding. *)
LEMMA ExactTake == ExactInv /\ TakeFragment => ExactInv'
<1> SUFFICES ASSUME ExactInv, TakeFragment PROVE ExactInv'
    OBVIOUS
<1> DEFINE n == frag + 1
           x == order.fragments[n].size
<1>1. /\ step = "feed" /\ frag < Len(order.fragments) /\ frag' = n /\ pending' = pending + x
      /\ UNCHANGED <<order, step, encoded, ciphertext, block, compressed, offset, result>>
    BY DEF TakeFragment, Fragments
<1>2. order \in OrderForms /\ frag \in 0..Len(order.fragments) /\ Len(order.fragments) \in Nat
      /\ Whole(order) /\ Fed
    BY <1>1, OrderTyped DEF ExactInv, BufferTypes
<1>3. n \in 1..Len(order.fragments) /\ n - 1 = frag /\ n \in 0..Len(order.fragments)
    BY <1>1, <1>2
<1>4. x \in Nat /\ x >= 1 /\ x % 4 = 0
  <2>1. FragmentValid(order.fragments[n], n = Len(order.fragments)) /\ x \in Nat
      BY <1>2, <1>3, OrderTyped DEF Whole, Valid
  <2> QED BY <2>1, ConstantsPositive DEF FragmentValid
<1> DEFINE a == Characters(order, frag)
           b == Characters(order, n)
<1>5. b = a + x /\ a \in Nat
    BY <1>2, <1>3, CharactersStep
<1>6. /\ pending \in Nat /\ pending % 4 = 0 /\ pending <= a
      /\ ciphertext = ((a - pending) \div 4) * 3
    BY <1>2 DEF Fed
<1> HIDE DEF x, a, b
<1>7. /\ pending' \in Nat /\ pending' % 4 = 0 /\ pending' > 0 /\ pending' <= b
      /\ b - pending' = a - pending
    BY <1>1, <1>4, <1>5, <1>6
<1>8. Fed'
    BY <1>1, <1>2, <1>6, <1>7 DEF Fed, b
<1>9. BufferTypes'
    BY <1>1, <1>3, <1>7 DEF ExactInv, BufferTypes
<1> QED BY <1>1, <1>8, <1>9 DEF ExactInv, OrderDataVerdictExact

(* A stop is not a refusal. *)
LEMMA ExactStop == ExactInv /\ StopDecoding => ExactInv'
<1> SUFFICES ASSUME ExactInv, StopDecoding PROVE ExactInv'
    OBVIOUS
<1>1. step' = "stopped" /\ UNCHANGED <<order, frag, encoded, pending, ciphertext, block, compressed,
                                       offset, result>>
    BY DEF StopDecoding
<1> QED BY <1>1 DEF ExactInv, BufferTypes, Steps, OrderDataVerdictExact

(* What exceeds the limit on the output is not admissible. *)
LEMMA OutputLimited ==
    ASSUME order \in OrderForms, Admissible(order)
    PROVE  TotalExpansion(order) <= OutputLimit
<1>1. /\ TotalExpansion(order) <= MaxDecompressed
      /\ order.kind # "btd" => TotalExpansion(order) <= MaxXmlInput
    BY Zenon DEF Admissible
<1> QED BY <1>1 DEF OutputLimit, Least

(* A slice of compressed data: its output is cut off only where the limit is  *)
(* exceeded, and then the whole is not admissible.                            *)
LEMMA ExactSlice == ExactInv /\ InflateSlice => ExactInv'
<1> SUFFICES ASSUME ExactInv, InflateSlice PROVE ExactInv'
    OBVIOUS
<1> DEFINE C == InflateChunk
           S == SliceCount(compressed)
           R == Running(Expansions(order))
           x == Expansion(order, Slice)
           output == Inflated(x, Allowance)
<1>1. /\ step = "inflate" /\ offset < compressed /\ offset' = Least(offset + C, compressed)
      /\ result' = IF order.broken = Slice THEN result ELSE result + output
      /\ step' = IF order.broken = Slice \/ result' > OutputLimit \/ output < x
                 THEN "refused" ELSE "inflate"
      /\ UNCHANGED <<order, frag, encoded, pending, ciphertext, block, compressed>>
    BY DEF InflateSlice, Refuse
<1>2. /\ order \in OrderForms /\ Inflating /\ Whole(order) /\ OutputLimit \in Nat
    BY <1>1, ComputedLimits DEF ExactInv, BufferTypes
<1>3. /\ compressed = DataSize(order) /\ compressed \in 0..MaxCompressed /\ compressed \in Nat
      /\ order.aesPad \in 1..AesBlock /\ result <= OutputLimit
    BY <1>2, ConstantsPositive DEF Inflating
<1>4. PICK q \in 0..S :
        /\ offset = Least(q * C, compressed) /\ result = R[q] /\ order.broken \notin 1..q
    BY <1>2 DEF Inflating
<1>5. S \in Nat /\ q \in Nat /\ q * C \in Nat /\ (q < S <=> q * C < compressed)
  <2>1. S \in Nat
      BY <1>3, SliceCounted
  <2> QED BY <1>3, <2>1, SliceCounted
<1>6. C \in Nat \ {0}
    BY OrderDataLimits
<1> HIDE DEF C
<1>7. offset = q * C /\ q < S
    BY <1>1, <1>3, <1>4, <1>5 DEF Least
<1>8. Slice = q + 1
  <2>1. 0 \in 0..(C - 1) /\ q * C = q * C + 0 /\ q * C \in Int
      BY <1>5, <1>6
  <2>2. (q * C) \div C = q
      BY <1>5, <1>6, <2>1, DivisionUnique
  <2> QED BY <1>7, <2>2 DEF Slice, C
<1> DEFINE n == q + 1
<1>9. /\ n \in 1..S /\ n - 1 = q /\ n \in 0..S /\ n \in Nat
    BY <1>5, <1>7
<1>10. /\ R[n] = R[q] + x /\ x \in Nat /\ R[q] \in Nat /\ R[n] \in Nat
       /\ R[n] <= TotalExpansion(order) /\ TotalExpansion(order) \in Nat
  <2>1. /\ \A k \in 1..S : R[k] = R[k - 1] + Expansion(order, k) /\ Expansion(order, k) \in Nat
        /\ \A k \in 0..S : R[k] \in Nat /\ R[k] <= TotalExpansion(order)
        /\ TotalExpansion(order) \in Nat
      BY <1>2, <1>3, ExpansionsStep
  <2>2. R[n] = R[n - 1] + Expansion(order, n) /\ Expansion(order, n) \in Nat
      BY <1>9, <2>1
  <2>3. Expansion(order, n) = x
      BY <1>8
  <2>4. R[n] \in Nat /\ R[n] <= TotalExpansion(order) /\ R[q] \in Nat
      BY <1>9, <2>1
  <2> HIDE DEF R, x, n
  <2> QED BY <1>9, <2>1, <2>2, <2>3, <2>4
<1>11. offset' = Least(n * C, compressed)
  <2>1. n * C = q * C + C
      BY <1>5, <1>6, TimesGrows
  <2> QED BY <1>1, <1>7, <2>1
<1> HIDE DEF R, x, S
<1>12. output = IF x <= OutputLimit + 1 - result THEN x ELSE OutputLimit + 1 - result
    BY <1>2, <1>3, <1>4, <1>10 DEF Inflated, Least, Allowance
<1> HIDE DEF n
<1>13. order.broken = Slice => ~Admissible(order)
  <2>1. Admissible(order) => order.broken \notin 1..S
      BY <1>3, Zenon DEF Admissible, S
  <2> QED BY <1>8, <1>9, <2>1 DEF n
<1>14. R[n] > OutputLimit => ~Admissible(order)
    BY <1>2, <1>10, OutputLimited
<1>15. CASE order.broken = Slice
  <2>1. step' = "refused" /\ result' = result
      BY <1>1, <1>15
  <2>2. offset' \in Int
      BY <1>1, <1>3, <1>5, <1>6, <1>7 DEF Least
  <2> QED BY <1>1, <1>13, <1>15, <2>1, <2>2 DEF ExactInv, BufferTypes, Steps, OrderDataVerdictExact
<1>16. CASE order.broken # Slice
  <2>1. result' = result + output /\ result' \in Int
      BY <1>1, <1>2, <1>4, <1>10, <1>12, <1>16
  <2>2. step' = "inflate" => result' = R[n] /\ result' <= OutputLimit
    <3> HIDE DEF output
    <3>1. step' = "inflate" => ~(result' > OutputLimit) /\ ~(output < x)
        BY <1>1
    <3> QED BY <1>2, <1>3, <1>4, <1>10, <1>12, <2>1, <3>1
  <2>3. step' = "refused" => R[n] > OutputLimit
    <3> HIDE DEF output
    <3>1. step' = "refused" => result' > OutputLimit \/ output < x
        BY <1>1, <1>16
    <3> QED BY <1>2, <1>3, <1>4, <1>10, <1>12, <2>1, <3>1
  <2>4. step' \in {"inflate", "refused"}
      BY <1>1
  <2>5. offset' \in Int
      BY <1>1, <1>3, <1>5, <1>6, <1>7 DEF Least
  <2>6. BufferTypes'
      BY <1>1, <2>1, <2>4, <2>5 DEF ExactInv, BufferTypes, Steps
  <2>7. OrderDataVerdictExact'
      BY <1>1, <1>14, <2>3, <2>4 DEF OrderDataVerdictExact
  <2>8. step' = "inflate" => Inflating'
    <3> SUFFICES ASSUME step' = "inflate" PROVE Inflating'
        OBVIOUS
    <3>1. order.broken \notin 1..n
      <4>1. \A k \in 1..n : k \in 1..q \/ k = n
          BY <1>5, <1>9 DEF n
      <4> QED BY <1>4, <1>8, <1>16, <4>1 DEF n
    <3>2. OutputLimit' = OutputLimit
        BY <1>1 DEF OutputLimit
    <3>3. n \in 0..SliceCount(compressed) /\ offset' = Least(n * InflateChunk, compressed)
          /\ result' = Running(Expansions(order))[n]
        BY <1>9, <1>11, <2>2 DEF S, C, R
    <3> QED BY <1>1, <1>2, <2>2, <3>1, <3>2, <3>3 DEF Inflating
  <2>9. Whole(order)' /\ encoded' = TotalSize(order.fragments)'
      BY <1>1, <1>2 DEF ExactInv
  <2> QED BY <2>4, <2>6, <2>7, <2>8, <2>9 DEF ExactInv
<1> QED BY <1>15, <1>16

(* The end of the compressed data: the limits on the output and the ratio. *)
LEMMA ExactFinish == ExactInv /\ FinishInflating => ExactInv'
<1> SUFFICES ASSUME ExactInv, FinishInflating PROVE ExactInv'
    OBVIOUS
<1> DEFINE S == SliceCount(compressed)
           R == Running(Expansions(order))
           data == DataSize(order)
           sum == TotalExpansion(order)
<1>1. /\ step = "inflate" /\ offset = compressed
      /\ step' = IF \/ order.ends # compressed \/ compressed = 0
                    \/ order.kind = "btd" /\ result = 0
                    \/ result > RatioBase * MaxRatio
                 THEN "refused" ELSE "expanded"
      /\ UNCHANGED <<order, frag, encoded, pending, ciphertext, block, compressed, offset, result>>
    BY DEF FinishInflating, Refuse
<1>2. /\ order \in OrderForms /\ Inflating /\ Whole(order) /\ OutputLimit \in Nat
    BY <1>1, ComputedLimits DEF ExactInv, BufferTypes
<1>3. /\ compressed = data /\ compressed \in 0..MaxCompressed /\ compressed \in Nat
      /\ order.aesPad \in 1..AesBlock /\ EncryptedSize(order) % AesBlock = 0
      /\ result <= OutputLimit
    BY <1>2, ConstantsPositive DEF Inflating
<1>4. PICK q \in 0..S :
        /\ offset = Least(q * InflateChunk, compressed) /\ result = R[q] /\ order.broken \notin 1..q
    BY <1>2 DEF Inflating
<1>5. q = S /\ S \in Nat
  <2>1. S \in Nat
      BY <1>3, SliceCounted
  <2>2. q \in Nat /\ q * InflateChunk \in Nat /\ (q < S <=> q * InflateChunk < compressed)
      BY <1>3, <2>1, SliceCounted
  <2>3. ~(q * InflateChunk < compressed)
      BY <1>1, <1>3, <1>4, <2>2 DEF Least
  <2> QED BY <2>1, <2>2, <2>3
<1>6. result = sum /\ sum \in Nat
  <2>1. R[SliceCount(data)] = sum /\ sum \in Nat
      BY <1>2, <1>3, ExpansionsStep
  <2> QED BY <1>3, <1>4, <1>5, <2>1
<1>7. compressed # 0 => RatioBase = compressed
    BY <1>3 DEF RatioBase, Most
<1>8. EncryptedSize(order) \in Nat /\ EncryptedSize(order) >= 1
    BY <1>2, EncryptedFacts
<1>9. order.kind \in {"btd", "metadata"}
    BY <1>2, OrderTyped
<1>10. ASSUME step' = "expanded" PROVE Admissible(order)
  <2>1. /\ order.ends = data /\ data # 0 /\ (order.kind = "btd" => result # 0)
        /\ ~(result > data * MaxRatio)
      BY <1>1, <1>3, <1>7, <1>10
  <2>2. sum <= data * MaxRatio
    <3>1. data * MaxRatio \in Int
        BY <1>3, LimitsPositive
    <3> QED BY <1>6, <2>1, <3>1
  <2>3. sum <= MaxDecompressed /\ (order.kind # "btd" => sum <= MaxXmlInput)
      BY <1>3, <1>6, ConstantsPositive DEF OutputLimit, Least
  <2>4. order.kind = "btd" => sum > 0
      BY <1>6, <2>1
  <2>5. data \in 1..MaxCompressed
      BY <1>3, <2>1
  <2>6. order.broken \notin 1..SliceCount(data)
      BY <1>3, <1>4, <1>5
  <2>7. EncryptedSize(order) > 0
      BY <1>8
  <2>8. \A n \in 1..Len(order.fragments) :
            FragmentValid(order.fragments[n], n = Len(order.fragments))
      BY <1>2, Zenon DEF Whole, Valid
  <2> HIDE DEF data, sum
  <2>9. IF order.kind = "btd" THEN sum > 0 ELSE sum <= MaxXmlInput
      BY <2>3, <2>4
  <2> QED BY <1>3, <2>1, <2>2, <2>3, <2>5, <2>6, <2>7, <2>8, <2>9, Zenon
          DEF Admissible, data, sum
<1>11. ASSUME step' = "refused" PROVE ~Admissible(order)
  <2> SUFFICES ASSUME Admissible(order) PROVE FALSE
      OBVIOUS
  <2>1. /\ data \in 1..MaxCompressed /\ order.ends = data /\ sum <= data * MaxRatio
        /\ IF order.kind = "btd" THEN sum > 0 ELSE sum <= MaxXmlInput
      BY Zenon DEF Admissible
  <2>2. compressed # 0 /\ order.ends = compressed /\ RatioBase = data
      BY <1>3, <1>7, <2>1
  <2>3. data * MaxRatio \in Int
      BY <1>3, LimitsPositive
  <2>4. ~(result > RatioBase * MaxRatio)
    <3> DEFINE z == data * MaxRatio
    <3>1. RatioBase * MaxRatio = z
        BY <2>2, Zenon
    <3>2. sum <= z /\ z \in Int
        BY <2>1, <2>3
    <3> HIDE DEF z
    <3>3. ~(result > z)
        BY <1>6, <3>2
    <3> QED BY <3>1, <3>3, Zenon
  <2>5. order.kind = "btd" => result # 0
      BY <1>6, <2>1
  <2> QED BY <1>1, <1>11, <2>2, <2>4, <2>5
<1>12. step' \in {"expanded", "refused"}
    BY <1>1
<1>13. OrderDataVerdictExact'
    BY <1>1, <1>6, <1>10, <1>11 DEF OrderDataVerdictExact
<1>14. BufferTypes'
    BY <1>1, <1>12 DEF ExactInv, BufferTypes, Steps
<1> QED BY <1>12, <1>13, <1>14 DEF ExactInv

(* What iter_decrypt_e002 decrypts is whole blocks, and what it holds back is *)
(* the last block and the rest.                                               *)
LEMMA DecryptableWhole ==
    ASSUME NEW held \in Nat, NEW d, d = Decryptable(held)
    PROVE  /\ d \in Nat /\ d % AesBlock = 0 /\ held - d \in Nat
           /\ held >= AesBlock => held - d >= AesBlock
           /\ d > 0 => held - d >= AesBlock
           /\ held - d = AesBlock <=> held >= AesBlock /\ held % AesBlock = 0
<1> DEFINE A == AesBlock
           q == held \div A
           r == held % A
<1>0. A \in Nat \ {0}
    BY ConstantsPositive
<1> HIDE DEF A
<1>1. q \in Int /\ r \in 0..(A - 1) /\ held = q * A + r
    BY <1>0, DivisionFacts
<1>2. CASE held >= A
  <2>1. d = held - A - r
      BY <1>2 DEF Decryptable, A
  <2> HIDE DEF q, r
  <2>2. (q - 1) \in Int /\ ((q - 1) + 1) * A = (q - 1) * A + A /\ (q - 1) * A \in Int
      BY <1>0, <1>1, TimesGrows
  <2>3. (q - 1) + 1 = q
      BY <1>1
  <2>4. q * A = (q - 1) * A + A
      BY <2>2, <2>3, Zenon
  <2>5. d = (q - 1) * A + 0
      BY <1>0, <1>1, <2>1, <2>2, <2>4
  <2>6. d % A = 0
    <3>1. 0 \in 0..(A - 1) /\ d \in Int
        BY <1>0, <2>2, <2>5
    <3> QED BY <1>0, <2>2, <2>5, <3>1, DivisionUnique
  <2>7. d >= 0
    <3>1. 0 < q
      <4>1. 0 < q <=> 0 * A < q * A
          BY <1>0, <1>1, TimesGrows
      <4>2. 0 * A = 0 /\ q * A \in Int
          BY <1>0, <1>1, TimesGrows
      <4> DEFINE y == q * A
      <4>3. held = y + r /\ y \in Int
          BY <1>1, <4>2
      <4> HIDE DEF y
      <4>4. 0 < y
          BY <1>0, <1>1, <1>2, <4>3
      <4> QED BY <4>1, <4>2, <4>4 DEF y
    <3>2. ~(q - 1 < 0)
        BY <1>1, <3>1
    <3>3. (q - 1 < 0 <=> (q - 1) * A < 0 * A) /\ 0 * A = 0
        BY <1>0, <2>2, TimesGrows
    <3> DEFINE y == (q - 1) * A
    <3>4. ~(y < 0) /\ y \in Int /\ d = y + 0
        BY <2>2, <2>5, <3>2, <3>3
    <3> HIDE DEF y
    <3> QED BY <3>4
  <2>8. held - d = A + r
      BY <1>0, <1>1, <2>1
  <2> QED BY <1>0, <1>1, <1>2, <2>1, <2>6, <2>7, <2>8 DEF A, r
<1>3. CASE ~(held >= A)
  <2>1. d = 0
      BY <1>3 DEF Decryptable, A
  <2>2. 0 % A = 0
    <3>1. 0 = 0 * A + 0 /\ 0 \in 0..(A - 1)
        BY <1>0
    <3> QED BY <1>0, <3>1, DivisionUnique
  <2> QED BY <1>0, <1>3, <2>1, <2>2 DEF A
<1> QED BY <1>2, <1>3

(* What is decrypted is at least a block behind what was fed.                 *)
LEMMA BlockBehind ==
    ASSUME NEW c \in Nat, NEW b \in Nat, NEW e \in Int, NEW A \in Nat, NEW pad \in Nat,
           NEW M \in Nat, b + c < e, b >= A, pad <= A, e - pad <= M
    PROVE  ~(c > M)
OBVIOUS

(* A full chunk, which is never the last one: it has no padding, and what is  *)
(* decrypted of it is a whole number of blocks.                               *)
LEMMA ExactChunk == ExactInv /\ DecodeChunk => ExactInv'
<1> SUFFICES ASSUME ExactInv, DecodeChunk PROVE ExactInv'
    OBVIOUS
<1> DEFINE a == Characters(order, frag)
           T == TotalSize(order.fragments)
           p == Padding(order.fragments)
           B == Base64Chunk
           L == MaxCompressed + AesBlock
           e == EncryptedSize(order)
           bytes == Decoded(Base64Chunk, 0)
<1>1. /\ step = "feed" /\ pending > B /\ pending' = pending - B
      /\ UNCHANGED <<order, frag, encoded, offset, result>>
    BY DEF DecodeChunk, HasFullChunk
<1>2. /\ order \in OrderForms /\ frag \in 0..Len(order.fragments) /\ Len(order.fragments) \in Nat
      /\ Whole(order) /\ Fed
    BY <1>1, OrderTyped DEF ExactInv, BufferTypes
<1>3. /\ a \in Nat /\ a <= T /\ T \in Nat /\ T % 4 = 0 /\ a % 4 = 0
      /\ e = (T \div 4) * 3 - p /\ p \in 0..2
  <2>1. \A n \in 1..frag : Valid(order, n)
      BY <1>2 DEF Whole
  <2>2. frag \in 0..frag
      BY <1>2
  <2>3. a % 4 = 0
      BY <1>2, <2>1, <2>2, QuantumsWhole
  <2> QED BY <1>2, <2>3, CharactersStep, EncryptedFacts, OrderTyped
<1>4. /\ pending \in Nat /\ pending % 4 = 0 /\ pending <= a
      /\ ciphertext = ((a - pending) \div 4) * 3
    BY <1>2 DEF Fed
<1>5. B \in Nat /\ B % 4 = 0 /\ B > 0
    BY WholeQuantums, ConstantsPositive
<1>6. bytes = (B \div 4) * 3 - 0
    BY DEF Decoded
<1> HIDE DEF a, T, p, B, e, bytes
<1>7. /\ pending' \in Nat /\ pending' % 4 = 0 /\ pending' >= 4 /\ pending' <= a /\ bytes \in Nat
      /\ ciphertext + bytes = ((a - pending') \div 4) * 3
    BY <1>1, <1>3, <1>4, <1>5, <1>6
<1>8. ciphertext + bytes < e /\ ciphertext \in Nat /\ e \in Int
    BY <1>3, <1>4, <1>7
<1>9. ~ContainsPadding(Base64Chunk)
  <2>1. ~(pending - B < p)
      BY <1>1, <1>3, <1>7
  <2> QED BY <2>1 DEF ContainsPadding, p, B, Fragments
<1>10. /\ Feed(bytes)
       /\ Refuse(ciphertext' > L \/ compressed' > MaxCompressed, "feed")
    BY <1>9 DEF DecodeChunk, bytes
<1>11. /\ ciphertext' = ciphertext + bytes
       /\ step' = IF ciphertext' > L \/ compressed' > MaxCompressed THEN "refused" ELSE "feed"
       /\ ciphertext' > L => UNCHANGED <<block, compressed>>
       /\ ~(ciphertext' > L) => /\ block' = (block + bytes) - Decryptable(block + bytes)
                                /\ compressed' = compressed + Decryptable(block + bytes)
  <2>1. ciphertext' = ciphertext + bytes
      BY <1>10 DEF Feed
  <2>2. step' = IF ciphertext' > L \/ compressed' > MaxCompressed THEN "refused" ELSE "feed"
      BY <1>10 DEF Refuse
  <2>3. ASSUME ciphertext' > L PROVE UNCHANGED <<block, compressed>>
    <3>1. Feed(bytes)
        BY <1>10
    <3> QED BY <2>3, <3>1 DEF Feed
  <2>4. ASSUME ~(ciphertext' > L)
        PROVE  /\ block' = (block + bytes) - Decryptable(block + bytes)
               /\ compressed' = compressed + Decryptable(block + bytes)
    <3>1. Feed(bytes)
        BY <1>10
    <3> QED BY <2>4, <3>1 DEF Feed
  <2> QED BY <2>1, <2>2, <2>3, <2>4
<1>12. /\ compressed \in Nat /\ block \in Nat /\ block + compressed = ciphertext
       /\ compressed % AesBlock = 0 /\ (compressed > 0 => block >= AesBlock)
    BY <1>2 DEF Fed
<1>13. /\ compressed' \in Nat /\ block' \in Nat
       /\ ~(ciphertext' > L) =>
              /\ block' + compressed' = ciphertext'
              /\ compressed' % AesBlock = 0 /\ (compressed' > 0 => block' >= AesBlock)
  <2>1. CASE ciphertext' > L
      BY <1>11, <1>12, <2>1
  <2>2. CASE ~(ciphertext' > L)
    <3>1. PICK d : d = Decryptable(block + bytes)
        OBVIOUS
    <3>2. /\ d \in Nat /\ (block + bytes) - d \in Nat /\ compressed + d \in Nat
          /\ (compressed + d) % AesBlock = 0
          /\ compressed + d > 0 => (block + bytes) - d >= AesBlock
          /\ ((block + bytes) - d) + (compressed + d) = block + compressed + bytes
      <4> DEFINE held == block + bytes
      <4>1. held \in Nat /\ d = Decryptable(held)
          BY <1>7, <1>12, <3>1
      <4> HIDE DEF held
      <4>2. d \in Nat /\ d % AesBlock = 0 /\ held - d \in Nat
            /\ (d > 0 => held - d >= AesBlock) /\ (held >= AesBlock => held - d >= AesBlock)
          BY <4>1, DecryptableWhole
      <4>3. (compressed + d) % AesBlock = 0
        <5>1. AesBlock \in Nat \ {0} /\ compressed \in Int /\ d \in Int
            BY <1>12, <4>2, OrderDataLimits
        <5>2. (compressed + d) % AesBlock = d % AesBlock
            BY <1>12, <5>1, RemainderShift, Zenon
        <5> QED BY <4>2, <5>2, Zenon
      <4>4. /\ compressed \in Nat /\ block \in Nat /\ bytes \in Nat /\ d \in Nat
            /\ compressed > 0 => block >= AesBlock
            /\ d > 0 => held - d >= AesBlock
            /\ held >= AesBlock => held - d >= AesBlock
            /\ held - d \in Nat
          BY <1>7, <1>12, <4>2, Zenon
      <4>5. compressed + d > 0 => held - d >= AesBlock
          BY <4>4, ConstantsPositive DEF held
      <4> QED BY <4>3, <4>4, <4>5 DEF held
    <3>3. block' = (block + bytes) - d /\ compressed' = compressed + d
        BY <1>11, <2>2, <3>1
    <3> QED BY <1>11, <1>12, <3>2, <3>3
  <2> QED BY <2>1, <2>2
<1>14. ASSUME step' = "refused" PROVE ~Admissible(order)
  <2> SUFFICES ASSUME Admissible(order) PROVE FALSE
      OBVIOUS
  <2>1. e <= L
      BY <1>2, AdmissibleFits DEF e
  <2>2. order.aesPad \in 1..AesBlock /\ e - order.aesPad \in 1..MaxCompressed
      BY Zenon DEF Admissible, DataSize, e
  <2>3. ~(ciphertext' > L)
      BY <1>7, <1>8, <1>11, <2>1, ConstantsPositive
  <2>4. compressed' > MaxCompressed
      BY <1>11, <1>14, <2>3
  <2>5. ciphertext' < e /\ ciphertext' \in Nat /\ block' + compressed' = ciphertext'
        /\ block' >= AesBlock
      BY <1>7, <1>8, <1>11, <1>13, <2>3, <2>4, ConstantsPositive
  <2>6. order.aesPad \in Nat /\ order.aesPad <= AesBlock /\ e - order.aesPad <= MaxCompressed
      BY <2>2, ConstantsPositive
  <2>7. compressed' \in Nat /\ block' \in Nat /\ block' + compressed' < e
      BY <1>13, <2>5, Zenon
  <2>8. ~(compressed' > MaxCompressed)
    <3>1. e \in Int /\ AesBlock \in Nat /\ MaxCompressed \in Nat /\ block' >= AesBlock
        BY <1>8, <2>5, ConstantsPositive
    <3> QED BY <2>6, <2>7, <3>1, BlockBehind, Zenon
  <2> QED BY <2>4, <2>8
<1>15. step' \in {"refused", "feed"}
    BY <1>11
<1>16. step' = "feed" => Fed'
  <2> SUFFICES ASSUME step' = "feed" PROVE Fed'
      OBVIOUS
  <2>1. ~(ciphertext' > L)
      BY <1>11
  <2>2. Characters(order, frag)' = a
      BY <1>1 DEF a
  <2>3. pending' > 0 /\ ciphertext' = ((a - pending') \div 4) * 3
      BY <1>7, <1>11
  <2> QED BY <1>7, <1>13, <2>1, <2>2, <2>3 DEF Fed
<1>17. BufferTypes'
  <2>1. ciphertext' \in Int /\ pending' \in Int /\ block' \in Int /\ compressed' \in Int
      BY <1>7, <1>8, <1>11, <1>13
  <2> QED BY <1>1, <1>15, <2>1 DEF ExactInv, BufferTypes, Steps
<1>18. OrderDataVerdictExact'
    BY <1>1, <1>14, <1>15 DEF OrderDataVerdictExact
<1>19. Whole(order)' /\ encoded' = TotalSize(order.fragments)' /\ offset' = 0 /\ result' = 0
    BY <1>1, <1>2 DEF ExactInv
<1> QED BY <1>15, <1>16, <1>17, <1>18, <1>19 DEF ExactInv

(* The last chunk and the final block. *)
LEMMA ExactLast == ExactInv /\ DecodeLast => ExactInv'
<1> SUFFICES ASSUME ExactInv, DecodeLast PROVE ExactInv'
    OBVIOUS
<1> DEFINE T == TotalSize(order.fragments)
           p == Padding(order.fragments)
           L == MaxCompressed + AesBlock
           e == EncryptedSize(order)
           pad == order.aesPad
           bytes == Decoded(pending, p)
           held == block + bytes
           d == Decryptable(held)
           final == held - d
           size == compressed + d + (AesBlock - pad)
           refused == e > L \/ final # AesBlock \/ pad \notin 1..AesBlock
<1>1. /\ step = "feed" /\ frag = Len(order.fragments) /\ pending' = 0
      /\ UNCHANGED <<order, frag, encoded, offset, result>>
      /\ ciphertext' = ciphertext + bytes /\ block' = final
    BY DEF DecodeLast, Fragments
<1>2. /\ order \in OrderForms /\ Len(order.fragments) \in Nat /\ Len(order.fragments) > 0
      /\ Whole(order) /\ Fed /\ pad \in Nat
    BY <1>1, OrderTyped DEF ExactInv, BufferTypes
<1>3. /\ Characters(order, frag) = T /\ T \in Nat /\ T % 4 = 0
      /\ e = (T \div 4) * 3 - p /\ p \in 0..2 /\ e \in Nat /\ e >= 1
    BY <1>1, <1>2, CharactersStep, EncryptedFacts, OrderTyped
<1>4. /\ pending \in Nat /\ pending % 4 = 0 /\ pending <= T /\ pending > 0
      /\ ciphertext = ((T - pending) \div 4) * 3
    BY <1>1, <1>2, <1>3 DEF Fed
<1>5. bytes = (pending \div 4) * 3 - p
    BY DEF Decoded
<1>6. /\ compressed \in Nat /\ block \in Nat /\ block + compressed = ciphertext
      /\ compressed % AesBlock = 0 /\ (compressed > 0 => block >= AesBlock)
    BY <1>2 DEF Fed
<1> HIDE DEF T, p, e, bytes, pad
<1>7. bytes \in Nat /\ ciphertext + bytes = e
    BY <1>3, <1>4, <1>5
<1>8. held \in Nat /\ compressed + held = e
    BY <1>6, <1>7
<1>9. /\ d \in Nat /\ final \in Nat
      /\ final = AesBlock <=> held >= AesBlock /\ held % AesBlock = 0
    BY <1>8, DecryptableWhole
<1>10. e % AesBlock = held % AesBlock
  <2>1. AesBlock \in Nat \ {0} /\ compressed \in Int /\ held \in Int
      BY <1>6, <1>8, OrderDataLimits
  <2>2. (compressed + held) % AesBlock = held % AesBlock
      BY <1>6, <2>1, RemainderShift, Zenon
  <2> QED BY <1>8, <2>2, Zenon
<1>11. final = AesBlock <=> e % AesBlock = 0
  <2>1. ASSUME ~(held >= AesBlock) PROVE e % AesBlock # 0
    <3>1. compressed = 0
        BY <1>6, <1>7, <2>1, ConstantsPositive
    <3>2. e = 0 * AesBlock + e /\ e \in 0..(AesBlock - 1)
        BY <1>3, <1>8, <2>1, <3>1, ConstantsPositive
    <3>3. e % AesBlock = e
        BY <1>3, <3>2, OrderDataLimits, DivisionUnique
    <3> QED BY <1>3, <3>3
  <2> QED BY <1>9, <1>10, <2>1
<1>12. /\ compressed' = IF refused THEN compressed ELSE size
       /\ step' = IF refused \/ size > MaxCompressed \/ size <= 0 THEN "refused" ELSE "inflate"
  <2> DEFINE b1 == Decoded(pending, Padding(Fragments))
             h1 == block + b1
             f1 == h1 - Decryptable(h1)
             s1 == compressed + Decryptable(h1) + (AesBlock - order.aesPad)
             r1 == \/ ciphertext' > MaxCompressed + AesBlock
                   \/ f1 # AesBlock
                   \/ order.aesPad \notin 1..AesBlock
  <2>1. /\ compressed' = IF r1 THEN compressed ELSE s1
        /\ Refuse(r1 \/ s1 > MaxCompressed \/ s1 <= 0, "inflate")
      BY Zenon DEF DecodeLast
  <2>2. b1 = bytes
      BY DEF bytes, p, Fragments
  <2>3. h1 = held /\ f1 = final /\ s1 = size
      BY <2>2, Zenon DEF pad
  <2>4. ciphertext' = e
      BY <1>1, <1>7
  <2>5. r1 <=> refused
      BY <2>3, <2>4, Zenon DEF pad
  <2> HIDE DEF r1, refused, s1, size
  <2> QED BY <2>1, <2>3, <2>5, Zenon DEF Refuse
<1>13. final = AesBlock => size = e - pad
  <2>1. final = held - d /\ size = compressed + d + (AesBlock - pad)
      OBVIOUS
  <2> HIDE DEF held, d, final, size
  <2> QED BY <1>2, <1>6, <1>8, <1>9, <2>1, ConstantsPositive
<1>14. DataSize(order) = e - pad
    BY DEF DataSize, e, pad
<1> HIDE DEF held, d, final, size
<1>15. ASSUME step' = "refused" PROVE ~Admissible(order)
  <2> SUFFICES ASSUME Admissible(order) PROVE FALSE
      OBVIOUS
  <2>1. e <= L
      BY <1>2, AdmissibleFits DEF e
  <2>2. pad \in 1..AesBlock /\ e - pad \in 1..MaxCompressed /\ e % AesBlock = 0
      BY <1>14, Zenon DEF Admissible, e, pad
  <2>3. final = AesBlock /\ size = e - pad
      BY <1>11, <1>13, <2>2
  <2>4. ~refused
      BY <1>3, <2>1, <2>2, <2>3, ConstantsPositive
  <2>5. ~(size > MaxCompressed) /\ ~(size <= 0)
      BY <2>2, <2>3, ConstantsPositive
  <2> QED BY <1>12, <1>15, <2>4, <2>5
<1>16. step' \in {"refused", "inflate"}
    BY <1>12
<1>17. compressed' \in Int
  <2>1. size \in Int
      BY <1>2, <1>6, <1>9, ConstantsPositive DEF size
  <2> QED BY <1>6, <1>12, <2>1
<1>18. ASSUME step' = "inflate" PROVE Inflating'
  <2>1. ~refused /\ ~(size > MaxCompressed) /\ ~(size <= 0)
      BY <1>12, <1>18
  <2>2. /\ final = AesBlock /\ pad \in 1..AesBlock /\ compressed' = size
      BY <1>12, <2>1
  <2>3. e % AesBlock = 0 /\ size = e - pad
      BY <1>11, <1>13, <2>2
  <2>4. /\ compressed' = DataSize(order) /\ compressed' \in 0..MaxCompressed
        /\ DataSize(order) \in Nat
      BY <1>3, <1>2, <1>14, <2>1, <2>2, <2>3, ConstantsPositive
  <2>5. offset' = 0 /\ result' = 0 /\ order' = order
      BY <1>1 DEF ExactInv
  <2>6. \E q \in 0..SliceCount(compressed') :
          /\ offset' = Least(q * InflateChunk, compressed')
          /\ result' = Running(Expansions(order))[q]
          /\ order.broken \notin 1..q
      BY <1>2, <2>4, <2>5, InflateStart
  <2>7. result' <= OutputLimit'
      BY <1>2, <2>5, ComputedLimits DEF OutputLimit
  <2> QED BY <2>2, <2>3, <2>4, <2>5, <2>6, <2>7 DEF Inflating, e, pad
<1>19. BufferTypes'
  <2>1. ciphertext' \in Int /\ pending' \in Int /\ block' \in Int
      BY <1>1, <1>3, <1>7, <1>9
  <2> QED BY <1>1, <1>16, <1>17, <2>1 DEF ExactInv, BufferTypes, Steps
<1>20. OrderDataVerdictExact'
    BY <1>1, <1>15, <1>16 DEF OrderDataVerdictExact
<1>21. Whole(order)' /\ encoded' = TotalSize(order.fragments)'
    BY <1>1, <1>2 DEF ExactInv
<1> QED BY <1>16, <1>18, <1>19, <1>20, <1>21 DEF ExactInv

(* Every step of the decoders keeps what they have established exact. *)
LEMMA ExactNext == ExactInv /\ [DecodingStep]_orderVars => ExactInv'
<1> SUFFICES ASSUME ExactInv, [DecodingStep]_orderVars PROVE ExactInv'
    OBVIOUS
<1>1. CASE UNCHANGED orderVars
  <2>1. UNCHANGED <<order, step, frag, encoded, pending, ciphertext, block, compressed, offset, result>>
      BY <1>1 DEF orderVars
  <2>2. (Collected' <=> Collected) /\ (Fed' <=> Fed) /\ (Inflating' <=> Inflating)
        /\ (BufferTypes' <=> BufferTypes) /\ (OrderDataVerdictExact' <=> OrderDataVerdictExact)
      BY <2>1 DEF Collected, Fed, Inflating, BufferTypes, OrderDataVerdictExact, OutputLimit
  <2> QED BY <2>1, <2>2 DEF ExactInv
<1> QED BY <1>1, ExactCollect, ExactBegin, ExactWhole, ExactTake, ExactChunk, ExactLast,
           ExactSlice, ExactFinish, ExactStop DEF DecodingStep

(* Whatever the bank sends, and for all limits and chunk sizes, the decoders  *)
(* expand exactly the order data that is admissible as a whole, to what all   *)
(* its slices expand to.                                                      *)
THEOREM DecodingExact == DecodingSpec => []OrderDataVerdictExact
<1>1. ExactInv => OrderDataVerdictExact
    BY DEF ExactInv
<1> QED BY <1>1, ExactInit, ExactNext, PTL DEF DecodingSpec

-----------------------------------------------------------------------------
(* The documents of a ZIP container. *)

(* The limits are positive numbers. *)
LEMMA ContainerLimits ==
    /\ MaxDecompressed \in Nat /\ MaxDecompressed > 0
    /\ MaxMembers \in Nat /\ MaxMembers > 0
    /\ MaxMemberBytes \in Nat /\ MaxMemberBytes > 0 /\ MaxMemberBytes <= MaxDecompressed
    /\ MaxRatio \in Nat /\ MaxRatio > 0
    /\ ZipChunk \in Nat /\ ZipChunk > 0
BY LimitsPositive, MemberWithinTotal, ZipChunkPositive

(* A member of an archive. *)
MemberForms == [name: Nat, declared: Nat, packed: Nat, actual: Nat, directory: BOOLEAN,
                safe: BOOLEAN, intact: BOOLEAN, nested: BOOLEAN]

(* What ArchiveAdmissible asks of one member. *)
FileGood(m) ==
    /\ m.intact /\ ~m.nested /\ m.actual = m.declared
    /\ m.actual \in 1..MaxMemberBytes
    /\ m.packed > 1 => m.actual <= m.packed * MaxRatio
    /\ m.packed <= 1 => m.actual <= MaxRatio
MemberGood(m) == m.safe /\ IF m.directory THEN DirectoryEmpty(m) ELSE FileGood(m)

(* The types of the state of the extraction. *)
ZipTypes ==
    /\ archive \in ArchiveForms
    /\ member \in Nat /\ names \subseteq Nat /\ total \in Nat /\ content \in Nat
    /\ documents \in Seq([index: Int, size: Nat])
    /\ extraction \in {"open", "member", "read", "last", "extracted", "refused", "stopped"}

(* In the loop over the members. *)
InLoop == extraction \in {"member", "read", "last"}

(* Where the extraction is. *)
ZipPlace ==
    /\ extraction = "open" =>
           /\ member = 0 /\ names = {} /\ total = 0 /\ content = 0 /\ documents = <<>>
    /\ InLoop => /\ archive.container = "ZIP" /\ archive.readable
                 /\ archive.size \in 1..MaxDecompressed
                 /\ Len(archive.members) \in 1..MaxMembers
    /\ extraction \in {"member", "read"} => member \in 1..Len(archive.members)
    /\ extraction = "last" => member = Len(archive.members) + 1
    /\ extraction \in {"member", "last"} => content = 0
    /\ extraction = "read" => /\ content <= Current.actual /\ content <= Current.declared

(* The members before the current one are good, and the current one has       *)
(* passed the checks on its entry when it is read.                            *)
Entered == IF extraction = "read" THEN member ELSE member - 1
ZipPrefix ==
    InLoop =>
        /\ names = {archive.members[i].name : i \in 1..Entered}
        /\ \A i, j \in 1..Entered : archive.members[i].name = archive.members[j].name => i = j
        /\ \A i \in 1..(member - 1) : MemberGood(archive.members[i])
        /\ extraction = "read" =>
               /\ Current.safe /\ ~Current.directory
               /\ Current.declared \in 1..MaxMemberBytes
               /\ Current.packed > 1 => Current.declared <= Current.packed * MaxRatio
               /\ Current.packed <= 1 => Current.declared <= MaxRatio
        /\ total = Running(FileSizes(archive))[member - 1]
                     + (IF extraction = "read" THEN Current.declared ELSE 0)
        /\ total <= MaxDecompressed

(* The documents are the files among the first n members. *)
FilesUpTo(a, docs, n) ==
    /\ {docs[k].index : k \in 1..Len(docs)} = {i - 1 : i \in Files(a) \cap 1..n}
    /\ \A k, l \in 1..Len(docs) : k < l => docs[k].index < docs[l].index
    /\ \A k \in 1..Len(docs) : docs[k].size = a.members[docs[k].index + 1].actual
    /\ SumOf(Sizes(docs)) = Running(FileSizes(a))[n]

(* The documents are the files before the current member. *)
ZipDocuments == InLoop => FilesUpTo(archive, documents, member - 1)

(* The inductive invariant of the extraction. *)
ZipInv == /\ ZipTypes /\ ZipPlace /\ ZipPrefix /\ ZipDocuments
          /\ ContainerVerdictExact /\ DocumentsAreTheFiles /\ ExtractionBounded

(* The members of an archive, and the sizes of its files. *)
LEMMA MembersTyped ==
    ASSUME NEW a \in ArchiveForms
    PROVE  /\ Len(a.members) \in Nat /\ DOMAIN a.members = 1..Len(a.members)
           /\ \A i \in 1..Len(a.members) : a.members[i] \in MemberForms
           /\ a.container \in ContainerTypes /\ a.size \in Nat
           /\ a.readable \in BOOLEAN
<1>1. a.members \in Seq(MemberForms) /\ a.container \in ContainerTypes /\ a.size \in Nat
      /\ a.readable \in BOOLEAN
    BY DEF ArchiveForms, MemberForms
<1> QED BY <1>1

(* The running sum of the sizes of the files. *)
LEMMA FileSums ==
    ASSUME NEW a \in ArchiveForms
    PROVE  /\ Len(FileSizes(a)) = Len(a.members)
           /\ Running(FileSizes(a))[0] = 0
           /\ \A n \in 0..Len(a.members) : Running(FileSizes(a))[n] \in Nat
           /\ \A n \in 1..Len(a.members) :
                  Running(FileSizes(a))[n] = Running(FileSizes(a))[n - 1]
                      + (IF a.members[n].directory THEN 0 ELSE a.members[n].actual)
           /\ \A n \in 0..Len(a.members) : Running(FileSizes(a))[n] <= SumOf(FileSizes(a))
<1> DEFINE f == FileSizes(a)
<1>1. Len(a.members) \in Nat /\ \A i \in 1..Len(a.members) : a.members[i] \in MemberForms
    BY MembersTyped
<1>2. \A n \in 1..Len(a.members) :
          f[n] = (IF a.members[n].directory THEN 0 ELSE a.members[n].actual) /\ f[n] \in Nat
    BY <1>1 DEF FileSizes, Files, MemberForms
<1>3. f \in Seq(Nat) /\ Len(f) = Len(a.members)
  <2>1. f \in [1..Len(a.members) -> Nat]
      BY <1>2 DEF FileSizes
  <2> HIDE DEF f
  <2> QED BY <1>1, <2>1
<1> HIDE DEF f
<1>4. Running(f)[0] = 0 /\ \A n \in 1..Len(f) : Running(f)[n] = Running(f)[n - 1] + f[n]
    BY <1>3, RunningStep
<1>5. \A n \in 0..Len(f) : Running(f)[n] \in Nat
    BY <1>3, RunningTyped
<1>6. ASSUME NEW n \in 0..Len(f) PROVE Running(f)[n] <= SumOf(f)
  <2>1. Len(f) \in 0..Len(f) /\ n <= Len(f)
      BY <1>3
  <2> QED BY <1>3, <2>1, RunningGrows DEF SumOf
<1> QED BY <1>2, <1>3, <1>4, <1>5, <1>6 DEF f

(* ArchiveAdmissible, member by member. *)
LEMMA AdmissibleByMember ==
    ASSUME NEW a \in ArchiveForms
    PROVE  ArchiveAdmissible(a) <=>
               /\ a.readable /\ Len(a.members) <= MaxMembers /\ Files(a) # {}
               /\ \A i, j \in 1..Len(a.members) :
                      a.members[i].name = a.members[j].name => i = j
               /\ \A i \in 1..Len(a.members) : MemberGood(a.members[i])
               /\ SumOf(FileSizes(a)) <= MaxDecompressed
<1> DEFINE members == ToSet(a.members)
           files == {m \in members : ~m.directory}
<1>1. members = {a.members[i] : i \in 1..Len(a.members)}
    BY MembersTyped DEF ToSet
<1>2. files # {} <=> Files(a) # {}
    BY <1>1 DEF Files
<1>3. /\ \A m \in members : m.safe
      /\ \A m \in members \ files : DirectoryEmpty(m)
      /\ \A m \in files : FileGood(m)
      <=> \A i \in 1..Len(a.members) : MemberGood(a.members[i])
    BY <1>1 DEF MemberGood
<1> QED BY <1>2, <1>3 DEF ArchiveAdmissible, FileGood

(* Before the container is opened nothing is held. *)
LEMMA ZipStart ==
    ASSUME NEW a \in ArchiveForms, ZipInit(a)
    PROVE  ZipInv
<1>1. documents = <<>> /\ extraction = "open" /\ content = 0
    BY DEF ZipInit
<1>2. ZipTypes
    BY DEF ZipInit, ZipTypes
<1>3. SumOf(Sizes(documents)) = 0
  <2>1. Sizes(documents) = <<>> /\ Len(<<>>) = 0
      BY <1>1 DEF Sizes
  <2> QED BY <2>1, RunningStep DEF SumOf
<1> QED
    BY <1>1, <1>2, <1>3, ContainerLimits
    DEF ZipInit, ZipInv, ZipPlace, ZipPrefix, ZipDocuments, InLoop, ContainerVerdictExact,
        DocumentsAreTheFiles, ExtractionBounded

(* What every step uses of the invariant. *)
LEMMA ZipFacts ==
    ASSUME ZipTypes
    PROVE  /\ Len(archive.members) \in Nat
           /\ \A i \in 1..Len(archive.members) : archive.members[i] \in MemberForms
           /\ Sizes(documents) \in Seq(Nat) /\ SumOf(Sizes(documents)) \in Nat
<1>1. archive \in ArchiveForms /\ documents \in Seq([index: Int, size: Nat])
    BY DEF ZipTypes
<1>2. Len(documents) \in Nat /\ \A i \in 1..Len(documents) : documents[i].size \in Nat
  <2>1. \A i \in 1..Len(documents) : documents[i] \in [index: Int, size: Nat]
      BY <1>1, ElementTyped
  <2> QED BY <1>1, <2>1
<1>3. Sizes(documents) \in [1..Len(documents) -> Nat]
    BY <1>2 DEF Sizes
<1>4. Sizes(documents) \in Seq(Nat)
    BY <1>2, <1>3
<1>5. SumOf(Sizes(documents)) \in Nat
  <2>1. Len(Sizes(documents)) \in 0..Len(Sizes(documents))
      BY <1>4
  <2> QED BY <1>4, <2>1, RunningTyped DEF SumOf
<1> QED BY <1>1, <1>4, <1>5, MembersTyped

(* The steps, one by one. *)
LEMMA OpenKeeps == ZipInv /\ OpenContainer => ZipInv'
<1> SUFFICES ASSUME ZipInv, OpenContainer PROVE ZipInv'
    OBVIOUS
<1>0. /\ archive \in ArchiveForms /\ extraction = "open" /\ documents = <<>> /\ content = 0
      /\ UNCHANGED <<archive, names, total, content>> /\ names = {} /\ total = 0 /\ member = 0
    BY DEF ZipInv, ZipTypes, ZipPlace, OpenContainer
<1>1. /\ Len(archive.members) \in Nat
      /\ SumOf(Sizes(documents)) = 0
      /\ archive.container \in ContainerTypes /\ archive.size \in Nat
  <2>1. Sizes(documents) = <<>> /\ Len(<<>>) = 0
      BY <1>0 DEF Sizes
  <2> QED BY <1>0, <2>1, RunningStep, MembersTyped DEF SumOf
<1>2. CASE /\ archive.size \in 1..MaxDecompressed /\ archive.container = "NONE"
           /\ documents' = <<[index |-> NoIndex, size |-> archive.size]>>
           /\ extraction' = "extracted"
           /\ UNCHANGED member
  <2>1. ZipTypes'
      BY <1>0, <1>1, <1>2 DEF ZipInv, ZipTypes, NoIndex
  <2>2. ContainerAdmissible(archive)
      BY <1>2 DEF ContainerAdmissible
  <2> QED
      BY <1>0, <1>2, <2>1, <2>2, ContainerLimits
      DEF ZipInv, ZipPlace, ZipPrefix, ZipDocuments, InLoop, ContainerVerdictExact,
          DocumentsAreTheFiles, ExtractionBounded
<1>3. CASE /\ archive.size \in 1..MaxDecompressed /\ archive.container = "ZIP"
           /\ archive.readable /\ Len(archive.members) \in 1..MaxMembers
           /\ member' = 1
           /\ extraction' = "member"
           /\ UNCHANGED documents
  <2>1. ZipTypes' /\ ZipPlace'
      BY <1>0, <1>3, ContainerLimits DEF ZipInv, ZipTypes, ZipPlace, InLoop
  <2>2. Running(FileSizes(archive))[0] = 0
      BY <1>0, FileSums
  <2>3. ZipPrefix'
      BY <1>0, <1>3, <2>2, ContainerLimits DEF ZipPrefix, Entered, InLoop
  <2>4. ZipDocuments'
    <3>1. Files(archive) \cap 1..0 = {} /\ Len(documents) = 0
        BY <1>0
    <3> QED BY <1>0, <1>1, <1>3, <2>2, <3>1 DEF ZipDocuments, FilesUpTo, InLoop
  <2> QED
      BY <1>0, <1>1, <1>3, <2>1, <2>3, <2>4, ContainerLimits
      DEF ZipInv, ContainerVerdictExact, DocumentsAreTheFiles, ExtractionBounded
<1>4. CASE /\ \/ archive.size \notin 1..MaxDecompressed
              \/ archive.container \in {"XML", "SVC"}
              \/ /\ archive.container = "ZIP"
                 /\ ~archive.readable \/ Len(archive.members) \notin 1..MaxMembers
           /\ extraction' = "refused"
           /\ UNCHANGED <<member, documents>>
  <2>1. ~ContainerAdmissible(archive)
    <3>1. Len(archive.members) \notin 1..MaxMembers =>
              ~(Len(archive.members) <= MaxMembers) \/ Files(archive) = {}
        BY <1>1, ContainerLimits DEF Files
    <3> QED BY <1>0, <1>4, <3>1, AdmissibleByMember DEF ContainerAdmissible
  <2>2. ZipTypes'
      BY <1>0, <1>4 DEF ZipInv, ZipTypes
  <2> QED
      BY <1>0, <1>1, <1>4, <2>1, <2>2, ContainerLimits
      DEF ZipInv, ZipPlace, ZipPrefix, ZipDocuments, InLoop, ContainerVerdictExact,
          DocumentsAreTheFiles, ExtractionBounded
<1> QED BY <1>2, <1>3, <1>4 DEF OpenContainer

(* The documents after a directory and after a file. *)
LEMMA FilesDirectory ==
    ASSUME ZipTypes, NEW n \in 1..Len(archive.members), FilesUpTo(archive, documents, n - 1),
           archive.members[n].directory
    PROVE  FilesUpTo(archive, documents, n)
<1>1. archive \in ArchiveForms
    BY DEF ZipTypes
<1>2. Running(FileSizes(archive))[n] = Running(FileSizes(archive))[n - 1]
  <2>1. Running(FileSizes(archive))[n - 1] \in Nat
      BY <1>1, FileSums, MembersTyped
  <2> QED BY <1>1, <2>1, FileSums
<1>3. Files(archive) \cap 1..n = Files(archive) \cap 1..(n - 1)
    BY DEF Files
<1> QED BY <1>2, <1>3 DEF FilesUpTo

(* A file adds its document, under the index of its entry. *)
LEMMA FilesFile ==
    ASSUME ZipTypes, NEW n \in 1..Len(archive.members), FilesUpTo(archive, documents, n - 1),
           ~archive.members[n].directory,
           archive' = archive,
           documents' = Append(documents, [index |-> n - 1, size |-> archive.members[n].actual])
    PROVE  documents' \in Seq([index: Int, size: Nat]) /\ FilesUpTo(archive, documents', n)
<1> DEFINE doc == [index |-> n - 1, size |-> archive.members[n].actual]
<1>0. archive \in ArchiveForms /\ documents \in Seq([index: Int, size: Nat])
    BY DEF ZipTypes
<1>1. doc \in [index: Int, size: Nat] /\ Len(documents) \in Nat /\ archive.members[n].actual \in Nat
    BY <1>0, MembersTyped DEF MemberForms
<1>2. /\ documents' \in Seq([index: Int, size: Nat])
      /\ Len(documents') = Len(documents) + 1
      /\ documents'[Len(documents) + 1] = doc
      /\ \A k \in 1..Len(documents) : documents'[k] = documents[k]
    BY <1>0, <1>1
<1>3. \A k \in 1..Len(documents') : k \in 1..Len(documents) \/ k = Len(documents) + 1
    BY <1>1, <1>2
<1>4. \A k \in 1..Len(documents) : k \in 1..Len(documents') /\ k < Len(documents) + 1
    BY <1>1, <1>2
<1>5. Len(documents) + 1 \in 1..Len(documents')
    BY <1>1, <1>2
<1> HIDE DEF doc
<1>6. doc.index = n - 1 /\ doc.size = archive.members[n].actual
    BY DEF doc
<1>7. \A k \in 1..Len(documents) : \E i \in Files(archive) \cap 1..(n - 1) :
          documents[k].index = i - 1
    BY DEF FilesUpTo
<1>8. {documents'[k].index : k \in 1..Len(documents')} = {i - 1 : i \in Files(archive) \cap 1..n}
  <2>1. Files(archive) \cap 1..n = (Files(archive) \cap 1..(n - 1)) \cup {n}
      BY DEF Files
  <2>2. {documents'[k].index : k \in 1..Len(documents')}
            = {documents[k].index : k \in 1..Len(documents)} \cup {n - 1}
      BY <1>2, <1>3, <1>4, <1>5, <1>6
  <2> QED BY <2>1, <2>2 DEF FilesUpTo
<1>9. ASSUME NEW k \in 1..Len(documents'), NEW l \in 1..Len(documents'), k < l
      PROVE  documents'[k].index < documents'[l].index
  <2>1. CASE l \in 1..Len(documents)
    <3>1. k \in 1..Len(documents)
        BY <1>1, <1>9, <2>1, <1>3
    <3> QED BY <1>2, <1>9, <2>1, <3>1 DEF FilesUpTo
  <2>2. CASE l = Len(documents) + 1
    <3>1. k \in 1..Len(documents)
        BY <1>1, <1>9, <2>2, <1>3
    <3>2. PICK i \in Files(archive) \cap 1..(n - 1) : documents[k].index = i - 1
        BY <1>7, <3>1
    <3>3. i - 1 < n - 1
        BY <3>2
    <3> QED BY <1>2, <1>6, <2>2, <3>1, <3>2, <3>3
  <2> QED BY <1>3, <2>1, <2>2
<1>10. ASSUME NEW k \in 1..Len(documents')
       PROVE  documents'[k].size = archive.members[documents'[k].index + 1].actual
  <2>1. CASE k \in 1..Len(documents)
      BY <1>2, <2>1 DEF FilesUpTo
  <2>2. CASE k = Len(documents) + 1
    <3>1. n - 1 + 1 = n
        OBVIOUS
    <3> QED BY <1>2, <1>6, <2>2, <3>1
  <2> QED BY <1>3, <2>1, <2>2
<1>11. SumOf(Sizes(documents')) = Running(FileSizes(archive))[n]
  <2>1. Sizes(documents') = Append(Sizes(documents), archive.members[n].actual)
    <3> DEFINE a == Append(Sizes(documents), archive.members[n].actual)
    <3>1. Sizes(documents) \in Seq(Nat) /\ Len(Sizes(documents)) = Len(documents)
        BY <1>1, ZipFacts DEF Sizes
    <3>2. /\ a \in Seq(Nat) /\ Len(a) = Len(documents) + 1
          /\ a[Len(documents) + 1] = archive.members[n].actual
          /\ \A k \in 1..Len(documents) : a[k] = Sizes(documents)[k]
        BY <1>1, <3>1
    <3> HIDE DEF a
    <3>3. \A k \in 1..Len(documents) : a[k] = documents[k].size
        BY <3>2 DEF Sizes
    <3>4. \A k \in 1..Len(documents') : Sizes(documents')[k] = a[k]
        BY <1>2, <1>3, <1>6, <3>2, <3>3 DEF Sizes
    <3>5. a = [k \in 1..Len(documents') |-> a[k]]
        BY <1>2, <3>2
    <3>6. Sizes(documents') = [k \in 1..Len(documents') |-> Sizes(documents')[k]]
        BY DEF Sizes
    <3>7. Sizes(documents') = a
        BY <3>4, <3>5, <3>6
    <3> QED BY <3>7 DEF a
  <2>2. Sizes(documents) \in Seq(Nat)
      BY ZipFacts
  <2>3. SumOf(Sizes(documents')) = SumOf(Sizes(documents)) + archive.members[n].actual
      BY <1>1, <2>1, <2>2, SumAppend
  <2> QED BY <1>0, <2>3, FileSums DEF FilesUpTo
<1> QED BY <1>2, <1>8, <1>9, <1>10, <1>11 DEF FilesUpTo

(* What holds in the loop. *)
LEMMA LoopFacts ==
    ASSUME ZipInv, InLoop
    PROVE  /\ archive \in ArchiveForms /\ archive.container = "ZIP"
           /\ Len(archive.members) \in Nat /\ Len(archive.members) \in 1..MaxMembers
           /\ member \in 1..(Len(archive.members) + 1)
           /\ member - 1 \in 0..Len(archive.members)
           /\ extraction # "last" => member \in 1..Len(archive.members)
           /\ extraction # "last" => Current \in MemberForms
           /\ Running(FileSizes(archive))[member - 1] \in Nat
           /\ SumOf(Sizes(documents)) = Running(FileSizes(archive))[member - 1]
           /\ SumOf(Sizes(documents)) + (IF extraction = "read" THEN Current.declared ELSE 0)
                  = total
           /\ total \in Nat /\ total <= MaxDecompressed
<1>1. archive \in ArchiveForms /\ total \in Nat
    BY DEF ZipInv, ZipTypes
<1>2. /\ archive.container = "ZIP" /\ Len(archive.members) \in 1..MaxMembers
      /\ extraction # "last" => member \in 1..Len(archive.members)
      /\ extraction = "last" => member = Len(archive.members) + 1
    BY DEF ZipInv, ZipPlace, InLoop
<1>3. Len(archive.members) \in Nat /\ \A i \in 1..Len(archive.members) :
          archive.members[i] \in MemberForms
    BY <1>1, MembersTyped
<1>4. member \in 1..(Len(archive.members) + 1) /\ member - 1 \in 0..Len(archive.members)
    BY <1>2, <1>3
<1>5. Running(FileSizes(archive))[member - 1] \in Nat
    BY <1>1, <1>4, FileSums
<1>6. /\ SumOf(Sizes(documents)) = Running(FileSizes(archive))[member - 1]
      /\ total = Running(FileSizes(archive))[member - 1]
                     + (IF extraction = "read" THEN Current.declared ELSE 0)
      /\ total <= MaxDecompressed
    BY DEF ZipInv, ZipDocuments, FilesUpTo, ZipPrefix
<1> QED BY <1>1, <1>2, <1>3, <1>4, <1>5, <1>6 DEF Current

(* The loop goes on after member n: everything about the members before is    *)
(* now about n too.                                                           *)
LEMMA LoopContinues ==
    ASSUME ZipInv, InLoop, extraction # "last",
           archive' = archive, member' = member + 1,
           extraction' = NextMember, content' = 0,
           ZipTypes', FilesUpTo(archive, documents', member),
           MemberGood(Current), names' = {archive.members[i].name : i \in 1..member},
           \A i, j \in 1..member : archive.members[i].name = archive.members[j].name => i = j,
           total' = Running(FileSizes(archive))[member], total' <= MaxDecompressed
    PROVE  ZipInv'
<1>0. /\ archive \in ArchiveForms /\ archive.container = "ZIP" /\ Len(archive.members) \in Nat
      /\ member \in 1..Len(archive.members)
    BY LoopFacts
<1>1. /\ member' - 1 = member /\ member \in Nat
      /\ member # Len(archive.members) => member + 1 \in 1..Len(archive.members)
    BY <1>0
<1>2. extraction' = (IF member = Len(archive.members) THEN "last" ELSE "member")
    BY DEF NextMember
<1>3. ZipPlace'
    BY <1>0, <1>1, <1>2 DEF ZipInv, ZipPlace, InLoop
<1>4. Entered' = member
    BY <1>1, <1>2 DEF Entered
<1>5. \A i \in 1..member : MemberGood(archive.members[i])
  <2>1. \A i \in 1..member : i \in 1..(member - 1) \/ i = member
      BY <1>1
  <2> QED BY <2>1 DEF ZipInv, ZipPrefix, Current
<1>6. total' = total' + 0
    BY DEF ZipTypes
<1>7. ZipPrefix'
    BY <1>1, <1>2, <1>4, <1>5, <1>6 DEF ZipPrefix
<1>8. ZipDocuments' /\ SumOf(Sizes(documents'))  = total'
    BY <1>1 DEF ZipDocuments, FilesUpTo
<1>9. ExtractionBounded'
    BY <1>8, ContainerLimits DEF ZipTypes, ExtractionBounded
<1> QED
    BY <1>2, <1>3, <1>7, <1>8, <1>9 DEF ZipInv, ContainerVerdictExact, DocumentsAreTheFiles

(* An entry that is accepted. *)
LEMMA EnterKeeps == ZipInv /\ EnterMember => ZipInv'
<1> SUFFICES ASSUME ZipInv, EnterMember PROVE ZipInv'
    OBVIOUS
<1>0. InLoop /\ extraction = "member" /\ EntryAccepted(Current, names)
      /\ names' = names \cup {Current.name} /\ content' = 0 /\ UNCHANGED <<archive, documents>>
    BY DEF EnterMember, InLoop
<1>1. /\ archive \in ArchiveForms /\ archive.container = "ZIP" /\ Len(archive.members) \in Nat
      /\ member \in 1..Len(archive.members) /\ Current \in MemberForms
      /\ Running(FileSizes(archive))[member - 1] \in Nat
      /\ SumOf(Sizes(documents)) = Running(FileSizes(archive))[member - 1]
      /\ total = Running(FileSizes(archive))[member - 1]
      /\ total \in Nat /\ total <= MaxDecompressed
    BY <1>0, LoopFacts
<1>2. /\ names = {archive.members[i].name : i \in 1..(member - 1)}
      /\ \A i, j \in 1..(member - 1) :
             archive.members[i].name = archive.members[j].name => i = j
    BY <1>0 DEF ZipInv, ZipPrefix, Entered
<1>3. \A i \in 1..member : i \in 1..(member - 1) \/ i = member
    BY <1>1
<1>4. 1..(member - 1) \subseteq 1..member /\ member \in 1..member
    BY <1>1
<1>5. names' = {archive.members[i].name : i \in 1..member}
    BY <1>0, <1>2, <1>3, <1>4 DEF Current
<1>6. \A i, j \in 1..member : archive.members[i].name = archive.members[j].name => i = j
    BY <1>0, <1>2, <1>3 DEF EntryAccepted, Current
<1>7. names' \subseteq Nat
    BY <1>0, <1>1 DEF ZipInv, ZipTypes, MemberForms
<1>8. CASE /\ Current.directory /\ DirectoryEmpty(Current)
           /\ member' = member + 1
           /\ extraction' = NextMember
           /\ UNCHANGED total
  <2>1. ZipTypes'
      BY <1>0, <1>1, <1>7, <1>8, SMTT(30) DEF ZipInv, ZipTypes, NextMember
  <2>2. FilesUpTo(archive, documents, member)
      BY <1>0, <1>1, <1>8, FilesDirectory DEF ZipInv, ZipDocuments, Current
  <2>3. FilesUpTo(archive, documents', member)
      BY <1>0, <2>2 DEF FilesUpTo
  <2>4. total' = Running(FileSizes(archive))[member]
      BY <1>1, <1>8, FileSums DEF Current
  <2>5. MemberGood(Current)
      BY <1>0, <1>8 DEF MemberGood, EntryAccepted
  <2>6. /\ FilesUpTo(archive, documents', member) /\ extraction # "last"
        /\ archive' = archive /\ total' <= MaxDecompressed
      BY <1>0, <1>1, <1>8, <2>3
  <2> QED BY <1>0, <1>5, <1>6, <1>8, <2>1, <2>4, <2>5, <2>6, LoopContinues
<1>9. CASE /\ ~Current.directory /\ SizeAccepted(Current)
           /\ total' = total + Current.declared
           /\ extraction' = "read"
           /\ UNCHANGED member
  <2>0. Current' = Current
      BY <1>0, <1>9 DEF Current
  <2>1. ZipTypes' /\ ZipPlace'
    <3>1. Current.declared \in Nat /\ Current.actual \in Nat
        BY <1>1 DEF MemberForms
    <3>2. total' \in Nat /\ 0 <= Current.actual /\ 0 <= Current.declared
        BY <1>1, <1>9, <3>1
    <3>3. ZipTypes'
        BY <1>0, <1>7, <1>9, <3>2 DEF ZipInv, ZipTypes
    <3>4. ZipPlace'
        BY <1>0, <1>1, <1>9, <2>0, <3>2 DEF ZipInv, ZipPlace, InLoop
    <3> QED BY <3>3, <3>4
  <2>2. /\ Current.safe /\ ~Current.directory
        /\ Current.declared \in 1..MaxMemberBytes
        /\ Current.packed > 1 => Current.declared <= Current.packed * MaxRatio
        /\ Current.packed <= 1 => Current.declared <= MaxRatio
        /\ total + Current.declared <= MaxDecompressed
      BY <1>0, <1>1, <1>9, ContainerLimits DEF SizeAccepted, EntryAccepted, MemberForms
  <2>3. Entered' = member
      BY <1>9 DEF Entered
  <2>4. ZipPrefix'
      BY <1>0, <1>1, <1>5, <1>6, <1>9, <2>0, <2>2, <2>3 DEF ZipInv, ZipPrefix, InLoop
  <2>5. ZipDocuments'
      BY <1>0, <1>9 DEF ZipInv, ZipDocuments, FilesUpTo, InLoop
  <2> QED
      BY <1>0, <1>1, <1>9, <2>1, <2>4, <2>5, ContainerLimits
      DEF ZipInv, ContainerVerdictExact, DocumentsAreTheFiles, ExtractionBounded
<1> QED BY <1>8, <1>9 DEF EnterMember

(* A state that refuses or stops keeps the invariant, if what it refuses is   *)
(* not admissible and what it holds is bounded.                               *)
LEMMA EndsKeep ==
    ASSUME ZipInv, extraction' \in {"refused", "stopped"},
           UNCHANGED <<archive, member, names, total, documents>>,
           content' \in Nat, ExtractionBounded',
           extraction' = "refused" => ~ContainerAdmissible(archive)
    PROVE  ZipInv'
<1>1. ZipTypes'
    BY DEF ZipInv, ZipTypes
<1> QED
    BY <1>1 DEF ZipInv, ZipPlace, ZipPrefix, ZipDocuments, InLoop, ContainerVerdictExact,
                DocumentsAreTheFiles

(* A refused entry makes the archive not admissible. *)
LEMMA RefuseKeeps == ZipInv /\ RefuseMember => ZipInv'
<1> SUFFICES ASSUME ZipInv, RefuseMember PROVE ZipInv'
    OBVIOUS
<1>0. InLoop /\ extraction = "member" /\ extraction' = "refused"
      /\ UNCHANGED <<archive, member, names, total, content, documents>>
    BY DEF RefuseMember, InLoop
<1>1. /\ archive \in ArchiveForms /\ archive.container = "ZIP" /\ Len(archive.members) \in Nat
      /\ member \in 1..Len(archive.members) /\ Current \in MemberForms
      /\ Running(FileSizes(archive))[member - 1] \in Nat
      /\ total = Running(FileSizes(archive))[member - 1] /\ total \in Nat
    BY <1>0, LoopFacts
<1>2. ASSUME ArchiveAdmissible(archive) PROVE FALSE
  <2>1. /\ \A i, j \in 1..Len(archive.members) :
               archive.members[i].name = archive.members[j].name => i = j
        /\ MemberGood(Current)
        /\ SumOf(FileSizes(archive)) <= MaxDecompressed
      BY <1>1, <1>2, AdmissibleByMember DEF Current
  <2>2. EntryAccepted(Current, names)
    <3>1. names = {archive.members[i].name : i \in 1..(member - 1)}
        BY <1>0 DEF ZipInv, ZipPrefix, Entered
    <3>2. \A i \in 1..(member - 1) : i \in 1..Len(archive.members) /\ i # member
        BY <1>1
    <3>3. Current.name \notin names
        BY <1>1, <2>1, <3>1, <3>2 DEF Current
    <3> QED BY <2>1, <3>3 DEF EntryAccepted, MemberGood
  <2>3. ~Current.directory /\ ~SizeAccepted(Current)
      BY <2>1, <2>2 DEF RefuseMember, MemberGood
  <2>4. /\ Current.actual = Current.declared /\ Current.actual \in 1..MaxMemberBytes
        /\ Current.packed > 1 => Current.actual <= Current.packed * MaxRatio
        /\ Current.packed <= 1 => Current.actual <= MaxRatio
      BY <2>1, <2>3 DEF MemberGood, FileGood
  <2>5. /\ Running(FileSizes(archive))[member] = total + Current.actual
        /\ Running(FileSizes(archive))[member] <= SumOf(FileSizes(archive))
        /\ SumOf(FileSizes(archive)) \in Nat
    <3>1. /\ member \in 0..Len(archive.members)
          /\ Len(archive.members) \in 0..Len(archive.members)
          /\ Len(FileSizes(archive)) = Len(archive.members)
        BY <1>1, FileSums
    <3>2. SumOf(FileSizes(archive)) \in Nat
        BY <1>1, <3>1, FileSums DEF SumOf
    <3> QED BY <1>1, <2>3, <3>1, <3>2, FileSums DEF Current
  <2>6. total + Current.declared <= MaxDecompressed
      BY <1>1, <2>1, <2>4, <2>5, ContainerLimits DEF MemberForms
  <2>7. Current.declared > 0 /\ Current.declared <= MaxMemberBytes
      BY <2>4, ContainerLimits
  <2>8. Current.declared <= (IF Current.packed > 1 THEN Current.packed ELSE 1) * MaxRatio
      BY <1>1, <2>4, ContainerLimits DEF MemberForms
  <2> QED BY <2>3, <2>6, <2>7, <2>8 DEF SizeAccepted
<1>3. ~ContainerAdmissible(archive)
    BY <1>1, <1>2 DEF ContainerAdmissible
<1>4. ExtractionBounded' /\ content' \in Nat
    BY <1>0 DEF ZipInv, ZipTypes, ExtractionBounded
<1> QED BY <1>0, <1>3, <1>4, EndsKeep

(* A chunk of a member: more than declared makes the archive not admissible.  *)
LEMMA ReadKeeps == ZipInv /\ ReadMember => ZipInv'
<1> SUFFICES ASSUME ZipInv, ReadMember PROVE ZipInv'
    OBVIOUS
<1>0. /\ InLoop /\ extraction = "read" /\ content < Current.actual
      /\ content' = IF content + ZipChunk <= Current.actual THEN content + ZipChunk
                    ELSE Current.actual
      /\ extraction' = IF TooLong(Current, content') THEN "refused" ELSE "read"
      /\ UNCHANGED <<archive, member, names, total, documents>>
    BY DEF ReadMember, InLoop
<1>1. /\ archive \in ArchiveForms /\ archive.container = "ZIP" /\ Len(archive.members) \in Nat
      /\ member \in 1..Len(archive.members) /\ Current \in MemberForms
      /\ SumOf(Sizes(documents)) + Current.declared = total
      /\ SumOf(Sizes(documents)) \in Nat
      /\ total \in Nat /\ total <= MaxDecompressed
    BY <1>0, LoopFacts
<1>2. /\ content \in Nat /\ content <= Current.declared /\ Current.declared <= MaxMemberBytes
      /\ ~Current.directory /\ Current.actual \in Nat /\ Current.declared \in Nat
    BY <1>0, <1>1, ContainerLimits DEF ZipInv, ZipTypes, ZipPlace, ZipPrefix, MemberForms
<1>3. content' \in Nat /\ content' <= content + ZipChunk /\ content' <= Current.actual
    BY <1>0, <1>2, ContainerLimits
<1>4. ExtractionBounded'
    BY <1>0, <1>1, <1>2, <1>3, ContainerLimits DEF ExtractionBounded
<1>5. CASE TooLong(Current, content')
  <2>1. ~MemberGood(Current)
      BY <1>2, <1>3, <1>5, ContainerLimits DEF TooLong, MemberGood, FileGood
  <2>2. ~ContainerAdmissible(archive)
      BY <1>1, <2>1, AdmissibleByMember DEF ContainerAdmissible, Current
  <2> QED BY <1>0, <1>3, <1>4, <1>5, <2>2, EndsKeep
<1>6. CASE ~TooLong(Current, content')
  <2>0. extraction' = "read" /\ Current' = Current /\ content' <= Current.declared
      BY <1>0, <1>2, <1>3, <1>6 DEF Current, TooLong
  <2>1. ZipTypes' /\ ZipPlace'
    <3>1. ZipTypes'
        BY <1>0, <1>3, <2>0 DEF ZipInv, ZipTypes
    <3>2. ZipPlace'
        BY <1>0, <1>3, <2>0 DEF ZipInv, ZipPlace, InLoop
    <3> QED BY <3>1, <3>2
  <2>2. ZipPrefix' /\ ZipDocuments'
    <3>1. Entered' = Entered /\ InLoop'
        BY <1>0, <2>0 DEF InLoop, Entered
    <3>2. ZipPrefix'
        BY <1>0, <2>0, <3>1 DEF ZipInv, ZipPrefix
    <3>3. ZipDocuments'
        BY <1>0, <3>1 DEF ZipInv, ZipDocuments, FilesUpTo
    <3> QED BY <3>2, <3>3
  <2> QED
      BY <1>4, <2>0, <2>1, <2>2 DEF ZipInv, ContainerVerdictExact, DocumentsAreTheFiles
<1> QED BY <1>5, <1>6

(* A member that is read completely is a document, or the archive is not      *)
(* admissible.                                                                *)
LEMMA FinishKeeps == ZipInv /\ FinishMember => ZipInv'
<1> SUFFICES ASSUME ZipInv, FinishMember PROVE ZipInv'
    OBVIOUS
<1>0. /\ InLoop /\ extraction = "read" /\ content = Current.actual
      /\ UNCHANGED <<archive, names, total>>
    BY DEF FinishMember, InLoop
<1>1. /\ archive \in ArchiveForms /\ archive.container = "ZIP" /\ Len(archive.members) \in Nat
      /\ member \in 1..Len(archive.members) /\ Current \in MemberForms
      /\ Running(FileSizes(archive))[member - 1] \in Nat
      /\ total = Running(FileSizes(archive))[member - 1] + Current.declared
      /\ total \in Nat /\ total <= MaxDecompressed
  <2>1. total = Running(FileSizes(archive))[member - 1] + Current.declared
      BY <1>0 DEF ZipInv, ZipPrefix
  <2> QED BY <1>0, <2>1, LoopFacts
<1>2. /\ Current.safe /\ ~Current.directory
      /\ Current.declared \in 1..MaxMemberBytes
      /\ Current.packed > 1 => Current.declared <= Current.packed * MaxRatio
      /\ Current.packed <= 1 => Current.declared <= MaxRatio
      /\ names = {archive.members[i].name : i \in 1..member}
      /\ \A i, j \in 1..member : archive.members[i].name = archive.members[j].name => i = j
    BY <1>0 DEF ZipInv, ZipPrefix, Entered
<1>3. CASE content = Current.declared /\ Current.intact /\ ~Current.nested
  <2>1. /\ documents' = Append(documents, [index |-> member - 1, size |-> Current.actual])
        /\ member' = member + 1 /\ content' = 0 /\ extraction' = NextMember
      BY <1>0, <1>3 DEF FinishMember
  <2>2. MemberGood(Current)
      BY <1>0, <1>2, <1>3 DEF MemberGood, FileGood
  <2>3. documents' \in Seq([index: Int, size: Nat]) /\ FilesUpTo(archive, documents', member)
    <3>1. ZipTypes /\ FilesUpTo(archive, documents, member - 1) /\ ~archive.members[member].directory
          /\ archive' = archive
          /\ documents' = Append(documents, [index |-> member - 1,
                                             size |-> archive.members[member].actual])
        BY <1>0, <1>2, <2>1 DEF ZipInv, ZipDocuments, Current
    <3> QED BY <1>1, <3>1, FilesFile
  <2>4. ZipTypes'
      BY <1>0, <1>1, <2>1, <2>3 DEF ZipInv, ZipTypes, NextMember
  <2>5. total' = Running(FileSizes(archive))[member] /\ total' <= MaxDecompressed
    <3>1. Running(FileSizes(archive))[member]
              = Running(FileSizes(archive))[member - 1] + archive.members[member].actual
        BY <1>1, <1>2, FileSums DEF Current
    <3>2. archive.members[member].actual = archive.members[member].declared
        BY <1>0, <1>3 DEF Current
    <3> QED BY <1>0, <1>1, <3>1, <3>2 DEF Current
  <2>6. /\ names' = {archive.members[i].name : i \in 1..member}
        /\ extraction # "last" /\ archive' = archive
      BY <1>0, <1>2
  <2> QED BY <1>0, <1>2, <2>1, <2>2, <2>3, <2>4, <2>5, <2>6, LoopContinues
<1>4. CASE ~(content = Current.declared /\ Current.intact /\ ~Current.nested)
  <2>1. extraction' = "refused" /\ UNCHANGED <<documents, member, content>>
      BY <1>4 DEF FinishMember
  <2>2. ~MemberGood(Current)
      BY <1>0, <1>2, <1>4 DEF MemberGood, FileGood
  <2>3. ~ContainerAdmissible(archive)
      BY <1>1, <2>2, AdmissibleByMember DEF ContainerAdmissible, Current
  <2>4. ExtractionBounded' /\ content' \in Nat
      BY <1>0, <2>1 DEF ZipInv, ZipTypes, ExtractionBounded
  <2> QED BY <1>0, <2>1, <2>3, <2>4, EndsKeep
<1> QED BY <1>3, <1>4

(* The end of the archive. *)
LEMMA ArchiveKeeps == ZipInv /\ FinishArchive => ZipInv'
<1> SUFFICES ASSUME ZipInv, FinishArchive PROVE ZipInv'
    OBVIOUS
<1>0. /\ InLoop /\ extraction = "last"
      /\ extraction' = IF documents = <<>> THEN "refused" ELSE "extracted"
      /\ UNCHANGED <<archive, member, names, total, content, documents>>
    BY DEF FinishArchive, InLoop
<1>1. /\ archive \in ArchiveForms /\ archive.container = "ZIP" /\ Len(archive.members) \in Nat
      /\ member = Len(archive.members) + 1 /\ member - 1 = Len(archive.members)
      /\ archive.readable /\ archive.size \in 1..MaxDecompressed
      /\ Len(archive.members) <= MaxMembers
    BY <1>0, LoopFacts DEF ZipInv, ZipPlace
<1>2. FilesUpTo(archive, documents, Len(archive.members))
    BY <1>0, <1>1 DEF ZipInv, ZipDocuments
<1>3. Files(archive) \cap 1..Len(archive.members) = Files(archive)
    BY DEF Files
<1>4. documents \in Seq([index: Int, size: Nat]) /\ content \in Nat
    BY DEF ZipInv, ZipTypes
<1>5. documents = <<>> <=> Files(archive) = {}
  <2>1. documents = <<>> <=> 1..Len(documents) = {}
    <3>1. documents = <<>> <=> Len(documents) = 0
        BY <1>4
    <3>2. Len(documents) \in Nat
        BY <1>4
    <3> QED BY <3>1, <3>2
  <2>2. 1..Len(documents) = {} <=> {documents[k].index : k \in 1..Len(documents)} = {}
      OBVIOUS
  <2> QED BY <1>2, <1>3, <2>1, <2>2 DEF FilesUpTo
<1>6. ExtractionBounded'
    BY <1>0 DEF ZipInv, ExtractionBounded
<1>7. CASE documents = <<>>
  <2>1. ~ContainerAdmissible(archive)
      BY <1>1, <1>5, <1>7, AdmissibleByMember DEF ContainerAdmissible
  <2> QED BY <1>0, <1>4, <1>6, <1>7, <2>1, EndsKeep
<1>8. CASE documents # <<>>
  <2>0. extraction' = "extracted"
      BY <1>0, <1>8
  <2>1. /\ \A i, j \in 1..Len(archive.members) :
               archive.members[i].name = archive.members[j].name => i = j
        /\ \A i \in 1..Len(archive.members) : MemberGood(archive.members[i])
        /\ SumOf(FileSizes(archive)) <= MaxDecompressed
    <3>1. Len(FileSizes(archive)) = Len(archive.members)
        BY <1>1, FileSums
    <3>2. Running(FileSizes(archive))[member - 1] <= MaxDecompressed
        BY <1>0, <1>1, LoopFacts
    <3> QED BY <1>0, <1>1, <3>1, <3>2 DEF ZipInv, ZipPrefix, Entered, SumOf
  <2>2. ContainerAdmissible(archive)
      BY <1>1, <1>5, <1>8, <2>1, AdmissibleByMember DEF ContainerAdmissible
  <2>3. DocumentsAreTheFiles'
      BY <1>0, <1>2, <1>3 DEF FilesUpTo, DocumentsAreTheFiles
  <2>4. ZipTypes'
      BY <1>0, <2>0 DEF ZipInv, ZipTypes
  <2> QED
      BY <1>0, <1>6, <2>0, <2>2, <2>3, <2>4
      DEF ZipInv, ZipPlace, ZipPrefix, ZipDocuments, InLoop, ContainerVerdictExact
<1> QED BY <1>7, <1>8

(* Every step of the extraction. *)
LEMMA ZipNext == ZipInv /\ [ExtractionStep]_zipVars => ZipInv'
<1> SUFFICES ASSUME ZipInv, [ExtractionStep]_zipVars PROVE ZipInv'
    OBVIOUS
<1>1. CASE StopExtraction
  <2>1. ExtractionBounded' /\ content' \in Nat /\ extraction' = "stopped"
        /\ UNCHANGED <<archive, member, names, total, documents>>
      BY <1>1 DEF StopExtraction, ZipInv, ZipTypes, ExtractionBounded
  <2> QED BY <2>1, EndsKeep
<1>2. CASE UNCHANGED zipVars
  <2>1. UNCHANGED <<archive, member, names, total, content, documents, extraction>>
      BY <1>2 DEF zipVars
  <2>2. Current' = Current /\ Entered' = Entered /\ InLoop' = InLoop
      BY <2>1 DEF Current, Entered, InLoop
  <2>3. ZipTypes' /\ ZipPlace'
      BY <2>1, <2>2 DEF ZipInv, ZipTypes, ZipPlace
  <2>4. ZipPrefix' /\ ZipDocuments'
      BY <2>1, <2>2 DEF ZipInv, ZipPrefix, ZipDocuments
  <2>5. ContainerVerdictExact' /\ DocumentsAreTheFiles' /\ ExtractionBounded'
      BY <2>1 DEF ZipInv, ContainerVerdictExact, DocumentsAreTheFiles, ExtractionBounded
  <2> QED BY <2>3, <2>4, <2>5 DEF ZipInv
<1> QED
    BY <1>1, <1>2, OpenKeeps, EnterKeeps, RefuseKeeps, ReadKeeps, FinishKeeps, ArchiveKeeps
    DEF ExtractionStep
=============================================================================
