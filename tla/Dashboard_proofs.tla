---------------------------- MODULE Dashboard_proofs ----------------------------
(***************************************************************************)
(* Proofs about Dashboard, for every set of dashboards, whatever their     *)
(* number of views, cards and entities, and every size of the arrays, the  *)
(* pages and the queue.                                                    *)
(*                                                                         *)
(* The loops of the code are recursive functions; what they compute is     *)
(* proved by induction over a set of numbers (Induct). Then come the       *)
(* types, and the invariants that say what the menu, the checkboxes and    *)
(* the rows show as long as nothing is on its way that changes it.         *)
(***************************************************************************)
EXTENDS Dashboard, SequenceTheorems, FiniteSetTheorems, WellFoundedInduction, TLAPS

----------------------------------------------------------------------------
(* Loops                                                                   *)

Less == {p \in Nat \X Nat : p[1] < p[2]}

\* A set of numbers has a least one.
LEMMA LeastNat ==
  ASSUME NEW T \in SUBSET Nat, T # {}
  PROVE  \E x \in T : \A y \in T : x <= y
<1>1. Less = OpToRel(<, Nat)
  BY DEF Less, OpToRel
<1>2. PICK x \in T : \A y \in T : <<y, x>> \notin Less
  BY <1>1, NatLessThanWellFounded, WFMin
<1>3. \A y \in T : x <= y
  <2> TAKE y \in T
  <2>1. x \in Nat /\ y \in Nat /\ <<y, x>> \notin Less
    BY <1>2
  <2>2. ~(y < x)
    BY <2>1 DEF Less
  <2> QED BY <2>1, <2>2
<1> QED BY <1>3

\* Induction, for a set of numbers instead of a predicate on them.
LEMMA Induct ==
  ASSUME NEW N \in Nat, NEW T, 0 \in T,
         \A n \in 0..(N - 1) : n \in T => n + 1 \in T
  PROVE  \A n \in 0..N : n \in T
<1> SUFFICES ASSUME NEW n \in 0..N, n \notin T PROVE FALSE
  OBVIOUS
<1> DEFINE U == {m \in Nat : m <= N /\ m \notin T}
<1>1. PICK x \in U : \A y \in U : x <= y
  <2>1. n \in U
    OBVIOUS
  <2> QED BY <2>1, LeastNat
<1>2. x \in Nat /\ x # 0 /\ x <= N /\ x \notin T
  OBVIOUS
<1>3. x - 1 \in 0..(N - 1) /\ x - 1 \notin U
  BY <1>1, <1>2
<1>4. x - 1 \in T
  BY <1>2, <1>3
<1> QED BY <1>2, <1>3, <1>4

\* A loop of N turns has a value after each of them.
HasLoop(N, A, a, step) ==
  \E f \in [0..N -> A] :
     f[0] = a /\ \A n \in 1..N : f[n] = step[<<f[n - 1], n>>]

\* The value after each turn is in the set that the turns stay in.
LEMMA Loop ==
  ASSUME NEW N \in Nat, NEW A, NEW a \in A, NEW step \in [A \X (1..N) -> A]
  PROVE  HasLoop(N, A, a, step)
<1> DEFINE Good(f, m) == f[0] = a /\ \A n \in 1..m : f[n] = step[<<f[n - 1], n>>]
           T == {m \in Nat : m <= N => \E f \in [0..m -> A] : Good(f, m)}
<1>1. 0 \in T
  <2>1. [k \in 0..0 |-> a] \in [0..0 -> A] /\ Good([k \in 0..0 |-> a], 0)
    OBVIOUS
  <2> QED BY <2>1
<1>2. ASSUME NEW m \in 0..(N - 1), m \in T PROVE m + 1 \in T
  <2>1. PICK f \in [0..m -> A] : Good(f, m)
    BY <1>2
  <2> DEFINE g == [k \in 0..(m + 1) |-> IF k <= m THEN f[k] ELSE step[<<f[m], m + 1>>]]
  <2>2. step[<<f[m], m + 1>>] \in A
    OBVIOUS
  <2>3. g \in [0..(m + 1) -> A]
    BY <2>2
  <2>4. Good(g, m + 1)
    <3>1. g[0] = a
      BY <2>1
    <3>2. ASSUME NEW n \in 1..(m + 1) PROVE g[n] = step[<<g[n - 1], n>>]
      <4>1. CASE n = m + 1
        <5>1. g[n] = step[<<f[m], m + 1>>] /\ g[n - 1] = f[m]
          BY <4>1
        <5> QED BY <4>1, <5>1
      <4>2. CASE n <= m
        <5>1. g[n] = f[n] /\ g[n - 1] = f[n - 1] /\ n \in 1..m
          BY <4>2
        <5> QED BY <2>1, <5>1
      <4> QED BY <4>1, <4>2
    <3> QED BY <3>1, <3>2
  <2>5. \E h \in [0..(m + 1) -> A] : Good(h, m + 1)
    BY <2>3, <2>4
  <2> QED BY <2>5
<1>3. N \in T
  <2> HIDE DEF T
  <2> QED BY <1>1, <1>2, Induct
<1> QED BY <1>3 DEF HasLoop

----------------------------------------------------------------------------
(* The members of a sequence at some places                                *)

KeptSteps(f, seq, S) ==
  /\ f[0] = <<>>
  /\ \A n \in 1..Len(seq) :
       f[n] = IF n \in S THEN Append(f[n - 1], seq[n]) ELSE f[n - 1]

\* The function of the model is the loop it is written as.
LEMMA KeptDef ==
  ASSUME NEW D, NEW seq \in Seq(D), NEW S
  PROVE  KeptSteps(KeptUpTo(seq, S), seq, S)
<1> DEFINE N == Len(seq)
           step == [p \in Seq(D) \X (1..N) |->
                      IF p[2] \in S THEN Append(p[1], seq[p[2]]) ELSE p[1]]
           Is(g) == g = [n \in 0..N |->
               IF n = 0 THEN <<>>
               ELSE IF n \in S THEN Append(g[n - 1], seq[n]) ELSE g[n - 1]]
<1>1. N \in Nat /\ seq \in [1..N -> D]
  OBVIOUS
<1>2. Is(KeptUpTo(seq, S)) <=> Is(KeptUpTo(seq, S))
  OBVIOUS
<1>3. \E g : Is(g)
  <2> HIDE DEF N
  <2>1. step \in [Seq(D) \X (1..N) -> Seq(D)] /\ <<>> \in Seq(D)
    BY <1>1
  <2>2. HasLoop(N, Seq(D), <<>>, step)
    <3> HIDE DEF step
    <3> QED BY <1>1, <2>1, Loop
  <2>3. PICK f \in [0..N -> Seq(D)] :
         f[0] = <<>> /\ \A n \in 1..N : f[n] = step[<<f[n - 1], n>>]
    BY <2>2 DEF HasLoop
  <2>4. \A n \in 1..N : f[n] = IF n \in S THEN Append(f[n - 1], seq[n]) ELSE f[n - 1]
    <3> TAKE n \in 1..N
    <3>1. n - 1 \in 0..N
      BY <1>1
    <3>2. <<f[n - 1], n>> \in Seq(D) \X (1..N)
      BY <3>1
    <3> QED BY <2>3, <3>2
  <2>5. Is(f)
    <3>1. \A n \in 0..N : n # 0 => n \in 1..N
      BY <1>1
    <3> QED BY <2>3, <2>4, <3>1
  <2> QED BY <2>5
<1>4. Is(KeptUpTo(seq, S))
  BY <1>3, Zenon DEF KeptUpTo
<1>5. KeptUpTo(seq, S)[0] = <<>>
  BY <1>1, <1>4
<1>6. \A n \in 1..N : n \in 0..N /\ n # 0
  BY <1>1
<1>7. \A n \in 1..N : KeptUpTo(seq, S)[n] =
         IF n \in S THEN Append(KeptUpTo(seq, S)[n - 1], seq[n])
         ELSE KeptUpTo(seq, S)[n - 1]
  <2> HIDE DEF N
  <2> QED BY <1>4, <1>6
<1> QED BY <1>5, <1>7 DEF KeptSteps

\* h names the place of each member that was kept, in the order of seq.
Places(kept, seq, S, n) ==
  \E h \in [1..Len(kept) -> (1..n) \cap S] :
     /\ \A k \in 1..Len(kept) : kept[k] = seq[h[k]]
     /\ \A k \in 2..Len(kept) : h[k - 1] < h[k]
     /\ \A i \in (1..n) \cap S : \E k \in 1..Len(kept) : h[k] = i

\* The next place is one of them.
LEMMA PlacesGrow ==
  ASSUME NEW D, NEW kept \in Seq(D), NEW seq, NEW S, NEW n \in Nat,
         n + 1 \in S, seq[n + 1] \in D, Places(kept, seq, S, n)
  PROVE  Places(Append(kept, seq[n + 1]), seq, S, n + 1)
<1> DEFINE m == Len(kept)
           more == Append(kept, seq[n + 1])
<1>1. PICK h \in [1..m -> (1..n) \cap S] :
         /\ \A k \in 1..m : kept[k] = seq[h[k]]
         /\ \A k \in 2..m : h[k - 1] < h[k]
         /\ \A i \in (1..n) \cap S : \E k \in 1..m : h[k] = i
  BY DEF Places
<1>2. /\ m \in Nat /\ Len(more) = m + 1 /\ more[m + 1] = seq[n + 1]
      /\ \A k \in 1..m : more[k] = kept[k]
  OBVIOUS
<1> DEFINE g == [k \in 1..(m + 1) |-> IF k <= m THEN h[k] ELSE n + 1]
<1> HIDE DEF m, more
<1>3. \A k \in 1..(m + 1) : k = m + 1 \/ k \in 1..m
  BY <1>2
<1>4. g[m + 1] = n + 1 /\ \A k \in 1..m : g[k] = h[k] /\ h[k] \in (1..n) \cap S
  BY <1>2
<1>5. g \in [1..(m + 1) -> (1..(n + 1)) \cap S]
  <2>1. \A k \in 1..(m + 1) : g[k] \in (1..(n + 1)) \cap S
    BY <1>3, <1>4
  <2>2. DOMAIN g = 1..(m + 1) /\ g = [k \in 1..(m + 1) |-> g[k]]
    OBVIOUS
  <2> HIDE DEF g
  <2> QED BY <2>1, <2>2
<1> HIDE DEF g
<1>6. \A k \in 1..(m + 1) : more[k] = seq[g[k]]
  BY <1>1, <1>2, <1>3, <1>4
<1>7. \A k \in 2..(m + 1) : g[k - 1] < g[k]
  <2> TAKE k \in 2..(m + 1)
  <2>1. k - 1 \in 1..m
    BY <1>2
  <2>2. CASE k = m + 1
    <3>1. g[k - 1] \in 1..n /\ g[k] = n + 1
      BY <1>4, <2>1, <2>2
    <3> QED BY <3>1
  <2>3. CASE k \in 2..m
    <3>1. k \in 1..m
      BY <1>2, <2>3
    <3> QED BY <1>1, <1>4, <2>1, <2>3, <3>1
  <2> QED BY <1>2, <2>2, <2>3
<1>8. \A i \in (1..(n + 1)) \cap S : \E k \in 1..(m + 1) : g[k] = i
  <2> TAKE i \in (1..(n + 1)) \cap S
  <2>1. CASE i = n + 1
    <3>1. m + 1 \in 1..(m + 1)
      BY <1>2
    <3> QED BY <1>4, <2>1, <3>1
  <2>2. CASE i # n + 1
    <3>1. i \in (1..n) \cap S
      BY <2>2
    <3>2. PICK k \in 1..m : h[k] = i
      BY <1>1, <3>1
    <3>3. k \in 1..(m + 1) /\ g[k] = i
      BY <1>2, <1>4, <3>2
    <3> QED BY <3>3
  <2> QED BY <2>1, <2>2
<1>9. Places(more, seq, S, n + 1)
  <2>1. Len(more) = m + 1
    BY <1>2
  <2>2. /\ g \in [1..Len(more) -> (1..(n + 1)) \cap S]
        /\ \A k \in 1..Len(more) : more[k] = seq[g[k]]
        /\ \A k \in 2..Len(more) : g[k - 1] < g[k]
        /\ \A i \in (1..(n + 1)) \cap S : \E k \in 1..Len(more) : g[k] = i
    BY <1>5, <1>6, <1>7, <1>8, <2>1, Zenon
  <2> QED BY <2>2, Zenon DEF Places
<1> QED BY <1>9 DEF more

\* A filter keeps the members at the places in S, in their order.
LEMMA KeptPlaces ==
  ASSUME NEW D, NEW seq \in Seq(D), NEW S
  PROVE  /\ Kept(seq, S) \in Seq(D) /\ Len(Kept(seq, S)) <= Len(seq)
         /\ Places(Kept(seq, S), seq, S, Len(seq))
<1> DEFINE N == Len(seq)
           f == KeptUpTo(seq, S)
           T == {n \in 0..N : f[n] \in Seq(D) /\ Len(f[n]) <= n /\ Places(f[n], seq, S, n)}
<1>0. N \in Nat /\ \A n \in 1..N : seq[n] \in D
  OBVIOUS
<1>1. KeptSteps(f, seq, S)
  BY KeptDef
<1> HIDE DEF f
<1>2. f[0] = <<>> /\ \A n \in 1..N :
        f[n] = IF n \in S THEN Append(f[n - 1], seq[n]) ELSE f[n - 1]
  BY <1>1 DEF KeptSteps
<1> HIDE DEF N
<1>3. 0 \in T
  <2> DEFINE h == [k \in 1..0 |-> 0]
  <2>1. Len(f[0]) = 0 /\ f[0] \in Seq(D)
    BY <1>2
  <2>2. h \in [1..0 -> (1..0) \cap S] /\ 1..0 = {} /\ 2..0 = {}
    OBVIOUS
  <2>3. Places(f[0], seq, S, 0)
    BY <2>1, <2>2, Zenon DEF Places
  <2> QED BY <1>0, <2>1, <2>3
<1>4. ASSUME NEW n \in 0..(N - 1), n \in T PROVE n + 1 \in T
  <2>0. n \in Nat /\ n + 1 \in 1..N /\ n + 1 \in 0..N /\ (n + 1) - 1 = n
    BY <1>0
  <2> DEFINE kept == f[n]
  <2>1. kept \in Seq(D) /\ Len(kept) <= n /\ Places(kept, seq, S, n)
    BY <1>4
  <2>2. f[n + 1] = IF n + 1 \in S THEN Append(kept, seq[n + 1]) ELSE kept
    BY <1>2, <2>0
  <2> HIDE DEF kept
  <2>3. CASE n + 1 \in S
    <3>1. seq[n + 1] \in D
      BY <1>0, <2>0
    <3>2. Places(f[n + 1], seq, S, n + 1)
      BY <2>0, <2>1, <2>2, <2>3, <3>1, PlacesGrow
    <3>3. f[n + 1] \in Seq(D) /\ Len(f[n + 1]) = Len(kept) + 1
      BY <2>1, <2>2, <2>3, <3>1
    <3>4. Len(kept) + 1 <= n + 1
      BY <2>0, <2>1
    <3> QED BY <2>0, <3>2, <3>3, <3>4
  <2>4. CASE n + 1 \notin S
    <3>1. (1..(n + 1)) \cap S = (1..n) \cap S
      BY <2>0, <2>4
    <3>2. Places(kept, seq, S, n + 1)
      BY <2>1, <3>1 DEF Places
    <3> QED BY <2>0, <2>1, <2>2, <2>4, <3>2
  <2> QED BY <2>3, <2>4
<1>5. N \in T
  <2> HIDE DEF T
  <2>1. N \in 0..N
    BY <1>0
  <2> QED BY <1>0, <1>3, <1>4, <2>1, Induct
<1> QED BY <1>5 DEF Kept, N, f

----------------------------------------------------------------------------
(* Sequences put together                                                  *)

FlattenSteps(f, seqs) ==
  /\ f[0] = <<>>
  /\ \A n \in 1..Len(seqs) : f[n] = f[n - 1] \o seqs[n]

\* FlattenSeq appends one sequence after the other.
LEMMA FlattenDef ==
  ASSUME NEW D, NEW seqs \in Seq(Seq(D))
  PROVE  \E f \in [0..Len(seqs) -> Seq(D)] :
            FlattenSteps(f, seqs) /\ FlattenSeq(seqs) = f[Len(seqs)]
<1> DEFINE N == Len(seqs)
           step == [p \in Seq(D) \X (1..N) |-> p[1] \o seqs[p[2]]]
           Is(g) == g = [n \in 1..N |->
                           IF n = 1 THEN seqs[n] ELSE g[n - 1] \o seqs[n]]
           G == CHOOSE g : Is(g)
           F == [n \in 0..N |-> IF n = 0 THEN <<>> ELSE G[n]]
<1>1. N \in Nat /\ \A n \in 1..N : seqs[n] \in Seq(D)
  OBVIOUS
<1>2. FlattenSeq(seqs) = IF N = 0 THEN seqs ELSE G[N]
  BY DEF FlattenSeq
<1>3. N = 0 => seqs = <<>>
  OBVIOUS
<1> HIDE DEF N
<1>4. \E g : Is(g)
  <2>1. step \in [Seq(D) \X (1..N) -> Seq(D)] /\ <<>> \in Seq(D)
    BY <1>1
  <2>2. HasLoop(N, Seq(D), <<>>, step)
    <3> HIDE DEF step
    <3> QED BY <1>1, <2>1, Loop
  <2>3. PICK f \in [0..N -> Seq(D)] :
         f[0] = <<>> /\ \A n \in 1..N : f[n] = step[<<f[n - 1], n>>]
    BY <2>2 DEF HasLoop
  <2>4. \A n \in 1..N : f[n] = f[n - 1] \o seqs[n]
    <3> TAKE n \in 1..N
    <3>1. n - 1 \in 0..N
      BY <1>1
    <3>2. <<f[n - 1], n>> \in Seq(D) \X (1..N)
      BY <3>1
    <3> QED BY <2>3, <3>2
  <2> DEFINE g == [n \in 1..N |-> f[n]]
  <2>5. \A n \in 1..N : g[n] = IF n = 1 THEN seqs[n] ELSE g[n - 1] \o seqs[n]
    <3> TAKE n \in 1..N
    <3>1. CASE n = 1
      <4>1. f[1] = f[0] \o seqs[1] /\ seqs[1] \in Seq(D) /\ 1 - 1 = 0
        <5>1. 1 \in 1..N /\ 1 - 1 = 0
          BY <1>1, <3>1
        <5> QED BY <1>1, <2>4, <5>1
      <4>2. <<>> \o seqs[1] = seqs[1]
        BY <4>1
      <4> QED BY <2>3, <3>1, <4>1, <4>2
    <3>2. CASE n # 1
      <4>1. n - 1 \in 1..N
        BY <1>1, <3>2
      <4> QED BY <2>4, <3>2, <4>1
    <3> QED BY <3>1, <3>2
  <2>6. Is(g)
    <3>1. g = [n \in 1..N |-> g[n]]
      OBVIOUS
    <3> HIDE DEF g
    <3> QED BY <2>5, <3>1
  <2> QED BY <2>6, Zenon
<1>5. Is(G)
  BY <1>4, Zenon
<1> HIDE DEF G
<1>6. F[0] = <<>> /\ \A n \in 1..N : F[n] = F[n - 1] \o seqs[n]
  <2>1. F[0] = <<>>
    BY <1>1
  <2>2. ASSUME NEW n \in 1..N PROVE F[n] = F[n - 1] \o seqs[n]
    <3>1. CASE n = 1
      <4>1. F[1] = G[1] /\ F[0] = <<>> /\ G[1] = seqs[1]
        BY <1>1, <1>5, <3>1
      <4>2. seqs[1] \in Seq(D)
        BY <1>1, <3>1
      <4>3. seqs[1] = <<>> \o seqs[1] /\ n - 1 = 0
        BY <3>1, <4>2
      <4> QED BY <3>1, <4>1, <4>3
    <3>2. CASE n # 1
      <4>1. n \in 0..N /\ n - 1 \in 0..N /\ n # 0 /\ n - 1 # 0
        BY <1>1, <3>2
      <4>2. F[n] = G[n] /\ F[n - 1] = G[n - 1]
        BY <4>1
      <4>3. G[n] = G[n - 1] \o seqs[n]
        <5> HIDE DEF F
        <5> QED BY <1>5, <3>2
      <4> QED BY <4>2, <4>3
    <3> QED BY <3>1, <3>2
  <2> QED BY <2>1, <2>2
<1>7. DOMAIN F = 0..N /\ F = [n \in 0..N |-> F[n]]
  OBVIOUS
<1>8. (N # 0 => F[N] = G[N]) /\ (N = 0 => F[N] = <<>>)
  BY <1>1
<1> HIDE DEF F
<1>9. \A n \in 0..N : F[n] \in Seq(D)
  <2> DEFINE T == {n \in 0..N : F[n] \in Seq(D)}
  <2>1. 0 \in T
    <3>1. <<>> \in Seq(D) /\ 0 \in 0..N
      BY <1>1
    <3> QED BY <1>6, <3>1
  <2>2. ASSUME NEW n \in 0..(N - 1), n \in T PROVE n + 1 \in T
    <3>1. n + 1 \in 1..N /\ (n + 1) - 1 = n /\ n + 1 \in 0..N
      BY <1>1
    <3>2. F[n + 1] = F[n] \o seqs[n + 1] /\ seqs[n + 1] \in Seq(D)
      BY <1>1, <1>6, <3>1
    <3>3. F[n + 1] \in Seq(D)
      BY <2>2, <3>2
    <3> QED BY <3>1, <3>3
  <2>3. \A n \in 0..N : n \in T
    <3> HIDE DEF T
    <3> QED BY <1>1, <2>1, <2>2, Induct
  <2> QED BY <2>3
<1>10. F \in [0..N -> Seq(D)] /\ FlattenSeq(seqs) = F[N]
  BY <1>2, <1>3, <1>7, <1>8, <1>9
<1>11. FlattenSteps(F, seqs)
  BY <1>6 DEF FlattenSteps, N
<1> QED BY <1>10, <1>11 DEF N

\* Its members are members of the sequences.
LEMMA FlattenType ==
  ASSUME NEW D, NEW seqs \in Seq(Seq(D))
  PROVE  FlattenSeq(seqs) \in Seq(D)
<1>1. Len(seqs) \in 0..Len(seqs)
  OBVIOUS
<1> QED BY <1>1, FlattenDef

----------------------------------------------------------------------------
(* The pages                                                               *)

\* The first entity of a page, counted from 0.
Start(p) == p * PerPage

\* The pages start PerPage apart.
LEMMA Starts ==
  ASSUME NEW p \in Nat
  PROVE  /\ Start(p) \in Nat /\ Start(p + 1) = Start(p) + PerPage
         /\ Start(0) = 0 /\ PerPage \in Nat /\ PerPage > 0
BY DashboardAssumption DEF Start

\* Page and place of an entity, and the entity from both.
LEMMA PageFacts ==
  ASSUME NEW i \in Nat, NEW p \in Nat
  PROVE  /\ PageOf(i) = p <=> Start(p) <= i /\ i < Start(p) + PerPage
         /\ PageOf(i) = p => SlotOf(i) = i - Start(p)
         /\ PageOf(i) \in Nat /\ SlotOf(i) \in Nat
<1>1. PerPage \in Nat /\ PerPage > 0
  BY DashboardAssumption
<1> DEFINE q == i \div PerPage
           r == i % PerPage
<1>2. q \in Nat /\ r \in Nat /\ r < PerPage /\ i = q * PerPage + r
  BY <1>1
<1> HIDE DEF q, r
<1>3. q = p => Start(p) <= i /\ i < Start(p) + PerPage /\ r = i - Start(p)
  BY <1>1, <1>2 DEF Start
<1>4. ASSUME Start(p) <= i, i < Start(p) + PerPage PROVE q = p
  <2>1. p * PerPage < (q + 1) * PerPage /\ q * PerPage < (p + 1) * PerPage
    BY <1>1, <1>2, <1>4 DEF Start
  <2>2. p < q + 1 /\ q < p + 1
    BY <1>1, <1>2, <2>1
  <2> QED BY <1>2, <2>2
<1> QED BY <1>2, <1>3, <1>4 DEF PageOf, SlotOf, q, r

\* As many pages as the entities need, none of them empty.
LEMMA PageCountFacts ==
  ASSUME NEW n \in Nat
  PROVE  /\ PageCount(n) \in Nat
         /\ n <= Start(PageCount(n))
         /\ \A p \in 0..(PageCount(n) - 1) : Start(p) < n
<1> DEFINE C == PageCount(n)
<1>1. PerPage \in Nat /\ PerPage > 0 /\ n + PerPage - 1 \in Nat
  BY DashboardAssumption
<1>2. C = PageOf(n + PerPage - 1)
  BY DEF PageCount, PageOf
<1>3. /\ C \in Nat /\ Start(C) <= n + PerPage - 1
      /\ n + PerPage - 1 < Start(C) + PerPage
  <2>1. C \in Nat
    BY <1>1, <1>2, PageFacts
  <2> QED BY <1>1, <1>2, <2>1, PageFacts
<1>4. ASSUME NEW p \in 0..(C - 1) PROVE Start(p) < n
  <2>1. p \in Nat /\ p + 1 <= C
    BY <1>3
  <2>2. Start(p + 1) <= Start(C)
    BY <1>1, <1>3, <2>1 DEF Start
  <2>3. Start(p) + PerPage <= n + PerPage - 1 /\ Start(p) \in Nat
    BY <1>1, <1>3, <2>1, <2>2, Starts
  <2> QED BY <1>1, <2>3
<1>5. n <= Start(C)
  BY <1>1, <1>3, Starts
<1> QED BY <1>3, <1>4, <1>5

Least(m, n) == IF m <= n THEN m ELSE n

\* Every page but the last is full.
LEMMA RowCountFacts ==
  ASSUME NEW n \in Nat, NEW p \in 0..(PageCount(n) - 1)
  PROVE  RowCount(n, p) = Least(n, Start(p + 1)) - Start(p)
<1> DEFINE on == {i \in 0..(n - 1) : PageOf(i) = p}
           last == Least(n, Start(p + 1)) - 1
<1>1. p \in Nat
  OBVIOUS
<1>2. /\ Start(p) \in Nat /\ PerPage \in Nat /\ PerPage > 0 /\ Start(p) < n
      /\ Start(p + 1) = Start(p) + PerPage
  BY <1>1, Starts, PageCountFacts
<1>3. last \in 0..(n - 1) /\ Start(p) <= last /\ last < Start(p) + PerPage
  BY <1>2 DEF Least
<1>4. last \in on
  BY <1>1, <1>3, PageFacts
<1>5. ASSUME NEW i \in on PROVE i \in Nat /\ i <= last
  <2>1. i \in 0..(n - 1) /\ PageOf(i) = p
    OBVIOUS
  <2> HIDE DEF on
  <2>2. i \in Nat /\ i < Start(p) + PerPage
    BY <1>1, <2>1, PageFacts
  <2> QED BY <1>2, <2>1, <2>2 DEF Least
<1>6. SlotOf(last) = last - Start(p)
  BY <1>1, <1>3, <1>4, PageFacts
<1> HIDE DEF last
<1>7. (CHOOSE i \in on : \A j \in on : j <= i) = last
  <2> DEFINE c == CHOOSE i \in on : \A j \in on : j <= i
  <2>1. c \in on /\ \A j \in on : j <= c
    <3> HIDE DEF on
    <3>1. \E i \in on : \A j \in on : j <= i
      BY <1>4, <1>5
    <3> QED BY <3>1
  <2> HIDE DEF c, on
  <2>2. last <= c /\ c <= last /\ c \in Nat /\ last \in Nat
    BY <1>3, <1>4, <1>5, <2>1
  <2>3. c = last
    BY <2>2
  <2> QED BY <2>3 DEF c
<1>8. RowCount(n, p) = SlotOf(last) + 1
  <2>1. RowCount(n, p) = IF on = {} THEN 0
                         ELSE SlotOf(CHOOSE i \in on : \A j \in on : j <= i) + 1
    BY DEF RowCount
  <2> HIDE DEF on
  <2> QED BY <1>4, <1>7, <2>1
<1> QED BY <1>2, <1>3, <1>6, <1>8 DEF last, Least

\* The entity at a place of a page.
LEMMA EntityAtFacts ==
  ASSUME NEW n \in Nat, NEW p \in Nat, NEW s \in Nat,
         s < PerPage, Start(p) + s < n
  PROVE  EntityAt(n, p, s) = Start(p) + s
<1> DEFINE k == Start(p) + s
           Here(i) == PageOf(i) = p /\ SlotOf(i) = s
<1>1. Start(p) \in Nat /\ PerPage \in Nat /\ k \in 0..(n - 1) /\ k \in Nat
  BY Starts
<1>2. Here(k)
  <2>1. PageOf(k) = p
    BY <1>1, PageFacts
  <2> QED BY <1>1, <2>1, PageFacts
<1>3. ASSUME NEW i \in 0..(n - 1), Here(i) PROVE i = k
  <2>1. i \in Nat /\ s = i - Start(p)
    BY <1>3, PageFacts
  <2> QED BY <1>1, <2>1
<1> HIDE DEF k, Here
<1>4. (CHOOSE i \in 0..(n - 1) : Here(i)) = k
  BY <1>1, <1>2, <1>3
<1> QED BY <1>4 DEF EntityAt, Here, k

\* The row of entity i of the model.
RowNow(i) == [shows |-> slots[i].id, at |-> i, val |-> slots[i].val,
              widget |-> Widget(slots[i].id)]

\* The pages put together are the entities in their order.
LEMMA RowsOfIs ==
  ASSUME Len(slots) \in Nat
  PROVE  /\ RowsOf \in Seq({RowNow(i) : i \in 1..Len(slots)})
         /\ Len(RowsOf) = Len(slots)
         /\ \A i \in 1..Len(slots) : RowsOf[i] = RowNow(i)
<1> DEFINE n == Len(slots)
           C == PageCount(n)
           D == {RowNow(i) : i \in 1..n}
           k(p, s) == EntityAt(n, p, s) + 1
           Page(p) == [s \in 1..RowCount(n, p - 1) |->
                         [shows |-> slots[k(p - 1, s - 1)].id, at |-> k(p - 1, s - 1),
                          val |-> slots[k(p - 1, s - 1)].val,
                          widget |-> Widget(slots[k(p - 1, s - 1)].id)]]
           pages == [p \in 1..C |-> Page(p)]
           upTo(p) == Least(n, Start(p))
<1>1. RowsOf = FlattenSeq(pages)
  BY DEF RowsOf
<1>2. C \in Nat /\ n \in Nat /\ n <= Start(C)
  BY PageCountFacts
<1>3. ASSUME NEW p \in 1..C
      PROVE  /\ p - 1 \in Nat /\ upTo(p - 1) \in Nat /\ upTo(p) \in Nat
             /\ upTo(p - 1) <= upTo(p) /\ upTo(p) <= n
             /\ pages[p] = [s \in 1..(upTo(p) - upTo(p - 1)) |-> RowNow(upTo(p - 1) + s)]
  <2>1. p - 1 \in 0..(C - 1) /\ p - 1 \in Nat /\ p = (p - 1) + 1
    BY <1>2
  <2>2. /\ Start(p) = Start(p - 1) + PerPage /\ Start(p - 1) < n
        /\ Start(p - 1) \in Nat /\ PerPage \in Nat
    BY <1>2, <2>1, Starts, PageCountFacts
  <2>3. RowCount(n, p - 1) = upTo(p) - upTo(p - 1) /\ upTo(p - 1) = Start(p - 1)
    BY <1>2, <2>1, <2>2, RowCountFacts DEF Least
  <2>4. ASSUME NEW s \in 1..(upTo(p) - upTo(p - 1))
        PROVE  k(p - 1, s - 1) = upTo(p - 1) + s
    <3>1. s - 1 \in Nat /\ s - 1 < PerPage /\ Start(p - 1) + (s - 1) < n
      BY <1>2, <2>2, <2>3 DEF Least
    <3>2. EntityAt(n, p - 1, s - 1) = Start(p - 1) + (s - 1)
      BY <1>2, <2>1, <3>1, EntityAtFacts
    <3> QED BY <2>2, <2>3, <3>2
  <2>5. Page(p) = [s \in 1..(upTo(p) - upTo(p - 1)) |-> RowNow(upTo(p - 1) + s)]
    <3> HIDE DEF upTo, k, n
    <3> QED BY <2>3, <2>4, Zenon DEF RowNow
  <2>6. /\ upTo(p - 1) \in Nat /\ upTo(p) \in Nat
        /\ upTo(p - 1) <= upTo(p) /\ upTo(p) <= n
    BY <1>2, <2>2 DEF Least
  <2> QED BY <2>1, <2>5, <2>6
<1>4. DOMAIN pages = 1..C
  OBVIOUS
<1>5. upTo(0) = 0 /\ upTo(C) = n
  <2>1. Start(0) = 0 /\ Start(C) \in Nat
    BY <1>2, Starts
  <2> QED BY <1>2, <2>1 DEF Least
<1> HIDE DEF n, C, pages, upTo
<1>6. \A p \in 1..C : pages[p] \in Seq(D) /\ Len(pages[p]) = upTo(p) - upTo(p - 1)
  <2> TAKE p \in 1..C
  <2> DEFINE m == upTo(p) - upTo(p - 1)
  <2>1. /\ m \in Nat /\ upTo(p - 1) \in Nat /\ upTo(p) \in Nat
        /\ upTo(p) <= n
    <3>1. /\ upTo(p - 1) \in Nat /\ upTo(p) \in Nat
          /\ upTo(p - 1) <= upTo(p) /\ upTo(p) <= n
      BY <1>3, Zenon
    <3> QED BY <3>1
  <2>2. \A s \in 1..m : RowNow(upTo(p - 1) + s) \in D
    <3> TAKE s \in 1..m
    <3>1. upTo(p - 1) + s \in 1..n
      BY <1>2, <2>1
    <3> QED BY <3>1
  <2>3. pages[p] = [s \in 1..m |-> RowNow(upTo(p - 1) + s)]
    BY <1>3
  <2> HIDE DEF m, D
  <2>4. pages[p] \in [1..m -> D]
    BY <2>2, <2>3
  <2>5. pages[p] \in Seq(D) /\ Len(pages[p]) = m
    BY <2>1, <2>4
  <2> QED BY <2>5 DEF m
<1>7. pages \in Seq(Seq(D)) /\ Len(pages) = C
  <2>1. pages \in [1..C -> Seq(D)]
    <3>1. pages = [p \in 1..C |-> pages[p]]
      BY DEF pages
    <3> HIDE DEF D
    <3> QED BY <1>6, <3>1
  <2> QED BY <1>2, <2>1
<1> HIDE DEF D
<1>8. PICK f \in [0..C -> Seq(D)] : FlattenSteps(f, pages) /\ RowsOf = f[C]
  BY <1>1, <1>7, FlattenDef
<1>9. f[0] = <<>> /\ \A p \in 1..C : f[p] = f[p - 1] \o pages[p]
  BY <1>7, <1>8 DEF FlattenSteps
<1> DEFINE T == {p \in 0..C : Len(f[p]) = upTo(p) /\ \A i \in 1..upTo(p) : f[p][i] = RowNow(i)}
<1>10. 0 \in T
  BY <1>2, <1>5, <1>9
<1>11. ASSUME NEW p \in 0..(C - 1), p \in T PROVE p + 1 \in T
  <2>1. p + 1 \in 1..C /\ (p + 1) - 1 = p /\ p + 1 \in 0..C /\ p \in 0..C
    BY <1>2
  <2> DEFINE a == f[p]
             b == pages[p + 1]
             m == upTo(p)
             l == upTo(p + 1)
  <2>2. a \in Seq(D) /\ b \in Seq(D) /\ f[p + 1] = a \o b
    BY <1>6, <1>9, <2>1
  <2>3. Len(a) = m /\ Len(b) = l - m /\ m \in Nat /\ l \in Nat /\ m <= l
    BY <1>3, <1>6, <1>11, <2>1
  <2>4. \A s \in 1..(l - m) : b[s] = RowNow(m + s)
    <3>1. b = [s \in 1..(l - m) |-> RowNow(m + s)]
      BY <1>3, <2>1
    <3> HIDE DEF b, m, l
    <3> QED BY <3>1
  <2>5. \A i \in 1..m : a[i] = RowNow(i)
    BY <1>11
  <2> HIDE DEF a, b, m, l
  <2>6. Len(a \o b) = l
    <3>1. Len(a \o b) = Len(a) + Len(b)
      BY <2>2, ConcatProperties
    <3> QED BY <2>3, <3>1
  <2>7. \A i \in 1..l : (a \o b)[i] = RowNow(i)
    <3> TAKE i \in 1..l
    <3>1. CASE i <= m
      <4>1. i \in 1..m /\ (a \o b)[i] = a[i]
        BY <2>2, <2>3, <3>1
      <4> QED BY <2>5, <4>1
    <3>2. CASE i > m
      <4>1. i - m \in 1..(l - m) /\ (a \o b)[i] = b[i - m] /\ m + (i - m) = i
        BY <2>2, <2>3, <3>2
      <4> QED BY <2>4, <4>1
    <3> QED BY <2>3, <3>1, <3>2
  <2>8. Len(f[p + 1]) = l /\ \A i \in 1..l : f[p + 1][i] = RowNow(i)
    BY <2>2, <2>6, <2>7
  <2> QED BY <2>1, <2>8 DEF l
<1>12. C \in T
  <2> HIDE DEF T
  <2>1. C \in 0..C
    BY <1>2
  <2> QED BY <1>2, <1>10, <1>11, <2>1, Induct
<1>13. Len(f[C]) = n /\ \A i \in 1..n : f[C][i] = RowNow(i)
  BY <1>5, <1>12
<1> QED BY <1>2, <1>8, <1>13 DEF n, D

----------------------------------------------------------------------------
(* The entities of a view                                                  *)

CollectedSteps(f, all) ==
  /\ f[0] = <<>>
  /\ \A n \in 1..Len(all) : f[n] = AddEntity(f[n - 1], all[n])

\* The function of the model is the loop it is written as.
LEMMA CollectedDef ==
  ASSUME NEW D, NEW all \in Seq(D), \A d \in D : StoredId(d) \in D
  PROVE  CollectedSteps(CollectedUpTo(all), all)
<1> DEFINE N == Len(all)
           step == [p \in Seq(D) \X (1..N) |-> AddEntity(p[1], all[p[2]])]
           Is(g) == g = [n \in 0..N |->
                           IF n = 0 THEN <<>> ELSE AddEntity(g[n - 1], all[n])]
<1>1. N \in Nat /\ \A n \in 1..N : all[n] \in D
  OBVIOUS
<1>2. \E g : Is(g)
  <2> HIDE DEF N
  <2>1. step \in [Seq(D) \X (1..N) -> Seq(D)] /\ <<>> \in Seq(D)
    <3>1. ASSUME NEW p \in Seq(D) \X (1..N)
          PROVE  AddEntity(p[1], all[p[2]]) \in Seq(D)
      <4>1. p[1] \in Seq(D) /\ StoredId(all[p[2]]) \in D
        BY <1>1
      <4> QED BY <4>1 DEF AddEntity, Fits
    <3> QED BY <3>1
  <2>2. HasLoop(N, Seq(D), <<>>, step)
    <3> HIDE DEF step
    <3> QED BY <1>1, <2>1, Loop
  <2>3. PICK f \in [0..N -> Seq(D)] :
         f[0] = <<>> /\ \A n \in 1..N : f[n] = step[<<f[n - 1], n>>]
    BY <2>2 DEF HasLoop
  <2>4. \A n \in 1..N : f[n] = AddEntity(f[n - 1], all[n])
    <3> TAKE n \in 1..N
    <3>1. n - 1 \in 0..N
      BY <1>1
    <3>2. <<f[n - 1], n>> \in Seq(D) \X (1..N)
      BY <3>1
    <3> QED BY <2>3, <3>2
  <2>5. Is(f)
    <3>1. \A n \in 0..N : n # 0 => n \in 1..N
      BY <1>1
    <3> QED BY <2>3, <2>4, <3>1
  <2> QED BY <2>5
<1>3. Is(CollectedUpTo(all))
  BY <1>2, Zenon DEF CollectedUpTo
<1>4. CollectedUpTo(all)[0] = <<>>
  BY <1>1, <1>3
<1>5. \A n \in 1..N : n \in 0..N /\ n # 0
  BY <1>1
<1>6. \A n \in 1..N : CollectedUpTo(all)[n] = AddEntity(CollectedUpTo(all)[n - 1], all[n])
  <2> HIDE DEF N
  <2> QED BY <1>3, <1>5
<1> QED BY <1>4, <1>6 DEF CollectedSteps

\* The loop only adds ids as they are stored, and no more than there is room
\* for.
LEMMA CollectedType ==
  ASSUME NEW D, NEW all \in Seq(D), \A d \in D : StoredId(d) \in D
  PROVE  Collected(all) \in Seq(D) /\ Len(Collected(all)) <= MaxEntities
<1> DEFINE N == Len(all)
           f == CollectedUpTo(all)
           T == {n \in 0..N : f[n] \in Seq(D) /\ Len(f[n]) <= MaxEntities}
<1>1. N \in Nat /\ \A n \in 1..N : all[n] \in D
  OBVIOUS
<1>2. f[0] = <<>> /\ \A n \in 1..N : f[n] = AddEntity(f[n - 1], all[n])
  BY CollectedDef DEF CollectedSteps
<1>3. MaxEntities \in Nat
  BY DashboardAssumption DEF MaxEntities
<1> HIDE DEF f, N
<1>4. 0 \in T
  <2>1. <<>> \in Seq(D) /\ Len(<<>>) = 0
    OBVIOUS
  <2>2. f[0] \in Seq(D) /\ Len(f[0]) = 0
    BY <1>2, <2>1
  <2>3. 0 \in 0..N /\ 0 <= MaxEntities
    BY <1>1, <1>3
  <2> QED BY <2>2, <2>3
<1>5. ASSUME NEW n \in 0..(N - 1), n \in T PROVE n + 1 \in T
  <2>1. n + 1 \in 1..N /\ (n + 1) - 1 = n /\ n + 1 \in 0..N
    BY <1>1
  <2> DEFINE ids == f[n]
             e == all[n + 1]
  <2>2. ids \in Seq(D) /\ Len(ids) <= MaxEntities /\ f[n + 1] = AddEntity(ids, e)
    BY <1>2, <1>5, <2>1
  <2>3. StoredId(e) \in D
    BY <1>1, <2>1
  <2> HIDE DEF ids, e
  <2>4. f[n + 1] = ids \/ (Len(ids) < MaxEntities /\ f[n + 1] = Append(ids, StoredId(e)))
    BY <1>3, <2>2 DEF AddEntity, Fits
  <2>5. f[n + 1] \in Seq(D) /\ Len(f[n + 1]) <= MaxEntities
    BY <1>3, <2>2, <2>3, <2>4
  <2> QED BY <2>1, <2>5
<1>6. N \in T
  <2>1. N \in 0..N
    BY <1>1
  <2> HIDE DEF T
  <2> QED BY <1>1, <1>4, <1>5, <2>1, Induct
<1> QED BY <1>6 DEF Collected, f, N

LEMMA MaxEntitiesType == MaxEntities \in Nat
BY DashboardAssumption DEF MaxEntities

\* How many different ids there are among the first n.
FirstUpTo(all, n) == {i \in FirstPlaces(all) : i <= n}
Count(all, n) == Cardinality(FirstUpTo(all, n))

\* The count grows by one with every id that is new.
LEMMA CountFacts ==
  ASSUME NEW D, NEW all \in Seq(D), NEW n \in 0..Len(all)
  PROVE  /\ Count(all, n) \in Nat /\ Count(all, 0) = 0
         /\ \A i \in 0..n : Count(all, i) <= Count(all, n)
         /\ n + 1 <= Len(all) =>
              Count(all, n + 1) = Count(all, n) + (IF n + 1 \in FirstPlaces(all) THEN 1 ELSE 0)
         /\ n \in FirstPlaces(all) => Count(all, n) > 0
<1> DEFINE F(i) == FirstUpTo(all, i)
<1>0. Len(all) \in Nat /\ n \in Nat /\ FirstPlaces(all) \subseteq 1..Len(all)
  BY DEF FirstPlaces
<1>1. ASSUME NEW i \in 0..Len(all) PROVE IsFiniteSet(F(i)) /\ Cardinality(F(i)) \in Nat
  <2>1. F(i) \subseteq 1..Len(all) /\ IsFiniteSet(1..Len(all))
    BY <1>0, FS_Interval DEF FirstUpTo
  <2> QED BY <2>1, FS_Subset, FS_CardinalityType
<1>2. F(0) = {}
  BY <1>0 DEF FirstUpTo
<1>3. ASSUME NEW i \in 0..n PROVE Cardinality(F(i)) <= Cardinality(F(n))
  <2>1. F(i) \subseteq F(n)
    BY <1>0 DEF FirstUpTo
  <2> QED BY <1>1, <2>1, FS_Subset
<1>4. ASSUME n + 1 <= Len(all)
      PROVE  Cardinality(F(n + 1)) =
               Cardinality(F(n)) + (IF n + 1 \in FirstPlaces(all) THEN 1 ELSE 0)
  <2>1. CASE n + 1 \in FirstPlaces(all)
    <3>1. F(n + 1) = F(n) \cup {n + 1} /\ n + 1 \notin F(n)
      BY <1>0, <2>1 DEF FirstUpTo
    <3>2. Cardinality(F(n) \cup {n + 1}) = Cardinality(F(n)) + 1
      <4> HIDE DEF F
      <4> QED BY <1>1, <3>1, FS_AddElement
    <3> QED BY <2>1, <3>1, <3>2
  <2>2. CASE n + 1 \notin FirstPlaces(all)
    <3>1. F(n + 1) = F(n)
      BY <1>0, <2>2 DEF FirstUpTo
    <3> QED BY <1>1, <2>2, <3>1
  <2> QED BY <2>1, <2>2
<1>5. ASSUME n \in FirstPlaces(all) PROVE Cardinality(F(n)) > 0
  <2>1. n \in F(n)
    BY <1>0, <1>5 DEF FirstUpTo
  <2>2. Cardinality(F(n)) # 0
    BY <1>1, <2>1, FS_EmptySet
  <2> QED BY <1>1, <2>2
<1> HIDE DEF F
<1>6. Cardinality(F(0)) = 0
  BY <1>2, FS_EmptySet
<1> QED BY <1>1, <1>3, <1>4, <1>5, <1>6 DEF Count, F

\* Every entity once, in the order of the cards, as far as the array reaches.
CollectedInv(ids, all, n) ==
  /\ ids \in Seq(ToSet(all))
  /\ Len(ids) = Cut(Count(all, n), MaxEntities)
  /\ \A i \in FirstUpTo(all, n) :
       Count(all, i) <= MaxEntities => ids[Count(all, i)] = all[i]
  /\ \A k \in DOMAIN ids : \E i \in FirstUpTo(all, n) : ids[k] = all[i]

\* entities_add keeps it so, also once the array is full.
LEMMA AddKeeps ==
  ASSUME NEW D, NEW all \in Seq(D), NEW n \in 0..(Len(all) - 1), NEW ids,
         CollectedInv(ids, all, n), Fits(all[n + 1])
  PROVE  CollectedInv(AddEntity(ids, all[n + 1]), all, n + 1)
<1> DEFINE e == all[n + 1]
           c == Count(all, n)
           M == MaxEntities
<1>1. /\ n \in Nat /\ n + 1 \in 1..Len(all) /\ n + 1 <= Len(all) /\ n \in 0..Len(all)
      /\ n + 1 \in 0..Len(all) /\ M \in Nat /\ DOMAIN all = 1..Len(all) /\ Len(all) \in Nat
  BY MaxEntitiesType
<1>2. /\ c \in Nat /\ \A i \in 0..n : Count(all, i) <= c
      /\ Count(all, n + 1) = c + (IF n + 1 \in FirstPlaces(all) THEN 1 ELSE 0)
  BY <1>1, CountFacts
<1>3. e \in ToSet(all)
  BY <1>1 DEF ToSet
<1>4. /\ ids \in Seq(ToSet(all)) /\ Len(ids) = Cut(c, M)
      /\ \A i \in FirstUpTo(all, n) : Count(all, i) <= M => ids[Count(all, i)] = all[i]
      /\ \A k \in DOMAIN ids : \E i \in FirstUpTo(all, n) : ids[k] = all[i]
  BY DEF CollectedInv
<1>5. \A i \in FirstUpTo(all, n) :
        i \in 0..n /\ i \in 1..Len(all) /\ Count(all, i) \in Nat
        /\ Count(all, i) > 0 /\ Count(all, i) <= c
  <2> TAKE i \in FirstUpTo(all, n)
  <2>1. i \in FirstPlaces(all) /\ i \in 1..Len(all) /\ i <= n /\ i \in 0..n /\ i \in 0..Len(all)
    BY <1>1 DEF FirstUpTo, FirstPlaces
  <2> QED BY <1>2, <2>1, CountFacts
<1>6. CASE n + 1 \notin FirstPlaces(all)
  <2>1. FirstUpTo(all, n + 1) = FirstUpTo(all, n) /\ Count(all, n + 1) = c
    BY <1>1, <1>2, <1>6 DEF FirstUpTo, FirstPlaces
  <2>2. CASE Len(ids) < M
    <3> DEFINE J == {j \in Nat : j \in 1..n /\ all[j] = e}
    <3>1. J # {}
      BY <1>1, <1>6 DEF FirstPlaces
    <3>2. PICK j \in J : \A i \in J : j <= i
      <4>1. J \in SUBSET Nat
        OBVIOUS
      <4> HIDE DEF J
      <4> QED BY <3>1, <4>1, LeastNat
    <3>3. j \in FirstUpTo(all, n) /\ all[j] = e
      <4>1. \A i \in 1..(j - 1) : all[i] # e
        BY <3>2
      <4> QED BY <1>1, <4>1 DEF FirstPlaces, FirstUpTo
    <3>4. Count(all, j) \in 1..Len(ids) /\ ids[Count(all, j)] = e
      <4>1. Len(ids) = c /\ c < M
        BY <1>1, <1>2, <1>4, <2>2 DEF Cut
      <4>2. Count(all, j) \in 1..c
        BY <1>2, <1>5, <3>3
      <4>3. Count(all, j) <= M
        BY <1>1, <1>2, <4>1, <4>2
      <4> HIDE DEF c
      <4> QED BY <1>4, <3>3, <4>1, <4>2, <4>3
    <3>5. AddEntity(ids, e) = ids
      BY <1>4, <3>4 DEF AddEntity, Fits
    <3> QED BY <2>1, <3>5 DEF CollectedInv
  <2>3. CASE ~(Len(ids) < M)
    <3>1. AddEntity(ids, e) = ids
      BY <1>1, <1>4, <2>3 DEF AddEntity, Fits
    <3> QED BY <2>1, <3>1 DEF CollectedInv
  <2> QED BY <2>2, <2>3
<1>7. CASE n + 1 \in FirstPlaces(all)
  <2>1. /\ FirstUpTo(all, n + 1) = FirstUpTo(all, n) \cup {n + 1}
        /\ Count(all, n + 1) = c + 1
    BY <1>1, <1>2, <1>7 DEF FirstUpTo, FirstPlaces
  <2>2. CASE Len(ids) < M
    <3>1. Len(ids) = c /\ c < M
      BY <1>1, <1>2, <1>4, <2>2 DEF Cut
    <3>2. \A k \in DOMAIN ids : ids[k] # e
      <4> TAKE k \in DOMAIN ids
      <4>1. PICK i \in FirstUpTo(all, n) : ids[k] = all[i]
        BY <1>4
      <4>2. i \in 1..n
        BY <1>1, <1>5, <4>1
      <4> QED BY <1>1, <1>7, <4>1, <4>2 DEF FirstPlaces
    <3> DEFINE more == Append(ids, e)
    <3>3. AddEntity(ids, e) = more
      BY <1>1, <1>4, <2>2, <3>2 DEF AddEntity, Fits
    <3>4. /\ more \in Seq(ToSet(all)) /\ Len(more) = c + 1 /\ more[c + 1] = e
          /\ \A k \in 1..c : more[k] = ids[k] /\ k \in DOMAIN ids
          /\ DOMAIN more = 1..(c + 1)
      BY <1>3, <1>4, <3>1
    <3> HIDE DEF more
    <3>5. Len(more) = Cut(Count(all, n + 1), M)
      BY <1>1, <1>2, <2>1, <3>1, <3>4 DEF Cut
    <3>6. ASSUME NEW i \in FirstUpTo(all, n + 1), Count(all, i) <= M
          PROVE  more[Count(all, i)] = all[i]
      <4>1. CASE i = n + 1
        BY <2>1, <3>4, <4>1
      <4>2. CASE i \in FirstUpTo(all, n)
        <5>1. Count(all, i) \in 1..c
          BY <1>2, <1>5, <4>2
        <5> QED BY <1>4, <3>4, <3>6, <4>2, <5>1
      <4> QED BY <2>1, <4>1, <4>2
    <3>7. ASSUME NEW k \in DOMAIN more
          PROVE  \E i \in FirstUpTo(all, n + 1) : more[k] = all[i]
      <4>1. CASE k = c + 1
        BY <2>1, <3>4, <4>1
      <4>2. CASE k \in 1..c
        BY <1>4, <2>1, <3>4, <4>2
      <4> QED BY <1>2, <3>4, <4>1, <4>2
    <3> QED BY <3>3, <3>4, <3>5, <3>6, <3>7 DEF CollectedInv
  <2>3. CASE ~(Len(ids) < M)
    <3>1. AddEntity(ids, e) = ids /\ M <= c /\ Len(ids) = M
      BY <1>1, <1>2, <1>4, <2>3 DEF AddEntity, Fits, Cut
    <3>2. Len(ids) = Cut(Count(all, n + 1), M) /\ ~(Count(all, n + 1) <= M)
      BY <1>1, <1>2, <2>1, <3>1 DEF Cut
    <3> QED BY <1>4, <2>1, <3>1, <3>2 DEF CollectedInv
  <2> QED BY <2>2, <2>3
<1> QED BY <1>6, <1>7

\* So it holds after the last id of the view.
LEMMA CollectedFacts ==
  ASSUME NEW D, NEW all \in Seq(D), \A d \in D : Fits(d)
  PROVE  CollectedInv(Collected(all), all, Len(all))
<1> DEFINE N == Len(all)
           f == CollectedUpTo(all)
           T == {n \in 0..N : CollectedInv(f[n], all, n)}
<1>0. CollectedSteps(f, all) /\ \A n \in 1..N : Fits(all[n])
  BY CollectedDef DEF Fits
<1>1. N \in Nat /\ \A n \in 1..N : f[n] = AddEntity(f[n - 1], all[n])
  BY <1>0 DEF CollectedSteps
<1>2. f[0] = <<>>
  BY <1>0 DEF CollectedSteps
<1> HIDE DEF f
<1>3. 0 \in T
  <2>1. FirstUpTo(all, 0) = {} /\ Count(all, 0) = 0
    BY <1>1, CountFacts DEF FirstUpTo, FirstPlaces
  <2>2. /\ <<>> \in Seq(ToSet(all)) /\ Len(<<>>) = 0 /\ DOMAIN <<>> = {}
        /\ Cut(0, MaxEntities) = 0
    BY MaxEntitiesType DEF Cut
  <2>3. CollectedInv(<<>>, all, 0)
    BY <2>1, <2>2 DEF CollectedInv
  <2> QED BY <1>1, <1>2, <2>3
<1>4. ASSUME NEW n \in 0..(N - 1), n \in T PROVE n + 1 \in T
  <2>1. n + 1 \in 1..N /\ (n + 1) - 1 = n /\ n + 1 \in 0..N
    BY <1>1
  <2>2. f[n + 1] = AddEntity(f[n], all[n + 1])
    BY <1>1, <2>1
  <2>3. CollectedInv(f[n], all, n)
    BY <1>4
  <2>4. CollectedInv(f[n + 1], all, n + 1)
    BY <1>0, <2>1, <2>2, <2>3, AddKeeps
  <2> QED BY <2>1, <2>4
<1>5. N \in T
  <2> HIDE DEF T
  <2>1. N \in 0..N
    BY <1>1
  <2> QED BY <1>1, <1>3, <1>4, <2>1, Induct
<1> QED BY <1>5 DEF Collected, f

\* Only cards and sections of a view count, and they are lists of ids.
LEMMA ViewIdsType ==
  ASSUME NEW v, IsView(v)
  PROVE  ViewIds(v) \in Seq(ToSet(ViewIds(v)))
<1>1. ASSUME NEW card, IsSeq(card.entities)
      PROVE  IsSeq(CardIds(card))
  <2> DEFINE S == ToSet(card.entities) \cup {card.entity}
             ids == CardIds(card)
  <2>1. card.entities \in Seq(S)
    BY <1>1 DEF IsSeq
  <2>2. ids \in Seq(S)
    <3>1. <<card.entity>> \in Seq(S) /\ <<>> \in Seq(S)
      OBVIOUS
    <3> HIDE DEF S
    <3>2. CASE card.entity = None
      <4>1. ids = <<>> \o card.entities
        BY <3>2 DEF CardIds
      <4> QED BY <2>1, <3>1, <4>1
    <3>3. CASE card.entity # None
      <4>1. ids = <<card.entity>> \o card.entities
        BY <3>3 DEF CardIds
      <4> QED BY <2>1, <3>1, <4>1
    <3> QED BY <3>2, <3>3
  <2> HIDE DEF S, ids
  <2>3. ids \in Seq(ToSet(ids))
    BY <2>2 DEF ToSet
  <2> QED BY <2>3 DEF IsSeq, ids
<1>2. ASSUME NEW seqs, IsSeq(seqs), \A i \in DOMAIN seqs : IsSeq(seqs[i])
      PROVE  IsSeq(FlattenSeq(seqs))
  <2> DEFINE S == UNION {ToSet(seqs[i]) : i \in DOMAIN seqs}
             all == FlattenSeq(seqs)
  <2>1. \A i \in DOMAIN seqs : seqs[i] \in Seq(S)
    <3> TAKE i \in DOMAIN seqs
    <3>1. seqs[i] \in Seq(ToSet(seqs[i])) /\ ToSet(seqs[i]) \subseteq S
      BY <1>2 DEF IsSeq
    <3> HIDE DEF S
    <3> QED BY <3>1
  <2>2. seqs \in Seq(Seq(S))
    <3> HIDE DEF S
    <3> QED BY <1>2, <2>1 DEF IsSeq
  <2>3. all \in Seq(S)
    BY <2>2, FlattenType
  <2> HIDE DEF S, all
  <2>4. all \in Seq(ToSet(all))
    BY <2>3 DEF ToSet
  <2> QED BY <2>4 DEF IsSeq, all
<1>3. ASSUME NEW s, IsSeq(s), NEW f, DOMAIN f = DOMAIN s, f = [i \in DOMAIN s |-> f[i]]
      PROVE  IsSeq(f)
  <2>1. Len(s) \in Nat /\ DOMAIN s = 1..Len(s)
    BY <1>3 DEF IsSeq
  <2>2. f \in [1..Len(s) -> ToSet(f)]
    BY <1>3, <2>1 DEF ToSet
  <2>3. f \in Seq(ToSet(f))
    BY <2>1, <2>2
  <2> QED BY <2>3 DEF IsSeq
<1>4. ASSUME NEW cards, AreCards(cards)
      PROVE  IsSeq(CardsIds(cards))
  <2> DEFINE f == [i \in DOMAIN cards |-> CardIds(cards[i])]
  <2>1. IsSeq(cards) /\ \A i \in DOMAIN cards : IsSeq(cards[i].entities)
    BY <1>4 DEF AreCards
  <2>2. \A i \in DOMAIN f : IsSeq(f[i])
    BY <1>1, <2>1
  <2>3. DOMAIN f = DOMAIN cards /\ f = [i \in DOMAIN cards |-> f[i]]
    OBVIOUS
  <2>4. CardsIds(cards) = FlattenSeq(f)
    BY DEF CardsIds
  <2> HIDE DEF f
  <2>5. IsSeq(f)
    BY <1>3, <2>1, <2>3
  <2> QED BY <1>2, <2>2, <2>4, <2>5
<1>5. IsSeq(CardsIds(v.cards))
  BY <1>4 DEF IsView
<1> DEFINE g == [i \in DOMAIN v.sections |-> CardsIds(v.sections[i])]
<1>6. IsSeq(FlattenSeq(g))
  <2>1. \A i \in DOMAIN g : IsSeq(g[i])
    BY <1>4 DEF IsView
  <2>2. IsSeq(v.sections) /\ DOMAIN g = DOMAIN v.sections
        /\ g = [i \in DOMAIN v.sections |-> g[i]]
    BY DEF IsView
  <2> HIDE DEF g
  <2> QED BY <1>2, <1>3, <2>1, <2>2
<1> DEFINE a == CardsIds(v.cards)
           b == FlattenSeq(g)
           S == ToSet(a) \cup ToSet(b)
<1>7. ViewIds(v) = a \o b
  BY DEF ViewIds
<1> HIDE DEF a, b, g
<1>8. a \in Seq(S) /\ b \in Seq(S)
  BY <1>5, <1>6 DEF IsSeq, a, b
<1> HIDE DEF S
<1>9. a \o b \in Seq(S)
  BY <1>8
<1> DEFINE all == ViewIds(v)
<1>10. all \in Seq(S)
  BY <1>7, <1>9
<1> HIDE DEF all
<1>11. all \in Seq(ToSet(all))
  BY <1>10 DEF ToSet
<1> QED BY <1>11 DEF all

----------------------------------------------------------------------------
(* What an answer holds                                                    *)

\* An answer is a dashboard, or there was none yet.
Answer == Dashboards \cup {<<>>}

\* A dashboard is a sequence of views.
LEMMA AnswerSeq ==
  ASSUME NEW d \in Answer
  PROVE  /\ Len(d) \in Nat /\ DOMAIN d = 1..Len(d)
         /\ \A i \in DOMAIN d : d \in Dashboards /\ IsView(d[i])
<1>1. CASE d = <<>>
  BY <1>1
<1>2. CASE d \in Dashboards
  <2>1. d \in Seq(ToSet(d)) /\ \A i \in DOMAIN d : IsView(d[i])
    BY <1>2, DashboardAssumption DEF IsSeq
  <2> QED BY <1>2, <2>1
<1> QED BY <1>1, <1>2 DEF Answer

\* The list has the paths of the first views, as far as they are kept.
LEMMA ListType ==
  ASSUME NEW d \in Dashboards
  PROVE  /\ ListOf(d) \in Seq(AllPaths) /\ Len(ListOf(d)) <= MaxViews
         /\ Len(ListOf(d)) \in Nat /\ Len(ListOf(d)) <= Len(d)
         /\ DOMAIN ListOf(d) = 1..Len(ListOf(d))
         /\ \A i \in DOMAIN ListOf(d) : ListOf(d)[i] = Stored(PathOf(d, i))
<1> DEFINE m == IF Len(d) < MaxViews THEN Len(d) ELSE MaxViews
           l == ListOf(d)
<1>1. Len(d) \in Nat /\ MaxViews \in Nat
  BY AnswerSeq, DashboardAssumption DEF Answer
<1>2. m \in Nat /\ m <= MaxViews /\ m <= Len(d)
  BY <1>1
<1>3. DOMAIN l = 1..m /\ \A i \in 1..m : l[i] = Stored(PathOf(d, i))
  BY DEF ListOf, PathOf
<1>4. l = [i \in 1..m |-> l[i]]
  BY DEF ListOf
<1> HIDE DEF l, m
<1>5. \A i \in 1..m : l[i] \in AllPaths
  <2> TAKE i \in 1..m
  <2>1. l[i] \in ToSet(l)
    BY <1>3 DEF ToSet
  <2>2. l[i] \in PathsOf(d)
    BY <2>1 DEF l, PathsOf
  <2> QED BY <2>2, Zenon DEF AllPaths
<1>6. l \in [1..m -> AllPaths]
  BY <1>4, <1>5
<1>7. l \in Seq(AllPaths) /\ Len(l) = m
  BY <1>2, <1>6
<1> QED BY <1>2, <1>3, <1>7 DEF l

\* The first view with the path, if there is any.
LEMMA FindViewFacts ==
  ASSUME NEW d \in Answer, NEW p
  PROVE  \/ FindView(d, p) = 0 /\ \A i \in DOMAIN d : p \notin {None, PathOf(d, i)}
         \/ /\ FindView(d, p) \in DOMAIN d
            /\ p \in {None, PathOf(d, FindView(d, p))}
            /\ \A i \in DOMAIN d : p \in {None, PathOf(d, i)} => FindView(d, p) <= i
<1> DEFINE hits == {i \in DOMAIN d : p \in {None, PathOf(d, i)}}
           c == CHOOSE i \in hits : \A j \in hits : i <= j
<1>1. hits \in SUBSET Nat
  BY AnswerSeq
<1>2. FindView(d, p) = IF hits = {} THEN 0 ELSE c
  BY DEF FindView
<1>3. CASE hits = {}
  BY <1>2, <1>3
<1>4. CASE hits # {}
  <2>1. \E i \in hits : \A j \in hits : i <= j
    <3> HIDE DEF hits
    <3> QED BY <1>1, <1>4, LeastNat
  <2>2. c \in hits /\ \A j \in hits : c <= j
    <3> HIDE DEF hits
    <3> QED BY <2>1
  <2> HIDE DEF c
  <2> QED BY <1>2, <1>4, <2>2
<1> QED BY <1>3, <1>4

\* The entities of a view, in the order they were collected in.
LEMMA ExtractFacts ==
  ASSUME NEW d \in Dashboards, NEW i \in DOMAIN d
  PROVE  LET v == d[i]
         IN  /\ Extract(v) \in Seq(Entity)
             /\ Len(Extract(v)) = Len(Collected(ViewIds(v)))
             /\ Len(Extract(v)) <= MaxEntities
             /\ \A k \in DOMAIN Collected(ViewIds(v)) :
                  Extract(v)[k].id = Collected(ViewIds(v))[k]
             /\ (\A id \in ToSet(ViewIds(v)) : Fits(id)) =>
                  CollectedInv(Collected(ViewIds(v)), ViewIds(v), Len(ViewIds(v)))
             /\ ViewIds(v) \in Seq(ToSet(ViewIds(v)))
<1> DEFINE all == ViewIds(d[i])
           ids == Collected(all)
           e == Extract(d[i])
<1>1. all \in Seq(ToSet(all))
  BY AnswerSeq, ViewIdsType DEF Answer
<1>2. (\A id \in ToSet(all) : Fits(id)) => CollectedInv(ids, all, Len(all))
  BY <1>1, CollectedFacts
<1>3. ToSet(all) \subseteq AllIds
  BY DEF AllIds, ServedIds
<1>4. e = [k \in DOMAIN ids |-> [id |-> ids[k], val |-> Unavailable]]
  BY DEF Extract
<1>5. \A id \in AllIds : StoredId(id) \in AllIds
  <2>1. \A id : StoredId(StoredId(id)) = StoredId(id)
    BY DEF StoredId
  <2> QED BY <2>1, Zenon DEF AllIds
<1> HIDE DEF all, e
<1>6. ids \in Seq(AllIds) /\ Len(ids) <= MaxEntities
  <2>1. all \in Seq(AllIds)
    BY <1>1, <1>3
  <2> QED BY <1>5, <2>1, CollectedType
<1> HIDE DEF ids
<1>7. e \in [1..Len(ids) -> Entity]
  <2>1. DOMAIN ids = 1..Len(ids) /\ \A k \in 1..Len(ids) : ids[k] \in AllIds
    BY <1>6
  <2>2. \A k \in 1..Len(ids) : [id |-> ids[k], val |-> Unavailable] \in Entity
    BY <2>1 DEF Entity
  <2> QED BY <1>4, <2>1, <2>2
<1>8. e \in Seq(Entity) /\ Len(e) = Len(ids)
  BY <1>6, <1>7
<1>9. \A k \in DOMAIN ids : e[k].id = ids[k]
  BY <1>4
<1> QED BY <1>1, <1>2, <1>6, <1>8, <1>9 DEF all, ids, e

----------------------------------------------------------------------------
(* Types                                                                   *)

\* What each screen draws has its type and fits its array.
LEMMA WidgetType ==
  ASSUME NEW id
  PROVE  Widget(id) \in {"toggle", "light", "climate", "button", "label"}
BY DEF Widget, WidgetOf

LEMMA ButtonsType ==
  ASSUME TypeOK
  PROVE  /\ Buttons \in Seq(Button) /\ Len(Buttons) = Len(list)
         /\ \A i \in 1..Len(list) : Buttons[i] = [shows |-> list[i], at |-> i]
<1>1. list \in Seq(AllPaths) /\ Len(list) \in Nat /\ Len(list) <= MaxViews /\ MaxViews \in Nat
  BY DashboardAssumption DEF TypeOK, Within
<1>2. \A i \in 1..Len(list) : list[i] \in AllPaths /\ i \in 1..MaxViews
  BY <1>1
<1>3. \A i \in 1..Len(list) : [shows |-> list[i], at |-> i] \in Button
  BY <1>2, Zenon DEF Button
<1>4. Buttons = [i \in 1..Len(list) |-> [shows |-> list[i], at |-> i]]
  BY <1>1 DEF Buttons
<1>5. Buttons \in [1..Len(list) -> Button]
  BY <1>3, <1>4
<1> QED BY <1>1, <1>4, <1>5

LEMMA MenuType == ASSUME TypeOK PROVE Within(MenuOf, Button, MaxViews)
<1> DEFINE S == {i \in DOMAIN list : IsEnabled(list[i])}
<1>1. Kept(Buttons, S) \in Seq(Button) /\ Len(Kept(Buttons, S)) <= Len(Buttons)
  <2> HIDE DEF S
  <2> QED BY ButtonsType, KeptPlaces
<1>2. Len(Buttons) \in Nat /\ Len(Buttons) <= MaxViews /\ MaxViews \in Nat
  BY ButtonsType, DashboardAssumption DEF TypeOK, Within
<1>3. MenuOf = IF Kept(Buttons, S) = <<>> THEN Buttons ELSE Kept(Buttons, S)
  BY DEF MenuOf
<1> HIDE DEF S
<1>4. Len(Kept(Buttons, S)) \in Nat
  BY <1>1
<1> QED BY <1>1, <1>2, <1>3, <1>4, ButtonsType DEF Within

LEMMA BoxesType ==
  ASSUME TypeOK
  PROVE  /\ Within(BoxesOf, Box, MaxViews) /\ Len(BoxesOf) = Len(list)
         /\ \A i \in 1..Len(list) :
              BoxesOf[i] = [shows |-> list[i], at |-> i, on |-> IsEnabled(list[i])]
<1>1. list \in Seq(AllPaths) /\ Len(list) \in Nat /\ Len(list) <= MaxViews /\ MaxViews \in Nat
  BY DashboardAssumption DEF TypeOK, Within
<1>2. \A i \in 1..Len(list) : list[i] \in AllPaths /\ i \in 1..MaxViews
  BY <1>1
<1>3. \A p : IsEnabled(p) \in BOOLEAN
  BY Zenon DEF IsEnabled
<1>4. \A i \in 1..Len(list) : [shows |-> list[i], at |-> i, on |-> IsEnabled(list[i])] \in Box
  BY <1>2, <1>3, Zenon DEF Box
<1>5. BoxesOf = [i \in 1..Len(list) |-> [shows |-> list[i], at |-> i, on |-> IsEnabled(list[i])]]
  BY <1>1 DEF BoxesOf
<1>6. BoxesOf \in [1..Len(list) -> Box]
  BY <1>4, <1>5, Zenon
<1>7. BoxesOf \in Seq(Box) /\ Len(BoxesOf) = Len(list)
  BY <1>1, <1>6
<1>8. \A i \in 1..Len(list) :
        BoxesOf[i] = [shows |-> list[i], at |-> i, on |-> IsEnabled(list[i])]
  BY <1>5, Zenon
<1> QED BY <1>1, <1>7, <1>8 DEF Within

LEMMA RowsType == ASSUME TypeOK PROVE Within(RowsOf, Row, MaxEntities)
<1>1. /\ slots \in Seq(Entity) /\ Len(slots) \in Nat /\ Len(slots) <= MaxEntities
      /\ MaxEntities \in Nat
  BY MaxEntitiesType DEF TypeOK, Within
<1>2. \A i \in 1..Len(slots) : RowNow(i) \in Row
  <2> TAKE i \in 1..Len(slots)
  <2>1. slots[i] \in Entity /\ i \in 1..MaxEntities
    BY <1>1
  <2>2. slots[i].id \in AllIds /\ slots[i].val \in Values \cup {Unavailable}
    BY <2>1 DEF Entity
  <2> QED BY <2>1, <2>2, WidgetType, Zenon DEF RowNow, Row
<1>3. RowsOf \in Seq({RowNow(i) : i \in 1..Len(slots)}) /\ Len(RowsOf) = Len(slots)
  BY <1>1, RowsOfIs
<1>4. {RowNow(i) : i \in 1..Len(slots)} \subseteq Row
  BY <1>2
<1> HIDE <1>2
<1>5. RowsOf \in Seq(Row)
  BY <1>3, <1>4
<1> QED BY <1>1, <1>3, <1>5 DEF Within

\* There is a page for the rows, and never more than s_pages has.
PagesFor(rs) == IF rs = <<>> THEN 1 ELSE PageCount(Len(rs))

LEMMA PagesFacts ==
  ASSUME NEW rs, Within(rs, Row, MaxEntities)
  PROVE  PagesFor(rs) \in 1..MaxPages
<1>1. /\ rs \in Seq(Row) /\ Len(rs) \in Nat /\ Len(rs) <= PerPage * MaxPages
      /\ MaxPages \in Nat /\ MaxPages > 0 /\ PerPage \in Nat /\ PerPage > 0
  BY DashboardAssumption DEF Within, MaxEntities
<1>2. CASE rs = <<>>
  BY <1>1, <1>2 DEF PagesFor
<1>3. CASE rs # <<>>
  <2> DEFINE n == Len(rs)
             C == PageCount(n)
  <2>1. n > 0
    BY <1>1, <1>3
  <2>2. C \in Nat /\ n <= Start(C) /\ \A p \in 0..(C - 1) : Start(p) < n
    BY <1>1, PageCountFacts
  <2>3. C # 0
    BY <1>1, <2>1, <2>2, Starts
  <2>4. C <= MaxPages
    <3> SUFFICES ASSUME C > MaxPages PROVE FALSE
      BY <1>1, <2>2
    <3>1. Start(MaxPages) < n
      BY <1>1, <2>2
    <3> QED BY <1>1, <3>1 DEF Start
  <2>5. PagesFor(rs) = C
    BY <1>3 DEF PagesFor
  <2> HIDE DEF C
  <2> QED BY <1>1, <2>2, <2>3, <2>4, <2>5
<1> QED BY <1>2, <1>3

----------------------------------------------------------------------------
(* Type correctness                                                        *)

\* TypeOK in the parts that the actions leave alone or change together.
WsType ==
  /\ answer \in Answer
  /\ wsPc \in {"idle", "postViews", "clear", "extract", "postEntities", "done"}
  /\ Within(list, AllPaths, MaxViews) /\ Within(slots, Entity, MaxEntities)

PendingType == pending \in [kind : {"none", "views", "entities"}, path : AllPaths]
QueueType   == Within(queue, Event, QueueCap)
EnabledType == Within(enabled, AllPaths, MaxViews)
ScreenType  == screen \in {"setup", "status", "menu", "settings", "entities"}
MenuOK      == Within(menu, Button, MaxViews)
BoxesOK     == Within(boxes, Box, MaxViews)

RowType ==
  /\ drawn \in BOOLEAN /\ Within(rows, Row, MaxEntities)
  /\ page \in 0..(MaxPages - 1) /\ page < PagesFor(rows)
  /\ popup \subseteq [shows : AllIds, at : 1..MaxEntities]

\* Both forms of the type invariant are the same.
LEMMA TypeParts ==
  /\ TypeOK <=> /\ WsType /\ PendingType /\ QueueType /\ EnabledType
                /\ ScreenType /\ MenuOK /\ BoxesOK /\ RowType
  /\ TypeOK' <=> /\ WsType' /\ PendingType' /\ QueueType' /\ EnabledType'
                 /\ ScreenType' /\ MenuOK' /\ BoxesOK' /\ RowType'
BY Zenon DEF TypeOK, WsType, PendingType, QueueType, EnabledType, ScreenType,
   MenuOK, BoxesOK, RowType, Pages, PagesFor, Answer

\* What stays the same keeps its type.
LEMMA SameTypes ==
  ASSUME TypeOK
  PROVE  /\ UNCHANGED wsVars => WsType'
         /\ UNCHANGED pending => PendingType'
         /\ UNCHANGED queue => QueueType'
         /\ UNCHANGED enabled => EnabledType'
         /\ UNCHANGED screen => ScreenType'
         /\ UNCHANGED menu => MenuOK'
         /\ UNCHANGED boxes => BoxesOK'
         /\ UNCHANGED rowVars => RowType'
<1>1. /\ WsType /\ PendingType /\ QueueType /\ EnabledType
      /\ ScreenType /\ MenuOK /\ BoxesOK /\ RowType
  BY TypeParts
<1>2. UNCHANGED wsVars => WsType'
  BY <1>1 DEF WsType, wsVars
<1>3. UNCHANGED rowVars => RowType'
  BY <1>1 DEF RowType, rowVars
<1>4. UNCHANGED pending => PendingType'
  BY <1>1 DEF PendingType
<1>5. UNCHANGED queue => QueueType'
  BY <1>1 DEF QueueType
<1>6. UNCHANGED enabled => EnabledType'
  BY <1>1 DEF EnabledType
<1>7. UNCHANGED screen => ScreenType'
  BY <1>1 DEF ScreenType
<1>8. UNCHANGED menu => MenuOK'
  BY <1>1 DEF MenuOK
<1>9. UNCHANGED boxes => BoxesOK'
  BY <1>1 DEF BoxesOK
<1> QED BY <1>2, <1>3, <1>4, <1>5, <1>6, <1>7, <1>8, <1>9

\* What the actions write has its type.
LEMMA RequestType ==
  ASSUME NEW kind \in {"none", "views", "entities"}, NEW path \in AllPaths,
         Request(kind, path)
  PROVE  PendingType'
BY DEF Request, PendingType

LEMMA NoPath == None \in AllPaths
BY DEF AllPaths

LEMMA PostType ==
  ASSUME TypeOK, NEW evt \in Event, Post(evt)
  PROVE  QueueType'
<1>1. queue \in Seq(Event) /\ Len(queue) < QueueCap /\ queue' = Append(queue, evt)
      /\ QueueCap \in Nat
  BY DashboardAssumption DEF TypeOK, Within, Post
<1>2. queue' \in Seq(Event) /\ Len(queue') = Len(queue) + 1 /\ Len(queue) \in Nat
  BY <1>1
<1> QED BY <1>1, <1>2 DEF QueueType, Within

LEMMA TookType ==
  ASSUME TypeOK, NEW type, Took(type)
  PROVE  QueueType' /\ Head(queue) \in Event
<1>1. queue \in Seq(Event) /\ Len(queue) <= QueueCap /\ queue # <<>> /\ queue' = Tail(queue)
      /\ QueueCap \in Nat
  BY DashboardAssumption DEF TypeOK, Within, Took
<1>2. queue' \in Seq(Event) /\ Len(queue') <= Len(queue) /\ Len(queue) \in Nat
      /\ Len(queue') \in Nat /\ Head(queue) \in Event
  BY <1>1
<1> QED BY <1>1, <1>2 DEF QueueType, Within

LEMMA ShowMenuType ==
  ASSUME TypeOK, ShowMenu
  PROVE  ScreenType' /\ MenuOK'
<1>1. Within(menu, Button, MaxViews) /\ Within(MenuOf, Button, MaxViews)
  BY MenuType DEF TypeOK
<1> QED BY <1>1, Zenon DEF ShowMenu, ScreenType, MenuOK

LEMMA DrawRowsType ==
  ASSUME TypeOK, DrawRows
  PROVE  ScreenType' /\ RowType'
<1>1. /\ drawn' = TRUE /\ rows' = RowsOf /\ page' = 0 /\ popup' = {}
      /\ screen' = "entities"
  BY DEF DrawRows
<1>2. Within(rows', Row, MaxEntities)
  BY <1>1, RowsType
<1>3. PagesFor(rows') \in 1..MaxPages
  BY <1>2, PagesFacts
<1>4. page' \in 0..(MaxPages - 1) /\ page' < PagesFor(rows')
  BY <1>1, <1>3, DashboardAssumption
<1>5. popup' \subseteq [shows : AllIds, at : 1..MaxEntities]
  BY <1>1
<1> QED BY <1>1, <1>2, <1>4, <1>5 DEF ScreenType, RowType

LEMMA PathBehindType ==
  ASSUME TypeOK, NEW b, b.shows \in AllPaths
  PROVE  PathBehind(b) \in AllPaths
BY DEF TypeOK, Within, PathBehind

\* The steps of the websocket task keep the types.
LEMMA WebsocketTypes ==
  ASSUME TypeOK, Websocket
  PROVE  TypeOK'
<1>1. CASE \E d \in Dashboards : WsList(d)
  <2>1. PICK d \in Dashboards : WsList(d)
    BY <1>1
  <2>2. Within(list', AllPaths, MaxViews)
    BY <2>1, ListType DEF WsList, Within
  <2>3. WsType'
    BY <2>1, <2>2, TypeParts DEF WsList, WsType, Answer
  <2> QED BY <2>1, <2>3, SameTypes, TypeParts DEF WsList, uiSide
<1>2. CASE WsPostViews
  <2>1. [type |-> "VIEWS"] \in Event
    BY DEF Event
  <2>2. QueueType'
    BY <1>2, <2>1, PostType DEF WsPostViews
  <2>3. WsType'
    BY <1>2, TypeParts DEF WsPostViews, WsType
  <2> QED BY <1>2, <2>2, <2>3, SameTypes, TypeParts DEF WsPostViews, uiSide
<1>3. CASE WsClear
  <2>1. Within(<<>>, Entity, MaxEntities)
    BY MaxEntitiesType DEF Within
  <2>2. WsType'
    BY <1>3, <2>1, TypeParts DEF WsClear, WsType
  <2> QED BY <1>3, <2>2, SameTypes, TypeParts DEF WsClear, uiSide
<1>4. CASE WsExtract
  <2>1. Within(<<>>, Entity, MaxEntities)
    BY MaxEntitiesType DEF Within
  <2> DEFINE i == FindView(answer, pending.path)
  <2>2. answer \in Answer
    BY TypeParts DEF WsType
  <2>3. Within(slots', Entity, MaxEntities)
    <3>1. CASE i = 0
      BY <1>4, <2>1, <3>1 DEF WsExtract
    <3>2. CASE i # 0
      <4>1. i \in DOMAIN answer
        BY <2>2, <3>2, FindViewFacts
      <4>2. answer \in Dashboards
        BY <2>2, <4>1, AnswerSeq
      <4>3. slots' = Extract(answer[i])
        BY <1>4, <3>2 DEF WsExtract
      <4> HIDE DEF i
      <4> QED BY <4>1, <4>2, <4>3, ExtractFacts DEF Within
    <3> QED BY <3>1, <3>2
  <2>4. WsType'
    BY <1>4, <2>3, TypeParts DEF WsExtract, WsType
  <2> QED BY <1>4, <2>4, SameTypes, TypeParts DEF WsExtract, uiSide
<1>5. CASE WsPostEntities
  <2>1. [type |-> "ENTITIES"] \in Event
    BY DEF Event
  <2>2. QueueType'
    BY <1>5, <2>1, PostType DEF WsPostEntities
  <2>3. WsType'
    BY <1>5, TypeParts DEF WsPostEntities, WsType
  <2> QED BY <1>5, <2>2, <2>3, SameTypes, TypeParts DEF WsPostEntities, uiSide
<1>6. CASE WsDone
  <2>1. PendingType'
    BY <1>6, NoPath, RequestType DEF WsDone
  <2>2. WsType'
    BY <1>6, TypeParts DEF WsDone, WsType
  <2> QED BY <1>6, <2>1, <2>2, SameTypes, TypeParts DEF WsDone, uiSide
<1>7. CASE \E id \in Live, val \in Values : WsState(id, val)
  <2>1. PICK id \in Live, val \in Values : WsState(id, val)
    BY <1>7
  <2>2. [type |-> "STATE", id |-> id, val |-> val] \in Event
    BY DEF Event
  <2>3. QueueType'
    BY <2>1, <2>2, PostType DEF WsState
  <2> QED BY <2>1, <2>3, SameTypes, TypeParts DEF WsState, uiSide
<1>8. CASE \E type \in {"CONNECTED", "DISCONNECTED"} : WsLink(type)
  <2>1. PICK type \in {"CONNECTED", "DISCONNECTED"} : WsLink(type)
    BY <1>8
  <2>2. [type |-> type] \in Event
    BY DEF Event
  <2>3. QueueType'
    BY <2>1, <2>2, PostType DEF WsLink
  <2>4. PendingType'
    BY <2>1, NoPath, RequestType, SameTypes DEF WsLink
  <2> QED BY <2>1, <2>3, <2>4, SameTypes, TypeParts DEF WsLink, uiSide
<1> QED BY <1>1, <1>2, <1>3, <1>4, <1>5, <1>6, <1>7, <1>8 DEF Websocket

\* So do the events of the UI task.
LEMMA HandleConnectedTypes ==
  ASSUME TypeOK, HandleConnected
  PROVE  TypeOK'
<1>1. QueueType'
  BY TookType DEF HandleConnected
<1>2. PendingType' /\ ScreenType' /\ MenuOK'
  <2>1. CASE SetupOpen /\ UNCHANGED <<pending, screen, menu>>
    BY <2>1, SameTypes
  <2>0. CASE ~SetupOpen /\ (\E saved \in ListPaths : Request("entities", saved))
             /\ UNCHANGED <<screen, menu>>
    <3>1. ListPaths \subseteq AllPaths
      BY DEF ListPaths, AllPaths, PathsOf
    <3> QED BY <2>0, <3>1, RequestType, SameTypes
  <2>2. CASE ~SetupOpen /\ Len(enabled) = 1 /\ Request("entities", enabled[1])
             /\ UNCHANGED <<screen, menu>>
    <3>1. enabled \in Seq(AllPaths) /\ Len(enabled) = 1
      BY <2>2 DEF TypeOK, Within
    <3>2. enabled[1] \in AllPaths
      BY <3>1
    <3> QED BY <2>2, <3>2, RequestType, SameTypes
  <2>3. CASE ~SetupOpen /\ Len(enabled) # 1 /\ ShowMenu /\ Request("views", pending.path)
    <3>1. pending.path \in AllPaths
      BY TypeParts DEF PendingType
    <3> QED BY <2>3, <3>1, RequestType, ShowMenuType
  <2> QED BY <2>0, <2>1, <2>2, <2>3 DEF HandleConnected
<1> QED BY <1>1, <1>2, SameTypes, TypeParts DEF HandleConnected

LEMMA HandleStateTypes ==
  ASSUME TypeOK, HandleState
  PROVE  TypeOK'
<1> DEFINE evt == Head(queue)
           hit == IF drawn THEN FindSlot(evt.id) ELSE {}
<1>1. QueueType' /\ evt \in Event /\ evt.type = "STATE"
  BY TookType DEF HandleState, Took
<1>2. evt.val \in Values
  BY <1>1 DEF Event
<1>3. /\ slots' = [k \in DOMAIN slots |->
                     IF k \in hit THEN [slots[k] EXCEPT !.val = evt.val] ELSE slots[k]]
      /\ rows' = [k \in DOMAIN rows |->
                    IF rows[k].at \in hit THEN [rows[k] EXCEPT !.val = evt.val] ELSE rows[k]]
  BY DEF HandleState
<1> HIDE DEF hit, evt
<1>4. /\ slots \in Seq(Entity) /\ Len(slots) \in Nat /\ Len(slots) <= MaxEntities
      /\ rows \in Seq(Row) /\ Len(rows) \in Nat /\ Len(rows) <= MaxEntities
  BY DEF TypeOK, Within
<1>5. \A e \in Entity : [e EXCEPT !.val = evt.val] \in Entity
  BY <1>2 DEF Entity
<1>6. \A r \in Row : [r EXCEPT !.val = evt.val] \in Row
  BY <1>2 DEF Row
<1>7. slots' \in [1..Len(slots) -> Entity]
  BY <1>3, <1>4, <1>5
<1>8. rows' \in [1..Len(rows) -> Row]
  BY <1>3, <1>4, <1>6
<1>9. Within(slots', Entity, MaxEntities) /\ Within(rows', Row, MaxEntities)
      /\ Len(rows') = Len(rows)
  <2>1. slots' \in Seq(Entity) /\ Len(slots') = Len(slots)
    BY <1>4, <1>7
  <2>2. rows' \in Seq(Row) /\ Len(rows') = Len(rows)
    BY <1>4, <1>8
  <2> QED BY <1>4, <2>1, <2>2 DEF Within
<1>10. WsType'
  BY <1>9, TypeParts DEF WsType, HandleState
<1>11. PagesFor(rows') = PagesFor(rows)
  BY <1>4, <1>9 DEF PagesFor, Within
<1>12. RowType'
  BY <1>9, <1>11, TypeParts DEF RowType, HandleState
<1> QED BY <1>1, <1>10, <1>12, SameTypes, TypeParts DEF HandleState

LEMMA EventTypes ==
  ASSUME TypeOK, HandleEvent
  PROVE  TypeOK'
<1>1. CASE HandleDisconnected
  <2>1. QueueType'
    BY <1>1, TookType DEF HandleDisconnected
  <2>2. ScreenType'
    BY <1>1 DEF HandleDisconnected, ScreenType
  <2> QED BY <1>1, <2>1, <2>2, SameTypes, TypeParts DEF HandleDisconnected
<1>2. CASE HandleViews
  <2>1. QueueType'
    BY <1>2, TookType DEF HandleViews
  <2>2. MenuOK' /\ BoxesOK'
    BY <1>2, MenuType, BoxesType DEF HandleViews, MenuOK, BoxesOK
  <2> QED BY <1>2, <2>1, <2>2, SameTypes, TypeParts DEF HandleViews
<1>3. CASE HandleEntities
  <2>1. QueueType'
    BY <1>3, TookType DEF HandleEntities
  <2>2. ScreenType' /\ RowType'
    BY <1>3, DrawRowsType, SameTypes DEF HandleEntities
  <2> QED BY <1>3, <2>1, <2>2, SameTypes, TypeParts DEF HandleEntities
<1> QED BY <1>1, <1>2, <1>3, HandleConnectedTypes, HandleStateTypes DEF HandleEvent

\* The selection is as long as the boxes at most, and holds paths of theirs.
LEMMA ToggleTypes ==
  ASSUME TypeOK, NEW i \in DOMAIN boxes, SettingsToggle(i)
  PROVE  TypeOK'
<1> DEFINE S == {k \in DOMAIN boxes : boxes'[k].on}
           on == Kept(boxes', S)
<1>1. boxes \in Seq(Box) /\ Len(boxes) \in Nat /\ Len(boxes) <= MaxViews /\ MaxViews \in Nat
  BY DashboardAssumption DEF TypeOK, Within
<1>2. boxes' = [boxes EXCEPT ![i].on = ~boxes[i].on]
  BY DEF SettingsToggle
<1>3. enabled' = [k \in DOMAIN on |-> PathBehind(on[k])]
  BY DEF SettingsToggle
<1>4. boxes' \in Seq(Box) /\ Len(boxes') = Len(boxes)
  <2>1. boxes[i] \in Box
    BY <1>1
  <2>2. [boxes[i] EXCEPT !.on = ~boxes[i].on] \in Box
    BY <2>1 DEF Box
  <2>3. boxes' = [boxes EXCEPT ![i] = [boxes[i] EXCEPT !.on = ~boxes[i].on]]
    BY <1>2, Zenon
  <2> QED BY <1>1, <2>2, <2>3
<1>5. on \in Seq(Box) /\ Len(on) <= Len(boxes)
  <2> HIDE DEF S
  <2> QED BY <1>4, KeptPlaces
<1> HIDE DEF on
<1>6. \A k \in DOMAIN on : PathBehind(on[k]) \in AllPaths
  <2> TAKE k \in DOMAIN on
  <2>1. on[k] \in Box
    BY <1>5
  <2>2. on[k].shows \in AllPaths
    BY <2>1 DEF Box
  <2> QED BY <2>2, PathBehindType
<1>7. EnabledType'
  <2>1. enabled' \in [1..Len(on) -> AllPaths] /\ Len(on) \in Nat
    BY <1>3, <1>5, <1>6
  <2> QED BY <1>1, <1>5, <2>1 DEF EnabledType, Within
<1>8. BoxesOK'
  BY <1>1, <1>4 DEF BoxesOK, Within
<1> QED BY <1>7, <1>8, SameTypes, TypeParts DEF SettingsToggle

\* So do the taps.
LEMMA TapTypes ==
  ASSUME TypeOK, Tap
  PROVE  TypeOK'
<1>1. pending.path \in AllPaths
  BY TypeParts DEF PendingType
<1>2. Within(<<>>, Button, MaxViews) /\ Within(<<>>, Box, MaxViews)
  BY DashboardAssumption DEF Within
<1>3. CASE \E i \in DOMAIN menu : MenuSelect(i)
  <2>1. PICK i \in DOMAIN menu : MenuSelect(i)
    BY <1>3
  <2>2. menu[i].shows \in AllPaths
    <3>1. menu[i] \in Button
      BY DEF TypeOK, Within
    <3> QED BY <3>1 DEF Button
  <2>3. PathBehind(menu[i]) \in AllPaths
    BY <2>2, PathBehindType
  <2>4. PendingType'
    BY <2>1, <2>3, RequestType DEF MenuSelect
  <2> QED BY <2>1, <2>4, SameTypes, TypeParts DEF MenuSelect
<1>4. CASE MenuRefresh
  <2>1. PendingType' /\ MenuOK'
    BY <1>1, <1>2, <1>4, RequestType DEF MenuRefresh, MenuOK
  <2> QED BY <1>4, <2>1, SameTypes, TypeParts DEF MenuRefresh
<1>5. CASE SettingsRefresh
  <2>1. PendingType' /\ BoxesOK'
    BY <1>1, <1>2, <1>5, RequestType DEF SettingsRefresh, BoxesOK
  <2> QED BY <1>5, <2>1, SameTypes, TypeParts DEF SettingsRefresh
<1>6. CASE \E i \in DOMAIN boxes : SettingsToggle(i)
  BY <1>6, ToggleTypes
<1>7. CASE StatusViews
  <2>1. ScreenType' /\ BoxesOK'
    BY <1>7, BoxesType DEF StatusViews, ScreenType, BoxesOK
  <2>2. PendingType'
    BY <1>1, <1>7, RequestType, SameTypes DEF StatusViews
  <2> QED BY <1>7, <2>1, <2>2, SameTypes, TypeParts DEF StatusViews
<1>8. CASE StatusBack
  <2>1. ScreenType' /\ RowType' /\ MenuOK'
    BY <1>8, DrawRowsType, ShowMenuType, SameTypes DEF StatusBack
  <2> QED BY <1>8, <2>1, SameTypes, TypeParts DEF StatusBack
<1>9. CASE ShowSetup
  <2>1. ScreenType'
    BY <1>9 DEF ShowSetup, ScreenType
  <2> QED BY <1>9, <2>1, SameTypes, TypeParts DEF ShowSetup
<1>10. CASE ShowStatus
  <2>1. ScreenType'
    BY <1>10 DEF ShowStatus, ScreenType
  <2> QED BY <1>10, <2>1, SameTypes, TypeParts DEF ShowStatus
<1>11. CASE BackToMenu
  BY <1>11, ShowMenuType, SameTypes, TypeParts DEF BackToMenu
<1>12. CASE Swipe
  <2>1. PagesFor(rows) \in 1..MaxPages /\ MaxPages \in Nat /\ Pages = PagesFor(rows)
    BY PagesFacts, DashboardAssumption DEF TypeOK, Pages, PagesFor
  <2>2. page' \in 0..(MaxPages - 1) /\ page' < PagesFor(rows)
    BY <1>12, <2>1 DEF Swipe
  <2>3. RowType'
    BY <1>12, <2>2, TypeParts DEF Swipe, RowType
  <2> QED BY <1>12, <2>3, SameTypes, TypeParts DEF Swipe
<1>13. CASE ClosePopup
  <2>1. RowType'
    BY <1>13, TypeParts DEF ClosePopup, RowType
  <2> QED BY <1>13, <2>1, SameTypes, TypeParts DEF ClosePopup
<1>14. CASE \E i \in DOMAIN rows : OpenPopup(i)
  <2>1. PICK i \in DOMAIN rows : OpenPopup(i)
    BY <1>14
  <2>2. rows[i] \in Row
    BY DEF TypeOK, Within
  <2>3. [shows |-> rows[i].shows, at |-> rows[i].at] \in [shows : AllIds, at : 1..MaxEntities]
    BY <2>2 DEF Row
  <2>4. RowType'
    BY <2>1, <2>3, TypeParts DEF OpenPopup, RowType
  <2> QED BY <2>1, <2>4, SameTypes, TypeParts DEF OpenPopup
<1> QED BY <1>3, <1>4, <1>5, <1>6, <1>7, <1>8, <1>9, <1>10, <1>11, <1>12, <1>13, <1>14
        DEF Tap

LEMMA TypeInit == Init => TypeOK
<1> SUFFICES ASSUME Init PROVE TypeOK
  OBVIOUS
<1>1. WsType
  BY MaxEntitiesType, DashboardAssumption DEF Init, WsType, Within, Answer
<1>2. PendingType
  BY NoPath DEF Init, PendingType
<1>3. QueueType /\ EnabledType /\ ScreenType /\ MenuOK /\ BoxesOK
  BY DashboardAssumption
     DEF Init, QueueType, EnabledType, ScreenType, MenuOK, BoxesOK, Within
<1>4. RowType
  <2>1. Within(rows, Row, MaxEntities)
    BY MaxEntitiesType DEF Init, Within
  <2>2. PagesFor(rows) \in 1..MaxPages /\ MaxPages \in Nat
    BY <2>1, PagesFacts, DashboardAssumption
  <2>3. page \in 0..(MaxPages - 1) /\ page < PagesFor(rows)
    BY <2>2 DEF Init
  <2> QED BY <2>1, <2>3 DEF Init, RowType
<1> QED BY <1>1, <1>2, <1>3, <1>4, TypeParts

LEMMA TypeStep == TypeOK /\ [Next]_vars => TypeOK'
<1>1. ASSUME TypeOK, UNCHANGED vars PROVE TypeOK'
  BY <1>1, SameTypes, TypeParts DEF vars
<1> QED BY <1>1, WebsocketTypes, EventTypes, TapTypes DEF Next

\* Whatever Home Assistant serves, the arrays of the views, the entities and
\* the enabled paths never overflow, every pointer of a button, a checkbox, a
\* row and the popup stays in its array, and the page shown is one of s_pages.
THEOREM TypeCorrect == Spec => []TypeOK
BY TypeInit, TypeStep, PTL DEF Spec

----------------------------------------------------------------------------
(* What the screens know                                                   *)

NoneOf(type) == \A i \in DOMAIN queue : queue[i].type # type

\* Nothing is on its way that changes the list, or the entities.
ListKnown == wsPc # "postViews" /\ NoneOf("VIEWS")
RowsKnown == wsPc \notin {"extract", "postEntities"} /\ NoneOf("ENTITIES")

\* The websocket task works on the answer it has taken the list from.
AnswerInv == wsPc # "idle" => answer \in Dashboards /\ list = ListOf(answer)

\* The menu, once filled, is that of the list and the selection as they are.
MenuInv ==
  ListKnown =>
    /\ list = <<>> => menu = <<>>
    /\ screen = "menu" /\ menu # <<>> => menu = MenuOf

\* The list names every view differently, which is up to Home Assistant.
DistinctPaths == \A d \in Dashboards : \A i, j \in DOMAIN ListOf(d) :
                   ListOf(d)[i] = ListOf(d)[j] => i = j

ListDistinct == \A i, j \in DOMAIN list : list[i] = list[j] => i = j

\* The checkboxes stand for the list and the selection as they are. With no
\* selection they can all be checked, or none: the last one was taken away.
BoxInv ==
  ListKnown /\ screen = "settings" /\ boxes # <<>> =>
    /\ Len(boxes) = Len(list)
    /\ \A k \in DOMAIN boxes :
         /\ boxes[k].at = k
         /\ boxes[k].shows = list[k]
         /\ enabled # <<>> => (boxes[k].on <=> list[k] \in ToSet(enabled))

\* The rows are those of the entities as they are.
RowInv ==
  RowsKnown /\ screen = "entities" =>
    /\ drawn
    /\ Len(rows) = Len(slots)
    /\ \A i \in DOMAIN rows : rows[i] = RowNow(i)
    /\ \A p \in popup : p.at \in DOMAIN slots /\ slots[p.at].id = p.shows

\* An event that is taken, or posted, hides no other one.
LEMMA TookNone ==
  ASSUME TypeOK, NEW s, Took(s), NEW type, type # s
  PROVE  NoneOf(type)' => NoneOf(type)
<1>1. queue \in Seq(Event) /\ queue # <<>> /\ Head(queue).type = s /\ queue' = Tail(queue)
  BY DEF TypeOK, Within, Took
<1>2. ASSUME NoneOf(type)', NEW i \in DOMAIN queue PROVE queue[i].type # type
  <2>1. CASE i = 1
    BY <1>1, <2>1
  <2>2. CASE i # 1
    <3>1. i - 1 \in DOMAIN queue' /\ queue'[i - 1] = queue[i]
      BY <1>1, <2>2
    <3> QED BY <1>2, <3>1 DEF NoneOf
  <2> QED BY <2>1, <2>2
<1> QED BY <1>2 DEF NoneOf

LEMMA PostNone ==
  ASSUME TypeOK, NEW evt, Post(evt), NEW type
  PROVE  NoneOf(type)' => NoneOf(type) /\ evt.type # type
<1>1. queue \in Seq(Event) /\ queue' = Append(queue, evt)
  BY DEF TypeOK, Within, Post
<1>2. /\ \A i \in DOMAIN queue : i \in DOMAIN queue' /\ queue'[i] = queue[i]
      /\ Len(queue) + 1 \in DOMAIN queue' /\ queue'[Len(queue) + 1] = evt
  BY <1>1
<1> QED BY <1>2, Zenon DEF NoneOf

LEMMA SameNone ==
  ASSUME NEW type
  PROVE  UNCHANGED queue => (NoneOf(type)' <=> NoneOf(type))
BY DEF NoneOf

\* Steps that leave the list and the selection alone.
MenuKept == \/ UNCHANGED menu /\ (screen' = "menu" => screen = "menu")
            \/ ShowMenu
            \/ menu' = <<>>

BoxesKept == \/ UNCHANGED boxes /\ (screen' = "settings" => screen = "settings")
             \/ boxes' = BoxesOf
             \/ boxes' = <<>>

ListKept ==
  /\ UNCHANGED <<list, enabled>>
  /\ ListKnown' => ListKnown
  /\ MenuKept /\ BoxesKept

\* Every other step changes the list or the selection, or an event is due.
LEMMA ListSteps ==
  ASSUME TypeOK, [Next]_vars
  PROVE  \/ ~ListKnown'
         \/ HandleViews
         \/ \E i \in DOMAIN boxes : SettingsToggle(i)
         \/ ListKept
<1>1. CASE \E d \in Dashboards : WsList(d)
  BY <1>1 DEF WsList, ListKnown
<1>2. CASE WsPostViews
  BY <1>2, PostNone DEF WsPostViews, ListKnown
<1>3. CASE WsClear \/ WsExtract \/ WsDone
  BY <1>3, SameNone DEF WsClear, WsExtract, WsDone, uiSide, ListKnown, ListKept,
     MenuKept, BoxesKept
<1>4. CASE WsPostEntities
  BY <1>4, PostNone DEF WsPostEntities, uiSide, ListKnown, ListKept, MenuKept, BoxesKept
<1>5. CASE \E id \in Live, val \in Values : WsState(id, val)
  BY <1>5, PostNone DEF WsState, uiSide, wsVars, ListKnown, ListKept, MenuKept, BoxesKept
<1>6. CASE \E type \in {"CONNECTED", "DISCONNECTED"} : WsLink(type)
  BY <1>6, PostNone DEF WsLink, uiSide, wsVars, ListKnown, ListKept, MenuKept, BoxesKept
<1>7. CASE HandleConnected
  BY <1>7, TookNone DEF HandleConnected, ShowMenu, wsVars, ListKnown, ListKept,
     MenuKept, BoxesKept
<1>8. CASE HandleDisconnected
  BY <1>8, TookNone DEF HandleDisconnected, wsVars, ListKnown, ListKept, MenuKept, BoxesKept
<1>9. CASE HandleEntities
  BY <1>9, TookNone
     DEF HandleEntities, DrawRows, wsVars, ListKnown, ListKept, MenuKept, BoxesKept
<1>10. CASE HandleState
  BY <1>10, TookNone DEF HandleState, ListKnown, ListKept, MenuKept, BoxesKept
<1>11. CASE (\E i \in DOMAIN menu : MenuSelect(i)) \/ MenuRefresh \/ SettingsRefresh
  BY <1>11, SameNone DEF MenuSelect, MenuRefresh, SettingsRefresh, wsVars, ListKnown,
     ListKept, MenuKept, BoxesKept
<1>12. CASE StatusViews \/ StatusBack
  BY <1>12, SameNone DEF StatusViews, StatusBack, ShowMenu, DrawRows, wsVars, ListKnown,
     ListKept, MenuKept, BoxesKept
<1>13. CASE ShowSetup \/ ShowStatus \/ BackToMenu
  BY <1>13, SameNone DEF ShowSetup, ShowStatus, BackToMenu, ShowMenu, wsVars, ListKnown,
     ListKept, MenuKept, BoxesKept
<1>14. CASE Swipe \/ ClosePopup \/ (\E i \in DOMAIN rows : OpenPopup(i))
  BY <1>14, SameNone DEF Swipe, ClosePopup, OpenPopup, wsVars, ListKnown,
     ListKept, MenuKept, BoxesKept
<1>15. CASE UNCHANGED vars
  BY <1>15, SameNone DEF vars, wsVars, ListKnown, ListKept, MenuKept, BoxesKept
<1> QED BY <1>1, <1>2, <1>3, <1>4, <1>5, <1>6, <1>7, <1>8, <1>9, <1>10, <1>11, <1>12,
        <1>13, <1>14, <1>15 DEF Next, Websocket, HandleEvent, Tap

\* The menu is filled from the list and the selection, and again after both.
LEMMA MenuStep ==
  ASSUME TypeOK, MenuInv, [Next]_vars
  PROVE  MenuInv'
<1>1. ASSUME UNCHANGED <<list, enabled>> PROVE UNCHANGED MenuOf
  BY <1>1, Zenon DEF MenuOf, Buttons, IsEnabled
<1>2. ASSUME list = <<>> PROVE MenuOf = <<>>
  <2>1. Buttons = <<>>
    BY <1>2, ButtonsType
  <2> DEFINE S == {i \in DOMAIN list : IsEnabled(list[i])}
             on == Kept(Buttons, S)
  <2>2. on = <<>>
    <3>1. on \in Seq(Button) /\ Len(on) <= Len(Buttons)
      <4> HIDE DEF S
      <4> QED BY ButtonsType, KeptPlaces
    <3> HIDE DEF on
    <3> QED BY <2>1, <3>1
  <2> QED BY <2>1, <2>2 DEF MenuOf
<1>3. CASE HandleViews
  <2>1. menu' = MenuOf /\ UNCHANGED <<list, enabled>>
    BY <1>3 DEF HandleViews, wsVars
  <2> QED BY <1>1, <1>2, <2>1 DEF MenuInv
<1>4. CASE \E i \in DOMAIN boxes : SettingsToggle(i)
  <2>1. ListKnown' => ListKnown
    BY <1>4, SameNone DEF SettingsToggle, wsVars, ListKnown
  <2>2. screen' = "settings" /\ UNCHANGED <<list, menu>>
    BY <1>4 DEF SettingsToggle, wsVars
  <2> QED BY <2>1, <2>2 DEF MenuInv
<1>5. CASE ListKept
  <2>1. UNCHANGED <<list, enabled>> /\ (ListKnown' => ListKnown) /\ UNCHANGED MenuOf
    BY <1>1, <1>5 DEF ListKept
  <2>2. CASE UNCHANGED menu /\ (screen' = "menu" => screen = "menu")
    BY <2>1, <2>2 DEF MenuInv
  <2>3. CASE ShowMenu
    <3>1. menu' = IF list = <<>> THEN menu ELSE MenuOf
      BY <2>3 DEF ShowMenu
    <3> QED BY <1>2, <2>1, <3>1 DEF MenuInv
  <2>4. CASE menu' = <<>>
    BY <2>4 DEF MenuInv
  <2> QED BY <1>5, <2>2, <2>3, <2>4 DEF ListKept, MenuKept
<1>6. CASE ~ListKnown'
  BY <1>6 DEF MenuInv
<1> QED BY <1>3, <1>4, <1>5, <1>6, ListSteps

\* What MenuInv says of the buttons one by one.
LEMMA MenuSays ==
  ASSUME TypeOK, MenuInv
  PROVE  MenuTrue
<1> SUFFICES ASSUME Settled, screen = "menu", menu # <<>>
             PROVE  LET on == {i \in DOMAIN list : list[i] \in ToSet(enabled)}
                    IN  /\ \A k \in DOMAIN menu : PathBehind(menu[k]) = menu[k].shows
                        /\ \A k \in 2..Len(menu) : menu[k - 1].at < menu[k].at
                        /\ {menu[k].at : k \in DOMAIN menu} =
                             IF on = {} THEN DOMAIN list ELSE on
  BY Zenon DEF MenuTrue
<1> DEFINE on == {i \in DOMAIN list : list[i] \in ToSet(enabled)}
           S  == {i \in DOMAIN list : IsEnabled(list[i])}
           kept == Kept(Buttons, S)
           L  == Len(list)
<1>1. menu = MenuOf
  BY DEF MenuInv, Settled, ListKnown, NoneOf
<1>2. /\ Buttons \in Seq(Button) /\ Len(Buttons) = L
      /\ \A i \in 1..L : Buttons[i] = [shows |-> list[i], at |-> i]
  BY ButtonsType
<1>3. DOMAIN list = 1..L /\ L \in Nat
  BY DEF TypeOK, Within
<1>4. kept \in Seq(Button) /\ Places(kept, Buttons, S, L)
  <2> HIDE DEF S
  <2> QED BY <1>2, KeptPlaces
<1>5. PICK h \in [1..Len(kept) -> (1..L) \cap S] :
        /\ \A k \in 1..Len(kept) : kept[k] = Buttons[h[k]]
        /\ \A k \in 2..Len(kept) : h[k - 1] < h[k]
        /\ \A i \in (1..L) \cap S : \E k \in 1..Len(kept) : h[k] = i
  BY <1>4, Zenon DEF Places
<1>6. menu = IF kept = <<>> THEN Buttons ELSE kept
  BY <1>1, Zenon DEF MenuOf
<1>7. S = IF enabled = <<>> THEN DOMAIN list ELSE on
  <2>1. enabled \in Seq(AllPaths)
    BY DEF TypeOK, Within
  <2>2. \A p : (\E i \in DOMAIN enabled : enabled[i] = p) <=> p \in ToSet(enabled)
    BY Zenon DEF ToSet
  <2> QED BY <2>1, <2>2, Zenon DEF IsEnabled
<1>8. enabled = <<>> => on = {}
  BY DEF ToSet
<1> HIDE DEF S, kept
<1>9. Len(kept) \in Nat /\ DOMAIN kept = 1..Len(kept) /\ (kept = <<>> <=> Len(kept) = 0)
  BY <1>4
<1>10. CASE kept = <<>>
  <2>1. S = {}
    <3>1. \A i \in (1..L) \cap S : FALSE
      BY <1>5, <1>9, <1>10
    <3>2. S \subseteq 1..L
      BY <1>3 DEF S
    <3> QED BY <3>1, <3>2
  <2>2. on = {}
    BY <1>7, <1>8, <2>1
  <2>3. menu = Buttons /\ DOMAIN menu = 1..L /\ Len(menu) = L
    BY <1>2, <1>6, <1>10
  <2>4. \A k \in 1..L : menu[k].at = k /\ menu[k].shows = list[k]
    BY <1>2, <2>3
  <2> HIDE DEF L, on
  <2>5. {menu[k].at : k \in DOMAIN menu} = DOMAIN list
    BY <1>3, <2>3, <2>4
  <2>6. \A k \in DOMAIN menu : PathBehind(menu[k]) = menu[k].shows
    BY <1>3, <2>3, <2>4 DEF PathBehind
  <2>7. \A k \in 2..Len(menu) : menu[k - 1].at < menu[k].at
    BY <1>3, <2>3, <2>4
  <2> QED BY <2>2, <2>5, <2>6, <2>7 DEF on
<1>11. CASE kept # <<>>
  <2>1. menu = kept /\ DOMAIN menu = 1..Len(kept) /\ Len(menu) = Len(kept)
    BY <1>6, <1>9, <1>11
  <2>2. \A k \in 1..Len(kept) : h[k] \in 1..L /\ h[k] \in S
    BY <1>5
  <2>3. \A k \in 1..Len(kept) : menu[k].at = h[k] /\ menu[k].shows = list[h[k]]
    <3> TAKE k \in 1..Len(kept)
    <3>1. menu[k] = Buttons[h[k]]
      BY <1>5, <2>1, Zenon
    <3>2. menu[k] = [shows |-> list[h[k]], at |-> h[k]]
      BY <1>2, <2>2, <3>1, Zenon
    <3> QED BY <3>2
  <2>4. S # {} /\ S = IF on = {} THEN DOMAIN list ELSE on
    <3>1. 1 \in 1..Len(kept)
      BY <1>9, <1>11
    <3>2. S # {}
      BY <2>2, <3>1
    <3> HIDE DEF on
    <3> QED BY <1>7, <1>8, <3>2
  <2>5. S \subseteq 1..L
    BY <1>3 DEF S
  <2> HIDE DEF L, on
  <2>6. {menu[k].at : k \in DOMAIN menu} = S
    <3>1. \A k \in DOMAIN menu : menu[k].at \in S
      BY <2>1, <2>2, <2>3
    <3>2. \A i \in S : \E k \in DOMAIN menu : menu[k].at = i
      BY <1>5, <2>1, <2>3, <2>5
    <3> QED BY <3>1, <3>2
  <2>7. \A k \in DOMAIN menu : PathBehind(menu[k]) = menu[k].shows
    BY <1>3, <2>1, <2>2, <2>3 DEF PathBehind
  <2>8. \A k \in 2..Len(menu) : menu[k - 1].at < menu[k].at
    <3> TAKE k \in 2..Len(menu)
    <3>1. k \in 1..Len(kept) /\ k - 1 \in 1..Len(kept) /\ k \in 2..Len(kept)
      BY <1>9, <2>1
    <3> QED BY <1>5, <2>3, <3>1
  <2> QED BY <2>4, <2>6, <2>7, <2>8 DEF on
<1> QED BY <1>10, <1>11

\* Once the answers are dealt with, the menu shows the enabled views, in
\* order, and every button loads the view it names.
THEOREM MenuIsTrue == Spec => []MenuTrue
<1>1. Init => MenuInv
  BY DEF Init, MenuInv
<1>2. TypeOK /\ MenuInv /\ [Next]_vars => MenuInv'
  BY MenuStep
<1>3. TypeOK /\ MenuInv => MenuTrue
  BY MenuSays
<1> QED BY <1>1, <1>2, <1>3, TypeCorrect, PTL DEF Spec

\* A new list is that of a dashboard.
LEMMA DistinctStep ==
  ASSUME DistinctPaths, ListDistinct, [Next]_vars
  PROVE  ListDistinct'
<1>1. CASE \E d \in Dashboards : WsList(d)
  BY <1>1, Zenon DEF WsList, DistinctPaths, ListDistinct
<1>2. CASE UNCHANGED list
  BY <1>2 DEF ListDistinct
<1>3. CASE Websocket
  BY <1>1, <1>2, <1>3 DEF Websocket, WsPostViews, WsClear, WsExtract, WsPostEntities,
     WsDone, WsState, WsLink, wsVars
<1>4. CASE HandleEvent
  BY <1>2, <1>4 DEF HandleEvent, HandleConnected, HandleDisconnected, HandleViews,
     HandleEntities, HandleState, wsVars
<1>5. CASE Tap
  BY <1>2, <1>5 DEF Tap, MenuSelect, MenuRefresh, SettingsRefresh, SettingsToggle,
     StatusViews, StatusBack, ShowSetup, ShowStatus, BackToMenu, Swipe, ClosePopup,
     OpenPopup, wsVars
<1>6. CASE UNCHANGED vars
  BY <1>2, <1>6 DEF vars, wsVars
<1> QED BY <1>3, <1>4, <1>5, <1>6 DEF Next

\* The boxes that are drawn show the selection.
LEMMA DrawnBoxes ==
  ASSUME TypeOK
  PROVE  /\ Len(BoxesOf) = Len(list)
         /\ \A k \in DOMAIN BoxesOf :
              /\ BoxesOf[k].at = k
              /\ BoxesOf[k].shows = list[k]
              /\ enabled # <<>> => (BoxesOf[k].on <=> list[k] \in ToSet(enabled))
<1>1. /\ BoxesOf \in Seq(Box) /\ Len(BoxesOf) = Len(list)
      /\ \A i \in 1..Len(list) :
           BoxesOf[i] = [shows |-> list[i], at |-> i, on |-> IsEnabled(list[i])]
  BY BoxesType DEF Within
<1>2. DOMAIN BoxesOf = 1..Len(list)
  BY <1>1
<1>3. \A p : enabled # <<>> => (IsEnabled(p) <=> p \in ToSet(enabled))
  BY Zenon DEF IsEnabled, ToSet
<1>4. ASSUME NEW k \in DOMAIN BoxesOf
      PROVE  BoxesOf[k].at = k /\ BoxesOf[k].shows = list[k] /\ BoxesOf[k].on = IsEnabled(list[k])
  <2>1. BoxesOf[k] = [shows |-> list[k], at |-> k, on |-> IsEnabled(list[k])]
    BY <1>1, <1>2
  <2> QED BY <2>1
<1> QED BY <1>1, <1>3, <1>4, Zenon

\* The change of a box writes the selection anew; the boxes still show it.
LEMMA ToggleKeeps ==
  ASSUME TypeOK, ListDistinct, BoxInv, NEW i \in DOMAIN boxes, SettingsToggle(i)
  PROVE  BoxInv'
<1> SUFFICES ASSUME ListKnown', screen' = "settings", boxes' # <<>>
             PROVE  /\ Len(boxes') = Len(list')
                    /\ \A k \in DOMAIN boxes' :
                         /\ boxes'[k].at = k
                         /\ boxes'[k].shows = list'[k]
                         /\ enabled' # <<>> =>
                              (boxes'[k].on <=> list'[k] \in ToSet(enabled'))
  BY Zenon DEF BoxInv
<1> DEFINE S == {k \in DOMAIN boxes : boxes'[k].on}
           on == Kept(boxes', S)
           L == Len(list)
<1>1. /\ boxes \in Seq(Box) /\ list \in Seq(AllPaths) /\ L \in Nat /\ DOMAIN list = 1..L
  BY DEF TypeOK, Within
<1>2. /\ boxes' = [boxes EXCEPT ![i].on = ~boxes[i].on] /\ screen = "settings"
      /\ enabled' = [k \in DOMAIN on |-> PathBehind(on[k])]
      /\ UNCHANGED <<list, wsPc, queue>>
  BY DEF SettingsToggle, wsVars
<1>3. ListKnown /\ boxes # <<>>
  <2>1. ListKnown
    BY <1>2 DEF ListKnown, NoneOf
  <2> QED BY <2>1
<1>4. /\ Len(boxes) = L /\ DOMAIN boxes = 1..L
      /\ \A k \in DOMAIN boxes : boxes[k].at = k /\ boxes[k].shows = list[k]
  <2>1. Len(boxes) = L /\ \A k \in DOMAIN boxes : boxes[k].at = k /\ boxes[k].shows = list[k]
    BY <1>2, <1>3 DEF BoxInv
  <2> QED BY <1>1, <2>1
<1>5. boxes' \in Seq(Box) /\ DOMAIN boxes' = 1..L /\ Len(boxes') = L
  <2>1. boxes[i] \in Box
    BY <1>1
  <2>2. [boxes[i] EXCEPT !.on = ~boxes[i].on] \in Box
    BY <2>1 DEF Box
  <2>3. boxes' = [boxes EXCEPT ![i] = [boxes[i] EXCEPT !.on = ~boxes[i].on]]
    BY <1>2, Zenon
  <2> QED BY <1>1, <1>4, <2>2, <2>3
<1>6. \A k \in 1..L : boxes'[k].at = k /\ boxes'[k].shows = list[k]
  <2> TAKE k \in 1..L
  <2>1. boxes[k] \in Box /\ boxes[k].at = k /\ boxes[k].shows = list[k]
    BY <1>1, <1>4
  <2>2. CASE k = i
    <3>1. boxes'[k] = [boxes[k] EXCEPT !.on = ~boxes[k].on]
      BY <1>1, <1>2, <2>2, Zenon
    <3> QED BY <2>1, <3>1 DEF Box
  <2>3. CASE k # i
    <3>1. boxes'[k] = boxes[k]
      BY <1>1, <1>2, <1>4, <2>3, Zenon
    <3> QED BY <2>1, <3>1
  <2> QED BY <2>2, <2>3
<1>7. on \in Seq(Box) /\ Places(on, boxes', S, L)
  <2> HIDE DEF S
  <2> QED BY <1>5, KeptPlaces
<1>8. PICK h \in [1..Len(on) -> (1..L) \cap S] :
        /\ \A k \in 1..Len(on) : on[k] = boxes'[h[k]]
        /\ \A n \in (1..L) \cap S : \E k \in 1..Len(on) : h[k] = n
  BY <1>7, Zenon DEF Places
<1> HIDE DEF on
<1>9. DOMAIN on = 1..Len(on) /\ DOMAIN enabled' = 1..Len(on)
  BY <1>2, <1>7
<1>10. \A k \in 1..Len(on) : h[k] \in 1..L /\ h[k] \in S /\ enabled'[k] = list[h[k]]
  <2> TAKE k \in 1..Len(on)
  <2>1. h[k] \in 1..L /\ h[k] \in S /\ on[k] = boxes'[h[k]]
    BY <1>8
  <2>2. PathBehind(on[k]) = list[h[k]]
    BY <1>1, <1>6, <2>1 DEF PathBehind
  <2> QED BY <1>2, <1>9, <2>1, <2>2
<1>11. \A k \in 1..L : boxes'[k].on <=> list[k] \in ToSet(enabled')
  <2> TAKE k \in 1..L
  <2>1. ASSUME boxes'[k].on PROVE list[k] \in ToSet(enabled')
    <3>1. k \in (1..L) \cap S
      BY <1>4, <2>1
    <3>2. PICK m \in 1..Len(on) : h[m] = k
      BY <1>8, <3>1
    <3>3. enabled'[m] = list[k] /\ m \in DOMAIN enabled'
      BY <1>9, <1>10, <3>2
    <3> QED BY <3>3, Zenon DEF ToSet
  <2>2. ASSUME list[k] \in ToSet(enabled') PROVE boxes'[k].on
    <3>1. PICK m \in DOMAIN enabled' : enabled'[m] = list[k]
      BY <2>2, Zenon DEF ToSet
    <3>2. list[h[m]] = list[k] /\ h[m] \in 1..L /\ h[m] \in S
      BY <1>9, <1>10, <3>1
    <3>3. h[m] = k
      BY <1>1, <3>2, Zenon DEF ListDistinct
    <3> QED BY <3>2, <3>3
  <2> QED BY <2>1, <2>2
<1> HIDE DEF S
<1>12. list' = list /\ Len(boxes') = Len(list)
  BY <1>2, <1>5
<1> QED BY <1>5, <1>6, <1>11, <1>12

\* The boxes are drawn from the list, and only change with the selection.
LEMMA BoxStep ==
  ASSUME TypeOK, ListDistinct, BoxInv, [Next]_vars
  PROVE  BoxInv'
<1>1. ASSUME UNCHANGED <<list, enabled>>, boxes' = BoxesOf PROVE BoxInv'
  <2>1. list' = list /\ enabled' = enabled
    BY <1>1
  <2> QED BY <1>1, <2>1, DrawnBoxes DEF BoxInv
<1>2. CASE HandleViews
  BY <1>1, <1>2 DEF HandleViews, wsVars
<1>3. CASE ListKept
  <2>1. UNCHANGED <<list, enabled>> /\ (ListKnown' => ListKnown)
    BY <1>3 DEF ListKept
  <2>2. CASE UNCHANGED boxes /\ (screen' = "settings" => screen = "settings")
    BY <2>1, <2>2 DEF BoxInv
  <2>3. CASE boxes' = <<>>
    BY <2>3 DEF BoxInv
  <2> QED BY <1>1, <1>3, <2>1, <2>2, <2>3 DEF ListKept, BoxesKept
<1>4. CASE ~ListKnown'
  BY <1>4 DEF BoxInv
<1> QED BY <1>2, <1>3, <1>4, ListSteps, ToggleKeeps

\* What BoxInv says of the boxes one by one.
LEMMA BoxesSay ==
  ASSUME TypeOK, BoxInv
  PROVE  BoxesTrue
<1> SUFFICES ASSUME Settled, screen = "settings", NEW k \in DOMAIN boxes
             PROVE  /\ PathBehind(boxes[k]) = boxes[k].shows
                    /\ enabled # <<>> =>
                         (boxes[k].on <=> boxes[k].shows \in ToSet(enabled))
  BY DEF BoxesTrue
<1>1. boxes \in Seq(Box) /\ list \in Seq(AllPaths)
  BY DEF TypeOK, Within
<1>2. ListKnown /\ boxes # <<>>
  BY <1>1 DEF Settled, ListKnown, NoneOf
<1>3. /\ Len(boxes) = Len(list) /\ boxes[k].at = k /\ boxes[k].shows = list[k]
      /\ enabled # <<>> => (boxes[k].on <=> list[k] \in ToSet(enabled))
  BY <1>2 DEF BoxInv
<1>4. k \in DOMAIN list
  BY <1>1, <1>3
<1> QED BY <1>3, <1>4 DEF PathBehind

\* As long as no two views of a dashboard share the path that is kept of
\* them, a checkbox stands for the view it names and shows whether that view
\* is selected. (With one path for two views, unchecking one box leaves the
\* path in the selection for the other.)
THEOREM BoxesAreTrue == ASSUME DistinctPaths PROVE Spec => []BoxesTrue
<1>1. Init => ListDistinct /\ BoxInv
  BY DEF Init, ListDistinct, BoxInv
<1>2. TypeOK /\ (ListDistinct /\ BoxInv) /\ [Next]_vars => (ListDistinct /\ BoxInv)'
  BY DistinctStep, BoxStep
<1>3. TypeOK /\ (ListDistinct /\ BoxInv) => BoxesTrue
  BY BoxesSay
<1> QED BY <1>1, <1>2, <1>3, TypeCorrect, PTL DEF Spec

----------------------------------------------------------------------------
(* The rows                                                                *)

\* Steps that leave the entities and the rows alone.
RowsKept ==
  /\ UNCHANGED <<slots, drawn, rows, screen>>
  /\ RowsKnown' => RowsKnown
  /\ popup' \subseteq popup \cup {[shows |-> rows[i].shows, at |-> rows[i].at] : i \in DOMAIN rows}

\* Every other step draws the rows, or leaves them for another screen.
LEMMA RowSteps ==
  ASSUME TypeOK, [Next]_vars
  PROVE  \/ ~RowsKnown'
         \/ screen' # "entities"
         \/ DrawRows /\ UNCHANGED slots
         \/ HandleState
         \/ RowsKept
<1>1. CASE (\E d \in Dashboards : WsList(d)) \/ WsDone
  BY <1>1, SameNone, Zenon DEF WsList, WsDone, uiSide, rowVars, RowsKnown, RowsKept
<1>2. CASE WsPostViews
  BY <1>2, PostNone DEF WsPostViews, uiSide, rowVars, RowsKnown, RowsKept
<1>3. CASE WsClear \/ WsExtract
  BY <1>3 DEF WsClear, WsExtract, RowsKnown
<1>4. CASE WsPostEntities
  BY <1>4, PostNone DEF WsPostEntities, RowsKnown
<1>5. CASE \E id \in Live, val \in Values : WsState(id, val)
  BY <1>5, PostNone DEF WsState, uiSide, wsVars, rowVars, RowsKnown, RowsKept
<1>6. CASE \E type \in {"CONNECTED", "DISCONNECTED"} : WsLink(type)
  BY <1>6, PostNone DEF WsLink, uiSide, wsVars, rowVars, RowsKnown, RowsKept
<1>7. CASE HandleConnected
  BY <1>7, TookNone DEF HandleConnected, ShowMenu, wsVars, rowVars, RowsKnown, RowsKept
<1>8. CASE HandleDisconnected
  BY <1>8 DEF HandleDisconnected
<1>9. CASE HandleViews
  BY <1>9, TookNone DEF HandleViews, wsVars, rowVars, RowsKnown, RowsKept
<1>10. CASE HandleEntities
  BY <1>10 DEF HandleEntities, wsVars, SetupOpen
<1>11. CASE (\E i \in DOMAIN menu : MenuSelect(i)) \/ MenuRefresh \/ SettingsRefresh
            \/ (\E i \in DOMAIN boxes : SettingsToggle(i))
  BY <1>11 DEF MenuSelect, MenuRefresh, SettingsRefresh, SettingsToggle
<1>12. CASE StatusViews \/ StatusBack \/ ShowSetup \/ ShowStatus \/ BackToMenu
  BY <1>12 DEF StatusViews, StatusBack, ShowSetup, ShowStatus, BackToMenu, ShowMenu, wsVars
<1>13. CASE Swipe \/ ClosePopup \/ (\E i \in DOMAIN rows : OpenPopup(i))
  BY <1>13, SameNone DEF Swipe, ClosePopup, OpenPopup, wsVars, RowsKnown, RowsKept
<1>14. CASE UNCHANGED vars
  BY <1>14, SameNone DEF vars, wsVars, rowVars, RowsKnown, RowsKept
<1> QED BY <1>1, <1>2, <1>3, <1>4, <1>5, <1>6, <1>7, <1>8, <1>9, <1>10, <1>11, <1>12,
        <1>13, <1>14 DEF Next, Websocket, HandleEvent, Tap

LEMMA RowFields ==
  ASSUME NEW i
  PROVE  /\ RowNow(i).shows = slots[i].id /\ RowNow(i).at = i
         /\ RowNow(i).val = slots[i].val /\ RowNow(i).widget = Widget(slots[i].id)
BY DEF RowNow

\* A new state reaches the entity and its row alike.
LEMMA StateKeepsRows ==
  ASSUME TypeOK, RowInv, HandleState
  PROVE  RowInv'
<1> SUFFICES ASSUME RowsKnown', screen' = "entities"
             PROVE  /\ drawn'
                    /\ Len(rows') = Len(slots')
                    /\ \A i \in DOMAIN rows' : rows'[i] = RowNow(i)'
                    /\ \A p \in popup' : p.at \in DOMAIN slots' /\ slots'[p.at].id = p.shows
  BY Zenon DEF RowInv
<1> DEFINE evt == Head(queue)
           hit == IF drawn THEN FindSlot(evt.id) ELSE {}
<1>1. /\ slots' = [k \in DOMAIN slots |->
                     IF k \in hit THEN [slots[k] EXCEPT !.val = evt.val] ELSE slots[k]]
      /\ rows' = [k \in DOMAIN rows |->
                    IF rows[k].at \in hit THEN [rows[k] EXCEPT !.val = evt.val] ELSE rows[k]]
      /\ UNCHANGED <<drawn, popup, screen, wsPc>>
  BY DEF HandleState
<1>2. RowsKnown
  BY <1>1, TookNone DEF HandleState, RowsKnown
<1> HIDE DEF hit, evt
<1>3. /\ drawn /\ Len(rows) = Len(slots)
      /\ \A i \in DOMAIN rows : rows[i] = RowNow(i)
      /\ \A p \in popup : p.at \in DOMAIN slots /\ slots[p.at].id = p.shows
  BY <1>1, <1>2 DEF RowInv
<1>4. slots \in Seq(Entity) /\ rows \in Seq(Row)
  BY DEF TypeOK, Within
<1>5. DOMAIN rows = DOMAIN slots /\ DOMAIN rows' = DOMAIN slots' /\ DOMAIN slots' = DOMAIN slots
      /\ Len(rows') = Len(slots')
  <2>1. DOMAIN slots = 1..Len(slots) /\ DOMAIN rows = 1..Len(rows) /\ Len(rows) \in Nat
    BY <1>4
  <2>2. DOMAIN slots' = 1..Len(rows) /\ DOMAIN rows' = 1..Len(rows)
    BY <1>1, <1>3, <2>1
  <2>3. Len(rows') = Len(rows) /\ Len(slots') = Len(rows)
    BY <1>1, <1>3, <2>1, <2>2
  <2> QED BY <1>3, <2>1, <2>2, <2>3
<1>6. ASSUME NEW i \in DOMAIN slots
      PROVE  slots'[i].id = slots[i].id /\ rows'[i] = RowNow(i)'
  <2>1. slots[i] \in Entity
    BY <1>4
  <2>2. rows[i] = RowNow(i) /\ rows[i].at = i
    BY <1>3, <1>5, RowFields
  <2>3. CASE i \in hit
    <3>1. slots'[i] = [slots[i] EXCEPT !.val = evt.val]
          /\ rows'[i] = [rows[i] EXCEPT !.val = evt.val]
      BY <1>1, <1>5, <2>2, <2>3
    <3>2. slots'[i].id = slots[i].id /\ slots'[i].val = evt.val
      BY <2>1, <3>1 DEF Entity
    <3>3. rows'[i] = [shows |-> slots[i].id, at |-> i, val |-> evt.val,
                      widget |-> Widget(slots[i].id)]
      BY <2>2, <3>1 DEF RowNow
    <3> QED BY <3>2, <3>3 DEF RowNow
  <2>4. CASE i \notin hit
    <3>1. slots'[i] = slots[i] /\ rows'[i] = rows[i]
      BY <1>1, <1>5, <2>2, <2>4
    <3> QED BY <2>2, <3>1 DEF RowNow
  <2> QED BY <2>3, <2>4
<1> QED BY <1>1, <1>3, <1>5, <1>6

\* The rows are drawn from the entities, and follow them from then on.
LEMMA RowStep ==
  ASSUME TypeOK, RowInv, [Next]_vars
  PROVE  RowInv'
<1>1. CASE DrawRows /\ UNCHANGED slots
  <2>1. drawn' = TRUE /\ rows' = RowsOf /\ popup' = {} /\ slots' = slots
    BY <1>1 DEF DrawRows
  <2>2. slots \in Seq(Entity) /\ Len(slots) \in Nat
    BY DEF TypeOK, Within
  <2>3. /\ RowsOf \in Seq({RowNow(i) : i \in 1..Len(slots)})
        /\ Len(RowsOf) = Len(slots)
        /\ \A i \in 1..Len(slots) : RowsOf[i] = RowNow(i)
    BY <2>2, RowsOfIs
  <2>4. DOMAIN RowsOf = 1..Len(slots)
    BY <2>3
  <2>5. \A i : RowNow(i)' = RowNow(i)
    BY <2>1, Zenon DEF RowNow
  <2> QED BY <2>1, <2>3, <2>4, <2>5, Zenon DEF RowInv
<1>2. CASE RowsKept
  <2> SUFFICES ASSUME RowsKnown', screen' = "entities"
               PROVE  /\ drawn'
                      /\ Len(rows') = Len(slots')
                      /\ \A i \in DOMAIN rows' : rows'[i] = RowNow(i)'
                      /\ \A p \in popup' : p.at \in DOMAIN slots' /\ slots'[p.at].id = p.shows
    BY Zenon DEF RowInv
  <2>1. /\ slots' = slots /\ drawn' = drawn /\ rows' = rows /\ screen = "entities" /\ RowsKnown
         /\ popup' \subseteq popup
              \cup {[shows |-> rows[i].shows, at |-> rows[i].at] : i \in DOMAIN rows}
    BY <1>2 DEF RowsKept
  <2>2. /\ drawn /\ Len(rows) = Len(slots)
        /\ \A i \in DOMAIN rows : rows[i] = RowNow(i)
        /\ \A p \in popup : p.at \in DOMAIN slots /\ slots[p.at].id = p.shows
    BY <2>1 DEF RowInv
  <2>3. DOMAIN rows = DOMAIN slots
    BY <2>2 DEF TypeOK, Within
  <2>4. \A i : RowNow(i)' = RowNow(i)
    BY <2>1, Zenon DEF RowNow
  <2>5. ASSUME NEW p \in popup' PROVE p.at \in DOMAIN slots /\ slots[p.at].id = p.shows
    <3>1. CASE p \in popup
      BY <2>2, <3>1
    <3>2. CASE p \notin popup
      <4>1. PICK i \in DOMAIN rows : p = [shows |-> rows[i].shows, at |-> rows[i].at]
        BY <2>1, <3>2
      <4>2. p.shows = slots[i].id /\ p.at = i
        BY <2>2, <4>1, RowFields
      <4> QED BY <2>3, <4>2
    <3> QED BY <3>1, <3>2
  <2> QED BY <2>1, <2>2, <2>4, <2>5
<1>3. CASE ~RowsKnown' \/ screen' # "entities"
  BY <1>3 DEF RowInv
<1> QED BY <1>1, <1>2, <1>3, RowSteps, StateKeepsRows

\* What RowInv says of the rows one by one.
LEMMA RowsSay ==
  ASSUME TypeOK, RowInv
  PROVE  RowsTrue /\ PopupTrue
<1>1. ASSUME Settled PROVE RowsKnown
  BY <1>1 DEF Settled, RowsKnown, NoneOf
<1>2. ASSUME Settled, screen = "entities"
      PROVE  /\ Len(rows) = Len(slots) /\ \A i \in DOMAIN rows : rows[i] = RowNow(i)
             /\ \A p \in popup : p.at \in DOMAIN slots /\ slots[p.at].id = p.shows
  BY <1>1, <1>2 DEF RowInv
<1>3. PopupTrue
  BY <1>2 DEF PopupTrue
<1>4. RowsTrue
  BY <1>2, RowFields DEF RowsTrue
<1> QED BY <1>3, <1>4

LEMMA RowsAlways == Spec => []RowInv
<1>1. Init => RowInv
  BY DEF Init, RowInv
<1>2. TypeOK /\ RowInv /\ [Next]_vars => RowInv'
  BY RowStep
<1> QED BY <1>1, <1>2, TypeCorrect, PTL DEF Spec

\* Once the answers are dealt with, the rows on the screen are the entities
\* of the model, in the order of the pages, with their values and widgets.
THEOREM RowsAreTrue == Spec => []RowsTrue
<1>1. TypeOK /\ RowInv => RowsTrue
  BY RowsSay
<1> QED BY <1>1, TypeCorrect, RowsAlways, PTL

\* The popup that is open is about the entity it was opened on, although it
\* holds a pointer into an array that is filled anew.
THEOREM PopupIsTrue == Spec => []PopupTrue
<1>1. TypeOK /\ RowInv => PopupTrue
  BY RowsSay
<1> QED BY <1>1, TypeCorrect, RowsAlways, PTL

----------------------------------------------------------------------------
(* The view that is loaded                                                 *)

\* No two views of a dashboard go by the same path, made up or not.
DistinctViews == \A d \in Dashboards : \A i, j \in DOMAIN d :
                   PathOf(d, i) = PathOf(d, j) => i = j

\* Only an answer changes the answer and the list, and both at once.
LEMMA AnswerStep ==
  ASSUME AnswerInv, [Next]_vars
  PROVE  AnswerInv'
<1>1. CASE \E d \in Dashboards : WsList(d)
  BY <1>1 DEF WsList, AnswerInv
<1>2. CASE UNCHANGED <<answer, list>> /\ (wsPc' = wsPc \/ wsPc # "idle" \/ wsPc' = "idle")
  <2>1. answer' = answer /\ list' = list
    BY <1>2
  <2> QED BY <1>2, <2>1 DEF AnswerInv
<1>3. CASE Websocket
  BY <1>1, <1>2, <1>3 DEF Websocket, WsPostViews, WsClear, WsExtract, WsPostEntities,
     WsDone, WsState, WsLink, wsVars
<1>4. CASE HandleEvent
  BY <1>2, <1>4 DEF HandleEvent, HandleConnected, HandleDisconnected, HandleViews,
     HandleEntities, HandleState, wsVars
<1>5. CASE Tap
  BY <1>2, <1>5 DEF Tap, MenuSelect, MenuRefresh, SettingsRefresh, SettingsToggle,
     StatusViews, StatusBack, ShowSetup, ShowStatus, BackToMenu, Swipe, ClosePopup,
     OpenPopup, wsVars
<1>6. CASE UNCHANGED vars
  BY <1>2, <1>6 DEF vars, wsVars
<1> QED BY <1>3, <1>4, <1>5, <1>6 DEF Next

\* A path of the menu that was not cut finds the view it is the path of.
LEMMA FindsListed ==
  ASSUME DistinctViews, NEW d \in Dashboards, NEW j \in DOMAIN ListOf(d),
         d[j].path \in {None, ListOf(d)[j]}
  PROVE  j \in DOMAIN d /\ FindView(d, ListOf(d)[j]) = j /\ j # 0
<1> DEFINE p == ListOf(d)[j]
<1>1. j \in DOMAIN d /\ j \in Nat /\ j # 0 /\ p = Stored(PathOf(d, j))
  BY ListType, AnswerSeq DEF Answer
<1>2. Synth(j - 1) # None /\ Stored(Synth(j - 1)) = Synth(j - 1)
  BY DEF Synth, None, Stored
<1>3. p = PathOf(d, j) /\ p # None
  <2>1. CASE d[j].path = None
    BY <1>1, <1>2, <2>1 DEF PathOf
  <2>2. CASE d[j].path # None
    BY <2>2 DEF PathOf
  <2> QED BY <2>1, <2>2
<1> HIDE DEF p
<1>4. \A i \in DOMAIN d : p \in {None, PathOf(d, i)} => i = j
  BY <1>1, <1>3 DEF DistinctViews
<1>5. FindView(d, p) = j
  <2>1. d \in Answer
    BY DEF Answer
  <2> QED BY <1>1, <1>3, <1>4, <2>1, FindViewFacts
<1> QED BY <1>1, <1>5 DEF p

\* What Extract makes of a view.
LEMMA ExtractSays ==
  ASSUME NEW d \in Dashboards, NEW j \in DOMAIN d,
         \A id \in ToSet(ViewIds(d[j])) : Fits(id)
  PROVE  LET all   == ViewIds(d[j])
             first == FirstPlaces(all)
         IN  /\ Len(Extract(d[j])) = Cut(Cardinality(first), MaxEntities)
             /\ \A i \in first :
                  LET k == Cardinality({f \in first : f <= i})
                  IN  k <= MaxEntities => Extract(d[j])[k].id = all[i]
<1> DEFINE all == ViewIds(d[j])
           e   == Extract(d[j])
           ids == Collected(all)
           N   == Len(all)
           first == FirstPlaces(all)
<1>1. /\ e \in Seq(Entity) /\ Len(e) = Len(ids)
      /\ \A k \in DOMAIN ids : e[k].id = ids[k]
      /\ CollectedInv(ids, all, N)
      /\ all \in Seq(ToSet(all))
  BY ExtractFacts
<1> HIDE DEF all, e, ids
<1>2. /\ N \in Nat /\ N \in 0..N /\ DOMAIN all = 1..N /\ MaxEntities \in Nat
      /\ first \subseteq 1..N
  BY <1>1, MaxEntitiesType DEF FirstPlaces
<1>3. /\ ids \in Seq(ToSet(all)) /\ Len(ids) = Cut(Count(all, N), MaxEntities)
      /\ \A i \in FirstUpTo(all, N) :
           Count(all, i) <= MaxEntities => ids[Count(all, i)] = all[i]
  BY <1>1 DEF CollectedInv
<1>4. FirstUpTo(all, N) = first
  BY <1>2 DEF FirstUpTo
<1>5. Count(all, N) = Cardinality(first)
  BY <1>4, Zenon DEF Count
<1>6. ASSUME NEW i \in first, Count(all, i) <= MaxEntities
      PROVE  e[Count(all, i)].id = all[i]
  <2>1. i \in 0..N
    BY <1>2
  <2>2. Count(all, i) \in Nat /\ Count(all, i) > 0
    BY <1>1, <2>1, CountFacts
  <2>3. Count(all, N) \in Nat /\ Count(all, i) <= Count(all, N)
    BY <1>1, <1>2, <2>1, CountFacts
  <2>4. Count(all, i) \in DOMAIN ids
    BY <1>2, <1>3, <1>6, <2>2, <2>3 DEF Cut
  <2> QED BY <1>1, <1>3, <1>4, <1>6, <2>4
<1>7. \A i \in first : Count(all, i) = Cardinality({f \in first : f <= i})
  BY Zenon DEF Count, FirstUpTo
<1>8. Len(e) = Cut(Cardinality(first), MaxEntities)
  BY <1>1, <1>3, <1>5
<1> HIDE DEF first
<1>9. \A i \in first :
        LET k == Cardinality({f \in first : f <= i})
        IN  k <= MaxEntities => e[k].id = all[i]
  BY <1>6, <1>7
<1> QED BY <1>8, <1>9 DEF all, e, first

Loads ==
  \A j \in DOMAIN list :
    /\ pending.path = list[j] /\ answer[j].path \in {None, list[j]}
    /\ \A id \in ToSet(ViewIds(answer[j])) : Fits(id)
    =>
      LET all   == ViewIds(answer[j])
          first == FirstPlaces(all)
      IN  /\ Len(slots') = Cut(Cardinality(first), MaxEntities)
          /\ \A i \in first :
               LET k == Cardinality({f \in first : f <= i})
               IN  k <= MaxEntities => slots'[k].id = all[i]

\* The entities are those of the answer the list is from.
LEMMA LoadStep ==
  ASSUME DistinctViews, AnswerInv, [Next]_vars, wsPc = "extract", wsPc' = "postEntities"
  PROVE  Loads
<1>1. WsExtract
  <2>1. ~UNCHANGED wsPc
    OBVIOUS
  <2>2. CASE Websocket
    BY <2>1, <2>2 DEF Websocket, WsList, WsPostViews, WsClear, WsPostEntities,
       WsDone, WsState, WsLink, wsVars
  <2>3. ~HandleEvent
    BY <2>1 DEF HandleEvent, HandleConnected, HandleDisconnected, HandleViews,
       HandleEntities, HandleState, wsVars
  <2>4. ~Tap
    BY <2>1 DEF Tap, MenuSelect, MenuRefresh, SettingsRefresh, SettingsToggle,
       StatusViews, StatusBack, ShowSetup, ShowStatus, BackToMenu, Swipe, ClosePopup,
       OpenPopup, wsVars
  <2>5. ~UNCHANGED vars
    BY <2>1 DEF vars, wsVars
  <2> QED BY <2>2, <2>3, <2>4, <2>5 DEF Next
<1>2. answer \in Dashboards /\ list = ListOf(answer)
  BY DEF AnswerInv
<1>3. ASSUME NEW j \in DOMAIN list, pending.path = list[j],
             answer[j].path \in {None, list[j]}
      PROVE  j \in DOMAIN answer /\ slots' = Extract(answer[j])
  <2>1. j \in DOMAIN answer /\ FindView(answer, list[j]) = j /\ j # 0
    BY <1>2, <1>3, FindsListed
  <2>2. slots' = IF FindView(answer, pending.path) = 0 THEN <<>>
                 ELSE Extract(answer[FindView(answer, pending.path)])
    BY <1>1 DEF WsExtract
  <2>3. FindView(answer, pending.path) = j
    BY <1>3, <2>1
  <2> QED BY <2>1, <2>2, <2>3
<1> QED BY <1>2, <1>3, ExtractSays, Zenon DEF Loads

\* As long as the views of a dashboard have different paths, the view loaded
\* under a path of the menu is the view the menu names by it, also where the
\* path is made up, and its entities are all there, once and in order, as far
\* as the array reaches.
THEOREM TheViewIsLoaded == ASSUME DistinctViews PROVE Spec => LoadsTheView
<1>1. Init => AnswerInv
  BY DEF Init, AnswerInv
<1>2. AnswerInv /\ [Next]_vars => AnswerInv'
  BY AnswerStep
<1>3. AnswerInv /\ [Next]_vars =>
        [wsPc = "extract" /\ wsPc' = "postEntities" => Loads]_vars
  BY LoadStep
<1>4. Spec => [][wsPc = "extract" /\ wsPc' = "postEntities" => Loads]_vars
  BY <1>1, <1>2, <1>3, PTL DEF Spec
<1>5. (wsPc = "extract" /\ wsPc' = "postEntities" => Loads) <=>
      (wsPc = "extract" /\ wsPc' = "postEntities" =>
       \A j \in DOMAIN list :
         /\ pending.path = list[j] /\ answer[j].path \in {None, list[j]}
         /\ \A id \in ToSet(ViewIds(answer[j])) : Fits(id)
         =>
           LET all   == ViewIds(answer[j])
               first == FirstPlaces(all)
           IN  /\ Len(slots') = Cut(Cardinality(first), MaxEntities)
               /\ \A i \in first :
                    LET k == Cardinality({f \in first : f <= i})
                    IN  k <= MaxEntities => slots'[k].id = all[i])
  BY Zenon DEF Loads
<1> QED BY <1>4, <1>5, PTL DEF LoadsTheView
====
