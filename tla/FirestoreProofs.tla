--------------------------- MODULE FirestoreProofs ---------------------------
(***************************************************************************)
(* Theorems about Firestore, for any accounts and notes, any length of the *)
(* pipeline and any number of writes, reads, commits and changes of user:  *)
(* the types, the assertions of the online state tracker, what the cache   *)
(* holds, and that no write is lost or overtaken.                          *)
(*                                                                         *)
(* The state falls into parts that most actions leave alone, and each part *)
(* has its own invariant: Types, ReadInv (queries and the watch stream),   *)
(* QueueInv, ResultsInv and OrderInv (the mutation queues, what the write  *)
(* stream has committed of them, and the server's log), CacheInv and       *)
(* SurvivalInv.                                                            *)
(***************************************************************************)
EXTENDS Firestore, TLAPS, WellFoundedInduction, SequenceTheorems

-----------------------------------------------------------------------------
(* Naturals and recursion *)

\* The order of the naturals is well-founded.
LEMMA LeastElement ==
    ASSUME NEW S, S \subseteq Nat, S # {}
    PROVE  \E n \in S : \A m \in S : n <= m
<1> DEFINE R == OpToRel(<, Nat)
<1>1. \A x, y \in Nat : <<x, y>> \in R <=> x < y
  BY DEF OpToRel
<1>2. IsWellFoundedOn(R, Nat)
  BY NatLessThanWellFounded
<1> HIDE DEF R
<1>3. PICK x \in S : \A y \in S : ~(<<y, x>> \in R)
  BY <1>2, WFMin
<1>4. ASSUME NEW m \in S PROVE x <= m
  <2>1. m \in Nat /\ x \in Nat
    OBVIOUS
  <2>2. ~(m < x)
    BY <1>1, <1>3, <2>1, Zenon
  <2> QED  BY <2>1, <2>2
<1> QED  BY <1>4

\* Induction, on a set instead of a predicate.
LEMMA SetInduction ==
    ASSUME NEW S, 0 \in S, \A n \in S : n \in Nat => n + 1 \in S
    PROVE  Nat \subseteq S
<1> SUFFICES ASSUME Nat \ S # {} PROVE FALSE
  OBVIOUS
<1>1. PICK n \in Nat \ S : \A m \in Nat \ S : n <= m
  BY LeastElement
<1>2. n - 1 \in Nat /\ n - 1 \notin Nat \ S
  BY <1>1
<1>3. n - 1 \in S /\ (n - 1) + 1 = n
  BY <1>2
<1>4. n \in S
  BY <1>2, <1>3
<1> QED  BY <1>4

\* f is the recursion over 1..N from base by the step functions g[k].
FoldOf(f, S, N, base, g) ==
    /\ f \in [0..N -> S]
    /\ f[0] = base
    /\ \A k \in 1..N : f[k] = g[k][f[k - 1]]

HasFold(S, N, base, g) == \E f : FoldOf(f, S, N, base, g)

\* There always is one.
LEMMA FoldExists ==
    ASSUME NEW S, NEW N \in Nat, NEW base \in S, NEW g \in [1..N -> [S -> S]]
    PROVE  HasFold(S, N, base, g)
<1> DEFINE UpTo(n, f) == f[0] = base /\ \A k \in 1..n : f[k] = g[k][f[k - 1]]
           D == {n \in Nat : n <= N => \E f \in [0..n -> S] : UpTo(n, f)}
<1>1. 0 \in D
  <2>1. [k \in 0..0 |-> base] \in [0..0 -> S] /\ UpTo(0, [k \in 0..0 |-> base])
    OBVIOUS
  <2> QED  BY <2>1
<1>2. ASSUME NEW n \in D, n \in Nat PROVE n + 1 \in D
  <2> SUFFICES ASSUME n + 1 <= N PROVE \E f \in [0..(n + 1) -> S] : UpTo(n + 1, f)
    BY <1>2
  <2>1. PICK f \in [0..n -> S] : UpTo(n, f)
    BY <1>2
  <2> DEFINE h == [k \in 0..(n + 1) |-> IF k = n + 1 THEN g[n + 1][f[n]] ELSE f[k]]
  <2>2. n + 1 \in 1..N /\ n \in 0..n
    BY <1>2
  <2>3. h \in [0..(n + 1) -> S]
    BY <1>2, <2>2
  <2>4. h[0] = base /\ h[n + 1] = g[n + 1][h[n]]
    BY <1>2, <2>1
  <2>5. ASSUME NEW k \in 1..n PROVE h[k] = g[k][h[k - 1]]
    BY <1>2, <2>1
  <2> HIDE DEF h
  <2>6. \A k \in 1..(n + 1) : h[k] = g[k][h[k - 1]]
    <3>1. (n + 1) - 1 = n
      BY <1>2
    <3>2. \A k \in 1..(n + 1) : k \in 1..n \/ k = n + 1
      BY <1>2
    <3> QED  BY <2>4, <2>5, <3>1, <3>2
  <2>7. UpTo(n + 1, h)
    BY <2>4, <2>6
  <2> QED  BY <2>3, <2>7
<1> HIDE DEF D
<1>3. Nat \subseteq D
  BY <1>1, <1>2, SetInduction
<1>4. \E f \in [0..N -> S] : UpTo(N, f)
  BY <1>3 DEF D
<1> QED  BY <1>4 DEF HasFold, FoldOf

\* Max and Min of a bounded, nonempty set are in it and bound it.
LEMMA MinFacts ==
    ASSUME NEW S, S \subseteq Nat, S # {}
    PROVE  Min(S) \in S /\ \A y \in S : Min(S) <= y
<1>1. \E x \in S : \A y \in S : x <= y
  BY LeastElement
<1> QED  BY <1>1, Zenon DEF Min

LEMMA MaxFacts ==
    ASSUME NEW N \in Nat, NEW S, S \subseteq 0..N, S # {}
    PROVE  Max(S) \in S /\ \A y \in S : Max(S) >= y
<1> DEFINE T == {N - x : x \in S}
<1>1. T \subseteq Nat /\ T # {}
  <2>1. \A x \in S : x \in 0..N
    OBVIOUS
  <2>2. \A x \in S : N - x \in Nat
    BY <2>1
  <2>3. \E x \in S : N - x \in T
    OBVIOUS
  <2> QED  BY <2>2, <2>3, Zenon
<1>2. PICK t \in T : \A s \in T : t <= s
  BY <1>1, LeastElement
<1>3. PICK x \in S : t = N - x
  OBVIOUS
<1>4. ASSUME NEW y \in S PROVE x >= y
  <2>1. N - x <= N - y
    BY <1>2, <1>3
  <2>2. x \in Int /\ y \in Int
    OBVIOUS
  <2> QED  BY <2>1, <2>2
<1> HIDE DEF T
<1>5. \E z \in S : \A y \in S : z >= y
  BY <1>4
<1> QED  BY <1>5, Zenon DEF Max

-----------------------------------------------------------------------------
(* Sequences *)

LEMMA AppendFacts ==
    ASSUME NEW S, NEW q \in Seq(S), NEW e \in S
    PROVE  /\ Append(q, e) \in Seq(S)
           /\ Len(q) \in Nat /\ Len(Append(q, e)) = Len(q) + 1
           /\ \A k \in 1..Len(q) : Append(q, e)[k] = q[k]
           /\ Append(q, e)[Len(q) + 1] = e
    OBVIOUS

\* Whatever is appended.
LEMMA AppendAny ==
    ASSUME NEW S, NEW q \in Seq(S), NEW e
    PROVE  /\ Len(q) \in Nat /\ Len(Append(q, e)) = Len(q) + 1
           /\ \A k \in 1..Len(q) : Append(q, e)[k] = q[k]
           /\ Append(q, e)[Len(q) + 1] = e
<1> DEFINE T == S \cup {e}
<1>1. q \in Seq(T) /\ e \in T
  OBVIOUS
<1> HIDE DEF T
<1> QED  BY <1>1, AppendFacts

LEMMA TailFacts ==
    ASSUME NEW S, NEW q \in Seq(S), q # <<>>
    PROVE  /\ Len(q) \in Nat /\ Len(q) >= 1
           /\ Head(q) \in S /\ Head(q) = q[1]
           /\ Tail(q) \in Seq(S)
           /\ Len(Tail(q)) = Len(q) - 1
           /\ \A k \in 1..(Len(q) - 1) : Tail(q)[k] = q[k + 1]
    OBVIOUS

\* A sequence is empty exactly when its length is 0.
LEMMA EmptyFacts ==
    ASSUME NEW S, NEW q \in Seq(S)
    PROVE  q = <<>> <=> Len(q) = 0
    OBVIOUS

\* The queue without its k-th element.
LEMMA RemoveAtFacts ==
    ASSUME NEW S, NEW q \in Seq(S), NEW k \in 1..Len(q)
    PROVE  /\ RemoveAt(q, k) \in Seq(S)
           /\ Len(RemoveAt(q, k)) = Len(q) - 1
           /\ \A j \in 1..(Len(q) - 1) :
                 RemoveAt(q, k)[j] = IF j < k THEN q[j] ELSE q[j + 1]
<1> DEFINE n == Len(q)
           a == SubSeq(q, 1, k - 1)
           b == SubSeq(q, k + 1, n)
<1>1. n \in Nat /\ k \in Nat /\ k >= 1 /\ k <= n
  OBVIOUS
<1>2. \A j \in 1..n : q[j] \in S
  OBVIOUS
<1>3. a \in Seq(S) /\ Len(a) = k - 1 /\ \A j \in 1..(k - 1) : a[j] = q[j]
  <2>1. \A j \in 1..(k - 1) : q[j] \in S
    BY <1>1, <1>2
  <2> HIDE DEF n
  <2>2. /\ a \in Seq(S)
        /\ Len(a) = IF 1 <= k - 1 THEN (k - 1) - 1 + 1 ELSE 0
        /\ \A j \in 1..((k - 1) - 1 + 1) : a[j] = q[1 + j - 1]
    BY <1>1, <2>1, SubSeqProperties
  <2> QED  BY <1>1, <2>2
<1>4. b \in Seq(S) /\ Len(b) = n - k /\ \A j \in 1..(n - k) : b[j] = q[j + k]
  <2>1. \A j \in (k + 1)..n : q[j] \in S
    BY <1>1, <1>2
  <2> HIDE DEF n
  <2>2. /\ b \in Seq(S)
        /\ Len(b) = IF k + 1 <= n THEN n - (k + 1) + 1 ELSE 0
        /\ \A j \in 1..(n - (k + 1) + 1) : b[j] = q[(k + 1) + j - 1]
    BY <1>1, <2>1, SubSeqProperties
  <2> QED  BY <1>1, <2>2
<1>5. RemoveAt(q, k) = a \o b
  BY DEF RemoveAt
<1> HIDE DEF a, b, n
<1>6. /\ a \o b \in Seq(S) /\ Len(a \o b) = n - 1
      /\ \A j \in 1..(n - 1) : (a \o b)[j] = IF j <= k - 1 THEN a[j] ELSE b[j - (k - 1)]
  <2>1. /\ a \o b \in Seq(S) /\ Len(a \o b) = Len(a) + Len(b)
        /\ \A j \in 1..(Len(a) + Len(b)) :
              (a \o b)[j] = IF j <= Len(a) THEN a[j] ELSE b[j - Len(a)]
    BY <1>3, <1>4, ConcatProperties
  <2>2. Len(a) + Len(b) = n - 1
    BY <1>1, <1>3, <1>4
  <2> QED  BY <1>3, <2>1, <2>2
<1>7. ASSUME NEW j \in 1..(n - 1) PROVE (a \o b)[j] = IF j < k THEN q[j] ELSE q[j + 1]
  <2>1. CASE j < k
    BY <1>1, <1>3, <1>6, <2>1
  <2>2. CASE ~(j < k)
    <3>1. j - (k - 1) \in 1..(n - k) /\ (j - (k - 1)) + k = j + 1 /\ ~(j <= k - 1)
      BY <1>1, <2>2
    <3>2. (a \o b)[j] = b[j - (k - 1)]
      BY <1>6, <3>1
    <3> QED  BY <1>4, <2>2, <3>1, <3>2
  <2> QED  BY <2>1, <2>2
<1> QED  BY <1>5, <1>6, <1>7 DEF n

-----------------------------------------------------------------------------
(* Documents with batches laid over them *)

LEMMA MutatedType ==
    ASSUME NEW text \in Texts, NEW batch \in Batches
    PROVE  mutated(text, batch) \in Texts
<1>1. batch.op \in {"set", "update", "delete"} /\ batch.text \in Texts
  BY DEF Batches
<1> QED  BY <1>1 DEF mutated, Texts

\* The recursion of laidOver has a solution, and its values are texts.
LEMMA LaidOverFacts ==
    ASSUME NEW text \in Texts, NEW u, NEW id, NEW q \in Seq(Batches)
    PROVE  LET after == laidOver(text, u, id, q)
           IN  /\ after \in [0..Len(q) -> Texts]
               /\ after[0] = text
               /\ \A k \in 1..Len(q) :
                     after[k] = IF q[k].u = u /\ q[k].id = id
                                THEN mutated(after[k - 1], q[k]) ELSE after[k - 1]
<1> DEFINE N == Len(q)
           body(f) == [k \in 0..N |->
                          IF k = 0 THEN text
                          ELSE IF q[k].u = u /\ q[k].id = id
                               THEN mutated(f[k - 1], q[k]) ELSE f[k - 1]]
           g == [k \in 1..N |->
                    [t \in Texts |-> IF q[k].u = u /\ q[k].id = id
                                     THEN mutated(t, q[k]) ELSE t]]
           after == laidOver(text, u, id, q)
<1>1. N \in Nat /\ \A k \in 1..N : q[k] \in Batches
  OBVIOUS
<1>2. g \in [1..N -> [Texts -> Texts]]
  BY <1>1, MutatedType
<1> HIDE DEF g
<1>3. PICK h : FoldOf(h, Texts, N, text, g)
  <2>1. HasFold(Texts, N, text, g)
    BY <1>1, <1>2, FoldExists
  <2> QED  BY <2>1 DEF HasFold
<1>4. h = body(h)
  <2>1. \A k \in 1..N : k - 1 \in 0..N
    BY <1>1
  <2>2. \A k \in 1..N : h[k] = IF q[k].u = u /\ q[k].id = id
                               THEN mutated(h[k - 1], q[k]) ELSE h[k - 1]
    BY <1>3, <2>1 DEF FoldOf, g
  <2> HIDE DEF N
  <2>3. \A k \in 0..N : k = 0 \/ k \in 1..N
    BY <1>1
  <2>4. h = [k \in 0..N |-> h[k]]
    BY <1>3 DEF FoldOf
  <2>5. \A k \in 0..N : h[k] = body(h)[k]
    BY <1>3, <2>2, <2>3 DEF FoldOf
  <2> QED  BY <2>4, <2>5
<1>5. after = body(after)
  BY <1>4, Zenon DEF laidOver
<1> HIDE DEF after, N
<1>6. DOMAIN after = 0..N /\ after[0] = text
  BY <1>1, <1>5
<1>7. \A k \in 1..N : after[k] = IF q[k].u = u /\ q[k].id = id
                                 THEN mutated(after[k - 1], q[k]) ELSE after[k - 1]
  <2>1. \A k \in 1..N : k \in 0..N /\ k # 0
    BY <1>1
  <2> QED  BY <1>5, <2>1
<1>8. \A n \in 0..N : after[n] \in Texts
  <2> DEFINE D == {n \in Nat : n <= N => after[n] \in Texts}
  <2>1. 0 \in D
    BY <1>6
  <2>2. ASSUME NEW n \in D, n \in Nat PROVE n + 1 \in D
    <3> SUFFICES ASSUME n + 1 <= N PROVE after[n + 1] \in Texts
      BY <2>2
    <3>1. n + 1 \in 1..N /\ (n + 1) - 1 = n /\ after[n] \in Texts
      BY <1>1, <2>2
    <3> QED  BY <1>1, <1>7, <3>1, MutatedType
  <2> HIDE DEF D
  <2>3. Nat \subseteq D
    BY <2>1, <2>2, SetInduction
  <2> QED  BY <1>1, <2>3 DEF D
<1>9. after \in [0..N -> Texts]
  <2>1. after = [k \in 0..N |-> after[k]]
    BY <1>5
  <2> QED  BY <1>8, <2>1
<1> QED  BY <1>6, <1>7, <1>9 DEF after, N

-----------------------------------------------------------------------------
(* Types *)

Reads     == [n : 1..MaxLoads, user : Users]
Listeners == [n : 1..MaxLoads, raised : BOOLEAN]
Versions  == [u : Users, id : NoteIds, q : Accounts, b : 0..MaxWrites, text : Texts]
Entries   == [ver : Nat, text : Texts, state : States]
Callbacks == [q : Accounts, b : 1..MaxWrites, id : NoteIds]
Closures  == [kind : {"answer"}, ok : BOOLEAN, read : Reads, docs : Docs]
                 \cup [kind : {"written"}, id : NoteIds, b : 1..MaxWrites, ok : BOOLEAN]
                 \cup [kind : {"credential"}, user : Accounts]

Types ==
    /\ user \in Accounts /\ engineUser \in Accounts
    /\ loads \in 0..MaxLoads /\ writes \in 0..MaxWrites /\ changes \in 0..MaxChanges
    /\ owner \in [NoteIds -> Accounts]
    /\ mainQueue \in Seq(Closures)
    /\ queue \in [Accounts -> Seq(Batches)]
    /\ cache \in [Users -> [NoteIds -> Entries]]
    /\ callbacks \subseteq Callbacks
    /\ views \in [Users -> {NoView, "local", "synced", "failed"}]
    /\ listeners \in [Users -> Seq(Listeners)]
    /\ online \in {"Unknown", "Online", "Offline"}
    /\ timer \in BOOLEAN /\ failed \in BOOLEAN /\ writeOpen \in BOOLEAN
    /\ watch \in {"stopped", "starting", "open"}
    /\ inflight \in [u : Accounts, at : Nat]
    /\ results \in Seq(Nat)
    /\ log \in Seq(Versions)
    /\ refused \subseteq 1..MaxWrites

\* The pipeline is the head of the engine's mutation queue.
LEMMA PipelineFacts ==
    ASSUME Types
    PROVE  LET q == queue[engineUser]
           IN  /\ q \in Seq(Batches) /\ Len(q) \in Nat
               /\ Len(Pipeline) \in Nat
               /\ Len(Pipeline) <= Len(q) /\ Len(Pipeline) <= MaxPipeline
               /\ Len(Pipeline) = Len(q) \/ Len(Pipeline) = MaxPipeline
               /\ \A k \in 1..Len(Pipeline) : Pipeline[k] = q[k] /\ Pipeline[k] \in Batches
               /\ Pipeline # <<>> => q # <<>> /\ Head(Pipeline) = Head(q)
<1> DEFINE q == queue[engineUser]
           n == IF Len(q) < MaxPipeline THEN Len(q) ELSE MaxPipeline
<1>1. q \in Seq(Batches)
  BY DEF Types
<1>2. Pipeline = SubSeq(q, 1, n)
  BY DEF Pipeline
<1> HIDE DEF q
<1>3. Len(q) \in Nat /\ MaxPipeline \in Nat /\ \A k \in 1..Len(q) : q[k] \in Batches
  BY <1>1, BoundsAssumption
<1>4. n \in Nat /\ n <= Len(q) /\ n <= MaxPipeline /\ (n = Len(q) \/ n = MaxPipeline)
  BY <1>3
<1> HIDE DEF n
<1>5. /\ Pipeline \in Seq(Batches)
      /\ Len(Pipeline) = IF 1 <= n THEN n - 1 + 1 ELSE 0
      /\ \A k \in 1..(n - 1 + 1) : Pipeline[k] = q[1 + k - 1]
  <2>1. \A k \in 1..n : q[k] \in Batches
    BY <1>3, <1>4
  <2> QED  BY <1>2, <1>4, <2>1, SubSeqProperties
<1>6. Len(Pipeline) = n /\ \A k \in 1..n : Pipeline[k] = q[k]
  BY <1>4, <1>5
<1>7. ASSUME Pipeline # <<>> PROVE q # <<>> /\ Head(Pipeline) = Head(q)
  <2>1. Len(Pipeline) # 0
    BY <1>5, <1>7, EmptyFacts
  <2>2. 1 \in 1..n /\ Len(q) # 0
    BY <1>4, <1>6, <2>1
  <2>3. q # <<>>
    BY <1>1, <2>2, EmptyFacts
  <2>4. Head(Pipeline) = Pipeline[1] /\ Head(q) = q[1]
    BY <1>1, <1>5, <1>7, <2>3, TailFacts
  <2> QED  BY <1>6, <2>2, <2>3, <2>4
<1> QED  BY <1>1, <1>3, <1>4, <1>6, <1>7 DEF q

\* A version is one of the first n commits, or there is none.
LEMMA VersionAtFacts ==
    ASSUME NEW u, NEW id, NEW n \in Nat
    PROVE  /\ VersionAt(u, id, n) \in 0..n
           /\ \/ VersionAt(u, id, n) = 0
              \/ log[VersionAt(u, id, n)].u = u /\ log[VersionAt(u, id, n)].id = id
           /\ \A w \in 1..n : log[w].u = u /\ log[w].id = id => w <= VersionAt(u, id, n)
<1> DEFINE S == {v \in 1..n : log[v].u = u /\ log[v].id = id}
<1>1. {0} \cup S \subseteq 0..n /\ {0} \cup S # {}
  OBVIOUS
<1>2. /\ VersionAt(u, id, n) \in {0} \cup S
      /\ \A y \in {0} \cup S : VersionAt(u, id, n) >= y
  <2>1. VersionAt(u, id, n) = Max({0} \cup S)
    BY DEF VersionAt
  <2> HIDE DEF S
  <2> QED  BY <1>1, <2>1, MaxFacts
<1> HIDE DEF S
<1>3. VersionAt(u, id, n) \in 0..n
  BY <1>1, <1>2
<1>4. VersionAt(u, id, n) = 0 \/ VersionAt(u, id, n) \in S
  BY <1>2
<1>5. \A w \in S : w <= VersionAt(u, id, n)
  <2>1. \A w \in S : w \in 0..n
    BY <1>1
  <2> QED  BY <1>2, <1>3, <2>1
<1>6. \/ VersionAt(u, id, n) = 0
      \/ log[VersionAt(u, id, n)].u = u /\ log[VersionAt(u, id, n)].id = id
  BY <1>4 DEF S
<1>7. \A w \in 1..n : log[w].u = u /\ log[w].id = id => w <= VersionAt(u, id, n)
  BY <1>5 DEF S
<1> QED  BY <1>3, <1>6, <1>7

LEMMA RemoteType ==
    ASSUME Types, NEW u, NEW id, NEW n \in 0..Len(log)
    PROVE  TextOf(n) \in Texts /\ Remote(u, id) \in Texts
<1>1. ASSUME NEW v \in 0..Len(log) PROVE TextOf(v) \in Texts
  <2>1. CASE v = 0
    BY <2>1 DEF TextOf, Texts
  <2>2. CASE v # 0
    <3>1. v \in 1..Len(log) /\ log \in Seq(Versions)
      BY <2>2 DEF Types
    <3>2. log[v] \in Versions
      BY <3>1
    <3> QED  BY <2>2, <3>2 DEF TextOf, Versions
  <2> QED  BY <2>1, <2>2
<1>2. VersionAt(u, id, Len(log)) \in 0..Len(log)
  <2>1. Len(log) \in Nat
    BY DEF Types
  <2> QED  BY <2>1, VersionAtFacts
<1> QED  BY <1>1, <1>2 DEF Remote

\* The local documents.
LEMMA LocalViewType ==
    ASSUME Types, NEW u \in Users
    PROVE  LocalView(u) \in Docs
<1>1. queue[engineUser] \in Seq(Batches)
  BY DEF Types
<1>2. ASSUME NEW id \in NoteIds
      PROVE  laidOver(cache[u][id].text, u, id, queue[engineUser])[Len(queue[engineUser])]
                \in Texts
  <2>1. cache[u][id].text \in Texts
    BY DEF Types, Entries
  <2>2. Len(queue[engineUser]) \in 0..Len(queue[engineUser])
    BY <1>1
  <2> QED  BY <1>1, <2>1, <2>2, LaidOverFacts
<1> QED  BY <1>2 DEF LocalView, Docs

HeldTypes == held \in [Users -> Docs]

\* What a read is answered with.
LEMMA ShownType ==
    ASSUME Types, HeldTypes, NEW u \in Users
    PROVE  Shown(u) \in Docs
<1>1. LocalView(u) \in Docs /\ held[u] \in Docs
  BY LocalViewType DEF HeldTypes
<1> QED  BY <1>1 DEF Shown, Docs

\* The oldest listener that waits.
LEMMA NextListenerFacts ==
    ASSUME NEW u, Waiting(u) # {}
    PROVE  /\ nextListener(u) \in Waiting(u)
           /\ \A k \in Waiting(u) : nextListener(u) <= k
           /\ nextListener(u) \in 1..Len(listeners[u])
           /\ ~listeners[u][nextListener(u)].raised
<1>1. Waiting(u) \subseteq Nat
  BY DEF Waiting
<1>2. nextListener(u) \in Waiting(u) /\ \A k \in Waiting(u) : nextListener(u) <= k
  BY <1>1, MinFacts DEF nextListener
<1> QED  BY <1>2 DEF Waiting

\* A listener that is marked keeps its place.
LEMMA RaisedFacts ==
    ASSUME NEW l \in Seq(Listeners), NEW k \in 1..Len(l)
    PROVE  LET marked == [l EXCEPT ![k].raised = TRUE]
           IN  /\ marked \in Seq(Listeners) /\ Len(marked) = Len(l)
               /\ marked[k].raised /\ marked[k].n = l[k].n
               /\ \A j \in 1..Len(l) : j # k => marked[j] = l[j]
<1> DEFINE e == [l[k] EXCEPT !.raised = TRUE]
<1>1. l[k] \in Listeners
  OBVIOUS
<1>2. e \in Listeners /\ e.n = l[k].n /\ e.raised = TRUE
  BY <1>1 DEF Listeners
<1>3. [l EXCEPT ![k].raised = TRUE] = [l EXCEPT ![k] = e]
  OBVIOUS
<1> HIDE DEF e
<1>4. /\ [l EXCEPT ![k] = e] \in Seq(Listeners)
      /\ Len([l EXCEPT ![k] = e]) = Len(l)
      /\ [l EXCEPT ![k] = e][k] = e
      /\ \A j \in 1..Len(l) : j # k => [l EXCEPT ![k] = e][j] = l[j]
  BY <1>2, ExceptSeq
<1> QED  BY <1>2, <1>3, <1>4

\* Erase takes one listener out, or none.
LEMMA EraseFacts ==
    ASSUME NEW l \in Seq(Listeners), NEW read
    PROVE  \/ /\ Erase(l, read) = l
              /\ \A k \in 1..Len(l) : l[k].n # read.n
           \/ \E k \in 1..Len(l) :
                 /\ l[k].n = read.n
                 /\ Erase(l, read) \in Seq(Listeners)
                 /\ Len(Erase(l, read)) = Len(l) - 1
                 /\ \A j \in 1..(Len(l) - 1) :
                       Erase(l, read)[j] = IF j < k THEN l[j] ELSE l[j + 1]
<1> DEFINE places == {k \in 1..Len(l) : l[k].n = read.n}
<1>1. CASE places = {}
  BY <1>1 DEF Erase
<1>2. CASE places # {}
  <2>1. places \subseteq Nat /\ places \subseteq 1..Len(l)
    OBVIOUS
  <2>2. Erase(l, read) = RemoveAt(l, Min(places))
    BY <1>2 DEF Erase
  <2> HIDE DEF places
  <2>3. Min(places) \in places
    BY <1>2, <2>1, MinFacts
  <2>4. Min(places) \in 1..Len(l)
    BY <2>1, <2>3
  <2>5. l[Min(places)].n = read.n
    BY <2>3 DEF places
  <2>6. /\ Erase(l, read) \in Seq(Listeners)
        /\ Len(Erase(l, read)) = Len(l) - 1
        /\ \A j \in 1..(Len(l) - 1) :
              Erase(l, read)[j] = IF j < Min(places) THEN l[j] ELSE l[j + 1]
    BY <2>2, <2>4, RemoveAtFacts
  <2> QED  BY <2>4, <2>5, <2>6
<1> QED  BY <1>1, <1>2

-----------------------------------------------------------------------------
(* The types are an invariant *)

LEMMA TypesInit == ASSUME Init PROVE Types
<1>1. [i \in NoteIds |-> NoUser] \in [NoteIds -> Accounts]
  BY DEF Accounts
<1>2. NoEntry \in Entries
  BY DEF NoEntry, Entries, Texts, States
<1>3. Nothing \in [u : Accounts, at : Nat]
  BY DEF Nothing, Accounts
<1>4. /\ user \in Accounts /\ engineUser \in Accounts
      /\ loads \in 0..MaxLoads /\ writes \in 0..MaxWrites /\ changes \in 0..MaxChanges
  BY BoundsAssumption DEF Init
<1>5. owner \in [NoteIds -> Accounts] /\ inflight \in [u : Accounts, at : Nat]
  BY <1>1, <1>3 DEF Init
<1>6. queue \in [Accounts -> Seq(Batches)] /\ listeners \in [Users -> Seq(Listeners)]
  BY DEF Init
<1>7. cache \in [Users -> [NoteIds -> Entries]]
  BY <1>2 DEF Init
<1>8. views \in [Users -> {NoView, "local", "synced", "failed"}]
  BY DEF Init
<1>9. mainQueue \in Seq(Closures) /\ results \in Seq(Nat) /\ log \in Seq(Versions)
  BY DEF Init
<1> QED  BY <1>4, <1>5, <1>6, <1>7, <1>8, <1>9 DEF Init, Types

\* The tracker, the streams and what is on them, whichever way an action leaves them.
LEMMA TrackerTypes ==
    ASSUME Types,
           \/ UNCHANGED tracker
           \/ \E state \in {"Unknown", "Online", "Offline"} : UpdateState(state)
           \/ AwaitOnline
           \/ HandleWatchStreamFailure
    PROVE  /\ online' \in {"Unknown", "Online", "Offline"}
           /\ timer' \in BOOLEAN /\ failed' \in BOOLEAN
    BY DEF Types, tracker, UpdateState, AwaitOnline, HandleWatchStreamFailure

LEMMA RestartTypes ==
    ASSUME Types, RestartNetwork
    PROVE  /\ online' \in {"Unknown", "Online", "Offline"}
           /\ timer' \in BOOLEAN /\ failed' \in BOOLEAN
           /\ watch' \in {"stopped", "starting", "open"}
           /\ inflight' \in [u : Accounts, at : Nat]
           /\ writeOpen' \in BOOLEAN /\ results' = <<>>
<1>1. AwaitOnline \/ UpdateState("Unknown")
  BY DEF RestartNetwork
<1>2. Nothing \in [u : Accounts, at : Nat]
  BY DEF Nothing, Accounts
<1> QED  BY <1>1, <1>2, TrackerTypes DEF RestartNetwork

\* The writes.
LEMMA TypesWrite ==
    ASSUME Types, user # NoUser, writes < MaxWrites,
           NEW id \in NoteIds, NEW op \in {"set", "update", "delete"}, NEW text \in Texts
    PROVE  /\ Batch(id, op, text) \in Batches
           /\ WriteMutations(Batch(id, op, text)) =>
                 /\ writes' \in 0..MaxWrites
                 /\ queue' \in [Accounts -> Seq(Batches)]
<1>1. user \in Users /\ writes + 1 \in 1..MaxWrites
  BY BoundsAssumption DEF Types, Accounts
<1>2. Batch(id, op, text) \in Batches
  BY <1>1 DEF Batch, Batches
<1>3. ASSUME WriteMutations(Batch(id, op, text)) PROVE writes' \in 0..MaxWrites
  BY <1>1, <1>3 DEF WriteMutations, Batch
<1>4. ASSUME WriteMutations(Batch(id, op, text))
      PROVE  queue' \in [Accounts -> Seq(Batches)]
  <2>1. queue \in [Accounts -> Seq(Batches)] /\ engineUser \in Accounts
    BY DEF Types
  <2>2. queue' = [queue EXCEPT ![engineUser] = Append(@, Batch(id, op, text))]
    BY <1>4 DEF WriteMutations
  <2> QED  BY <1>2, <2>1, <2>2, AppendFacts
<1> QED  BY <1>2, <1>3, <1>4

\* The oldest batch leaves, its completion goes to the main queue.
LEMMA TypesNotify ==
    ASSUME Types, NEW batch \in Batches, NEW ok \in BOOLEAN, NotifyUser(batch, ok)
    PROVE  callbacks' \subseteq Callbacks /\ mainQueue' \in Seq(Closures)
<1>1. callbacks \subseteq Callbacks /\ mainQueue \in Seq(Closures)
  BY DEF Types
<1>2. [kind |-> "written", id |-> batch.id, b |-> batch.b, ok |-> ok]
         \in [kind : {"written"}, id : NoteIds, b : 1..MaxWrites, ok : BOOLEAN]
  BY DEF Batches
<1>3. [kind |-> "written", id |-> batch.id, b |-> batch.b, ok |-> ok] \in Closures
  BY <1>2 DEF Closures
<1>4. \/ mainQueue' = mainQueue
      \/ mainQueue' = Append(mainQueue, [kind |-> "written", id |-> batch.id,
                                         b |-> batch.b, ok |-> ok])
  BY DEF NotifyUser
<1> QED  BY <1>1, <1>3, <1>4, AppendFacts DEF NotifyUser

LEMMA TypesOldest ==
    ASSUME Types, Pipeline # <<>>
    PROVE  /\ Head(Pipeline) \in Batches
           /\ [queue EXCEPT ![engineUser] = Tail(@)] \in [Accounts -> Seq(Batches)]
<1>1. queue \in [Accounts -> Seq(Batches)] /\ engineUser \in Accounts
  BY DEF Types
<1>2. queue[engineUser] # <<>> /\ Head(Pipeline) = Head(queue[engineUser])
  BY PipelineFacts
<1>3. Head(queue[engineUser]) \in Batches /\ Tail(queue[engineUser]) \in Seq(Batches)
  BY <1>1, <1>2, TailFacts
<1> QED  BY <1>1, <1>2, <1>3

\* What is on the write stream is of the pipeline, and what is on the watch stream
\* of versions there are.
StreamsFit ==
    /\ results # <<>> => writeOpen
    /\ Len(results) <= Len(queue[engineUser]) /\ Len(results) <= MaxPipeline
    /\ inflight.at <= Len(log)

LEMMA PipelineOfResults ==
    ASSUME Types, StreamsFit, results # <<>>
    PROVE  /\ Pipeline # <<>> /\ queue[engineUser] # <<>>
           /\ Head(Pipeline) = queue[engineUser][1]
           /\ Len(results) <= Len(Pipeline)
<1>1. results \in Seq(Nat) /\ queue[engineUser] \in Seq(Batches)
  BY DEF Types
<1>2. Len(results) >= 1 /\ Len(results) \in Nat
  BY <1>1, EmptyFacts
<1>3. Len(results) <= Len(Pipeline) /\ Len(Pipeline) # 0
  BY <1>2, PipelineFacts, BoundsAssumption DEF StreamsFit
<1>4. Pipeline # <<>>
  BY <1>3
<1>5. queue[engineUser] # <<>> /\ Head(Pipeline) = Head(queue[engineUser])
  BY <1>4, PipelineFacts
<1> QED  BY <1>1, <1>3, <1>4, <1>5, TailFacts

LEMMA TypesStep ==
    ASSUME Types, HeldTypes, StreamsFit, [Next]_vars
    PROVE  Types'
<1> USE DEF calls, localData, reading, tracker, writing, server
<1>1. ASSUME NEW id \in NoteIds, NEW text \in Details, SetData(id, text)
      PROVE  Types'
  <2>1. text \in Texts /\ writes + 1 \in 1..MaxWrites /\ user \in Accounts
    BY <1>1, BoundsAssumption DEF SetData, Texts, Types
  <2>2. writes' \in 0..MaxWrites /\ queue' \in [Accounts -> Seq(Batches)]
    BY <1>1, <2>1, TypesWrite DEF SetData
  <2>3. owner' \in [NoteIds -> Accounts]
    BY <1>1, <2>1 DEF SetData, Types
  <2>4. callbacks' \subseteq Callbacks
    BY <1>1, <2>1 DEF SetData, Types, Callbacks
  <2> QED  BY <1>1, <2>2, <2>3, <2>4 DEF SetData, WriteMutations, Types
<1>2. ASSUME NEW id \in NoteIds, NEW text \in Details, UpdateData(id, text)
      PROVE  Types'
  <2>1. text \in Texts
    BY DEF Texts
  <2>2. writes' \in 0..MaxWrites /\ queue' \in [Accounts -> Seq(Batches)]
    BY <1>2, <2>1, TypesWrite DEF UpdateData
  <2> QED  BY <1>2, <2>2 DEF UpdateData, WriteMutations, Types
<1>3. ASSUME NEW id \in NoteIds, DeleteDocument(id) PROVE Types'
  <2>1. Absent \in Texts
    BY DEF Texts
  <2>2. writes' \in 0..MaxWrites /\ queue' \in [Accounts -> Seq(Batches)]
    BY <1>3, <2>1, TypesWrite DEF DeleteDocument
  <2> QED  BY <1>3, <2>2 DEF DeleteDocument, WriteMutations, Types
<1>4. CASE WriteStreamOpens
  BY <1>4 DEF WriteStreamOpens, Types
<1>5. CASE ServerCommits
  <2> DEFINE k == Len(results) + 1
             batch == Pipeline[k]
             e == [u |-> batch.u, id |-> batch.id, q |-> engineUser, b |-> batch.b,
                   text |-> mutated(Remote(batch.u, batch.id), batch)]
  <2>1. results \in Seq(Nat) /\ log \in Seq(Versions) /\ engineUser \in Accounts
    BY DEF Types
  <2>2. k \in 1..Len(Pipeline)
    BY <1>5, <2>1, PipelineFacts DEF ServerCommits
  <2>3. batch \in Batches
    BY <2>2, PipelineFacts
  <2>4. log' = Append(log, e) /\ results' = Append(results, Len(log'))
    BY <1>5 DEF ServerCommits
  <2>5. Remote(batch.u, batch.id) \in Texts
    <3>1. 0 \in 0..Len(log)
      BY <2>1
    <3> QED  BY <3>1, RemoteType
  <2>6. mutated(Remote(batch.u, batch.id), batch) \in Texts
    BY <2>3, <2>5, MutatedType
  <2> HIDE DEF k, batch
  <2>7. batch.u \in Users /\ batch.id \in NoteIds /\ batch.b \in 0..MaxWrites
    BY <2>3 DEF Batches
  <2>8. e \in Versions
    BY <2>1, <2>6, <2>7 DEF Versions
  <2> HIDE DEF e
  <2>9. log' \in Seq(Versions) /\ Len(log') \in Nat
    BY <2>1, <2>4, <2>8, AppendFacts
  <2>10. results' \in Seq(Nat)
    BY <2>1, <2>4, <2>9, AppendFacts
  <2> QED  BY <1>5, <2>9, <2>10 DEF ServerCommits, Types
<1>6. CASE MutationResult
  <2> DEFINE batch == Head(Pipeline)
             v == Head(results)
  <2>1. results # <<>> /\ Pipeline # <<>>
    BY <1>6, PipelineOfResults DEF MutationResult
  <2>2. batch \in Batches /\ queue' \in [Accounts -> Seq(Batches)]
    BY <1>6, <2>1, TypesOldest DEF MutationResult
  <2>3. callbacks' \subseteq Callbacks /\ mainQueue' \in Seq(Closures)
    BY <1>6, <2>2, TypesNotify DEF MutationResult
  <2>4. v \in Nat /\ results' \in Seq(Nat)
    BY <1>6, <2>1, TailFacts DEF MutationResult, Types
  <2>5. cache' = [cache EXCEPT ![batch.u][batch.id] = acknowledged(@, batch, v)]
    BY <1>6 DEF MutationResult
  <2> HIDE DEF batch, v
  <2>6. batch.u \in Users /\ batch.id \in NoteIds
    BY <2>2 DEF Batches
  <2>7. ASSUME NEW entry \in Entries PROVE acknowledged(entry, batch, v) \in Entries
    <3>1. entry.text \in Texts
      BY DEF Entries
    <3>2. mutated(entry.text, batch) \in Texts
      BY <2>2, <3>1, MutatedType
    <3>3. [ver |-> v, text |-> mutated(entry.text, batch),
           state |-> IF batch.op = "update" /\ entry.text = Absent
                     THEN "unknown" ELSE "committed"] \in Entries
      BY <2>4, <3>2 DEF Entries, States
    <3> QED  BY <3>3 DEF acknowledged, committed
  <2>8. cache' \in [Users -> [NoteIds -> Entries]]
    BY <2>5, <2>6, <2>7 DEF Types
  <2> QED  BY <1>6, <2>2, <2>3, <2>4, <2>8 DEF MutationResult, Types
<1>7. CASE WriteRefused
  <2>1. Head(Pipeline) \in Batches /\ queue' \in [Accounts -> Seq(Batches)]
    BY <1>7, TypesOldest DEF WriteRefused
  <2>2. callbacks' \subseteq Callbacks /\ mainQueue' \in Seq(Closures)
    BY <1>7, <2>1, TypesNotify DEF WriteRefused
  <2>3. refused' \subseteq 1..MaxWrites
    BY <1>7, <2>1 DEF WriteRefused, Types, Batches
  <2> QED  BY <1>7, <2>1, <2>2, <2>3 DEF WriteRefused, Types
<1>8. CASE WriteStreamCloses
  <2>1. queue' = queue
    BY <1>8 DEF WriteStreamCloses, retried, Types
  <2>2. results' = <<>> /\ <<>> \in Seq(Nat)
    BY <1>8 DEF WriteStreamCloses
  <2> QED  BY <1>8, <2>1, <2>2 DEF WriteStreamCloses, Types
<1>9. CASE GetDocuments
  <2>1. user \in Users /\ loads + 1 \in 1..MaxLoads
    BY <1>9, BoundsAssumption DEF GetDocuments, Types, Accounts
  <2>2. [n |-> loads + 1, raised |-> FALSE] \in Listeners
    BY <2>1 DEF Listeners
  <2>3. listeners' \in [Users -> Seq(Listeners)]
    BY <1>9, <2>1, <2>2, AppendFacts DEF GetDocuments, Types
  <2>4. views' \in [Users -> {NoView, "local", "synced", "failed"}]
    BY <1>9, <2>1 DEF GetDocuments, Types
  <2>5. /\ online' \in {"Unknown", "Online", "Offline"}
        /\ timer' \in BOOLEAN /\ failed' \in BOOLEAN
    BY <1>9, TrackerTypes DEF GetDocuments
  <2>6. watch' \in {"stopped", "starting", "open"} /\ loads' \in 0..MaxLoads
    BY <1>9, <2>1 DEF GetDocuments, Types
  <2> QED  BY <1>9, <2>3, <2>4, <2>5, <2>6 DEF GetDocuments, Types
<1>10. CASE WatchStreamOpens
  BY <1>10 DEF WatchStreamOpens, Types
<1>11. CASE WatchStreamCloses
  <2>1. /\ online' \in {"Unknown", "Online", "Offline"}
        /\ timer' \in BOOLEAN /\ failed' \in BOOLEAN
    BY <1>11, TrackerTypes DEF WatchStreamCloses
  <2>2. inflight' \in [u : Accounts, at : Nat]
    BY <1>11 DEF WatchStreamCloses, Nothing, Accounts
  <2>3. views' \in [Users -> {NoView, "local", "synced", "failed"}]
    BY <1>11 DEF WatchStreamCloses, ViewsWhen, Types
  <2>4. watch' \in {"stopped", "starting", "open"}
    BY <1>11 DEF WatchStreamCloses
  <2> QED  BY <1>11, <2>1, <2>2, <2>3, <2>4 DEF WatchStreamCloses, Types
<1>12. CASE OnlineStateTimeout
  <2>1. views' \in [Users -> {NoView, "local", "synced", "failed"}]
    BY <1>12 DEF OnlineStateTimeout, ViewsWhen, Types
  <2> QED  BY <1>12, <2>1 DEF OnlineStateTimeout, Types
<1>13. CASE WatchMessage
  BY <1>13 DEF WatchMessage, UpdateState, Types
<1>14. ASSUME NEW u \in Users, ServerSendsSnapshot(u) PROVE Types'
  <2>1. inflight' \in [u : Accounts, at : Nat]
    BY <1>14 DEF ServerSendsSnapshot, Types, Accounts
  <2> QED  BY <1>14, <2>1 DEF ServerSendsSnapshot, Types
<1>15. ASSUME NEW u \in Users, TargetError(u) PROVE Types'
  <2>1. inflight' \in [u : Accounts, at : Nat]
    BY <1>15 DEF TargetError, inflightWithout, Nothing, Accounts, Types
  <2>2. views' \in [Users -> {NoView, "local", "synced", "failed"}]
    BY <1>15 DEF TargetError, Types
  <2>3. listeners' \in [Users -> Seq(Listeners)]
    <3>1. <<>> \in Seq(Listeners)
      OBVIOUS
    <3> QED  BY <1>15, <3>1 DEF TargetError, Types
  <2> QED  BY <1>15, <2>1, <2>2, <2>3 DEF TargetError, UpdateState, Types
<1>16. CASE WatchSnapshot
  <2>1. inflight' \in [u : Accounts, at : Nat]
    BY <1>16 DEF WatchSnapshot, Nothing, Accounts
  <2>2. views' \in [Users -> {NoView, "local", "synced", "failed"}]
    BY <1>16 DEF WatchSnapshot, Types
  <2>3. ASSUME NEW id \in NoteIds, NEW entry \in Entries
        PROVE  populated(entry, VersionAt(inflight.u, id, inflight.at)) \in Entries
    <3>1. inflight.at \in Nat /\ Len(log) \in Nat
      BY DEF Types
    <3>2. VersionAt(inflight.u, id, inflight.at) \in 0..inflight.at
      BY <3>1, VersionAtFacts
    <3>3. VersionAt(inflight.u, id, inflight.at) \in 0..Len(log)
      BY <3>1, <3>2 DEF StreamsFit
    <3>4. TextOf(VersionAt(inflight.u, id, inflight.at)) \in Texts
      BY <3>3, RemoteType
    <3> QED  BY <3>3, <3>4 DEF populated, Entries, States
  <2>4. cache' \in [Users -> [NoteIds -> Entries]]
    <3> DEFINE fresh == [id \in NoteIds |->
                           populated(cache[inflight.u][id],
                                     VersionAt(inflight.u, id, inflight.at))]
    <3>1. cache' = [cache EXCEPT ![inflight.u] = fresh]
      BY <1>16 DEF WatchSnapshot
    <3>2. inflight.u \in Users => fresh \in [NoteIds -> Entries]
      BY <2>3 DEF Types
    <3> HIDE DEF fresh
    <3> QED  BY <3>1, <3>2 DEF Types
  <2> QED  BY <1>16, <2>1, <2>2, <2>4 DEF WatchSnapshot, UpdateState, Types
<1>17. ASSUME NEW u \in Users, RaiseEvent(u) PROVE Types'
  <2> DEFINE k == nextListener(u)
             ok == views[u] # "failed"
             docs == IF ok THEN Shown(u) ELSE NoDocs
             a == [kind |-> "answer", ok |-> ok,
                   read |-> [n |-> listeners[u][k].n, user |-> u], docs |-> docs]
  <2>1. k \in 1..Len(listeners[u]) /\ listeners[u] \in Seq(Listeners)
    BY <1>17, NextListenerFacts DEF RaiseEvent, Due, Types
  <2>2. listeners[u][k] \in Listeners
    BY <2>1
  <2>3. mainQueue' = Append(mainQueue, a)
    BY <1>17 DEF RaiseEvent
  <2>4. docs \in Docs /\ ok \in BOOLEAN
    BY ShownType DEF NoDocs, Docs, Texts
  <2>5. \/ listeners' = [listeners EXCEPT ![u][k].raised = TRUE] /\ views' = views
        \/ listeners' = [listeners EXCEPT ![u] = <<>>] /\ views' = [views EXCEPT ![u] = NoView]
    BY <1>17 DEF RaiseEvent
  <2> HIDE DEF k, ok, docs
  <2>6. a \in [kind : {"answer"}, ok : BOOLEAN, read : Reads, docs : Docs]
    BY <2>2, <2>4 DEF Reads, Listeners
  <2>7. a \in Closures
    BY <2>6 DEF Closures
  <2> HIDE DEF a
  <2>8. mainQueue' \in Seq(Closures)
    BY <2>3, <2>7, AppendFacts DEF Types
  <2>9. listeners' \in [Users -> Seq(Listeners)]
    <3>1. <<>> \in Seq(Listeners)
      OBVIOUS
    <3>2. [listeners[u] EXCEPT ![k].raised = TRUE] \in Seq(Listeners)
      BY <2>1, RaisedFacts
    <3> QED  BY <2>5, <3>1, <3>2 DEF Types
  <2>10. views' \in [Users -> {NoView, "local", "synced", "failed"}]
    BY <2>5 DEF Types
  <2> QED  BY <1>17, <2>8, <2>9, <2>10 DEF RaiseEvent, Types
<1>18. CASE MainQueueRuns
  <2>1. mainQueue \in Seq(Closures) /\ mainQueue # <<>> /\ mainQueue' = Tail(mainQueue)
    BY <1>18 DEF MainQueueRuns, Types
  <2>2. mainQueue' \in Seq(Closures) /\ Head(mainQueue) \in Closures
    BY <2>1, TailFacts
  <2>3. CASE TakeAnswer
    <3> DEFINE read == Head(mainQueue).read
               left == Erase(listeners[read.user], read)
    <3>1. read \in Reads
      BY <2>2, <2>3 DEF TakeAnswer, Closures
    <3>2. RemoveListener(read)
      BY <2>3 DEF TakeAnswer
    <3> HIDE DEF read
    <3>3. read.user \in Users
      BY <3>1 DEF Reads
    <3>4. left \in Seq(Listeners)
      BY <3>3, EraseFacts DEF Types
    <3>5. listeners' = [listeners EXCEPT ![read.user] = left]
      BY <3>2 DEF RemoveListener
    <3>6. \/ UNCHANGED <<views, inflight, tracker>>
          \/ /\ views' = [views EXCEPT ![read.user] = NoView]
             /\ inflight' = inflightWithout(read.user)
             /\ UNCHANGED tracker \/ UpdateState("Unknown")
      BY <3>2 DEF RemoveListener
    <3> HIDE DEF left
    <3>7. listeners' \in [Users -> Seq(Listeners)]
      BY <3>3, <3>4, <3>5 DEF Types
    <3>8. views' \in [Users -> {NoView, "local", "synced", "failed"}]
      BY <3>6 DEF Types
    <3>9. inflight' \in [u : Accounts, at : Nat]
      BY <3>6 DEF inflightWithout, Nothing, Accounts, Types
    <3>10. /\ online' \in {"Unknown", "Online", "Offline"}
           /\ timer' \in BOOLEAN /\ failed' \in BOOLEAN
      BY <3>6, TrackerTypes
    <3> QED  BY <2>2, <2>3, <3>7, <3>8, <3>9, <3>10 DEF TakeAnswer, Types
  <2>4. CASE TakeWritten
    BY <2>2, <2>4 DEF TakeWritten, Types
  <2>5. CASE TakeCredential
    <3>1. engineUser' \in Accounts
      BY <2>2, <2>5 DEF TakeCredential, Closures
    <3>2. /\ online' \in {"Unknown", "Online", "Offline"}
          /\ timer' \in BOOLEAN /\ failed' \in BOOLEAN
          /\ watch' \in {"stopped", "starting", "open"}
          /\ inflight' \in [u : Accounts, at : Nat]
          /\ writeOpen' \in BOOLEAN /\ results' = <<>>
      BY <2>5, RestartTypes DEF TakeCredential
    <3>3. results' \in Seq(Nat) /\ queue' = queue
      BY <2>5, <3>2 DEF TakeCredential, queuesKept
    <3> QED  BY <2>2, <2>5, <3>1, <3>2, <3>3 DEF TakeCredential, Types
  <2> QED  BY <1>18, <2>3, <2>4, <2>5 DEF MainQueueRuns
<1>19. ASSUME NEW u \in Accounts, CredentialChange(u) PROVE Types'
  <2>1. changes' \in 0..MaxChanges
    BY <1>19, BoundsAssumption DEF CredentialChange, Types
  <2>2. [kind |-> "credential", user |-> u] \in Closures
    BY DEF Closures
  <2>3. mainQueue' \in Seq(Closures)
    BY <1>19, <2>2, AppendFacts DEF CredentialChange, Types
  <2> QED  BY <1>19, <2>1, <2>3 DEF CredentialChange, Types
<1>20. CASE ConnectivityChange
  <2>1. changes' \in 0..MaxChanges
    BY <1>20, BoundsAssumption DEF ConnectivityChange, Types
  <2>2. /\ online' \in {"Unknown", "Online", "Offline"}
        /\ timer' \in BOOLEAN /\ failed' \in BOOLEAN
        /\ watch' \in {"stopped", "starting", "open"}
        /\ inflight' \in [u : Accounts, at : Nat]
        /\ writeOpen' \in BOOLEAN /\ results' = <<>>
    BY <1>20, RestartTypes DEF ConnectivityChange
  <2>3. results' \in Seq(Nat)
    BY <2>2
  <2> QED  BY <1>20, <2>1, <2>2, <2>3 DEF ConnectivityChange, Types
<1>21. ASSUME NEW u \in Users, NEW id \in NoteIds, NEW text \in Texts,
              OtherDevice(u, id, text)
       PROVE  Types'
  <2>1. [u |-> u, id |-> id, q |-> NoUser, b |-> 0, text |-> text] \in Versions
    BY BoundsAssumption DEF Versions, Accounts
  <2>2. log' \in Seq(Versions) /\ owner' \in [NoteIds -> Accounts]
    BY <1>21, <2>1, AppendFacts DEF OtherDevice, Types, Accounts
  <2> QED  BY <1>21, <2>2 DEF OtherDevice, Types
<1>22. CASE Terminate
  <2>1. inflight' \in [u : Accounts, at : Nat]
    BY <1>22 DEF Terminate, Nothing, Accounts
  <2>2. /\ views' \in [Users -> {NoView, "local", "synced", "failed"}]
        /\ listeners' \in [Users -> Seq(Listeners)]
        /\ callbacks' \subseteq Callbacks
        /\ mainQueue' \in Seq(Closures)
        /\ results' \in Seq(Nat)
    BY <1>22 DEF Terminate
  <2> QED  BY <1>22, <2>1, <2>2 DEF Terminate, UpdateState, Types
<1>23. CASE UNCHANGED vars
  BY <1>23 DEF vars, Types
<1> QED
  BY <1>1, <1>2, <1>3, <1>4, <1>5, <1>6, <1>7, <1>8, <1>9, <1>10, <1>11, <1>12, <1>13,
     <1>14, <1>15, <1>16, <1>17, <1>18, <1>19, <1>20, <1>21, <1>22, <1>23 DEF Next

LEMMA HeldInit == ASSUME Init PROVE HeldTypes
    BY DEF Init, HeldTypes, NoTexts, NoDocs, Docs, Texts

\* A handler of the app writes.
IsCall ==
    \/ \E id \in NoteIds, text \in Details : SetData(id, text) \/ UpdateData(id, text)
    \/ \E id \in NoteIds : DeleteDocument(id)

\* A text held back is let go of with its process or its query, which leave the local
\* documents alone, or with the next write to its document; otherwise the Views are
\* computed anew, or left alone with the local documents.
LEMMA HeldKinds ==
    ASSUME Types, [Next]_vars
    PROVE  \/ EmitNewSnapshots
           \/ held' = NoTexts
           \/ IsCall
           \/ /\ UNCHANGED <<engineUser, queue, cache>>
              /\ UNCHANGED held \/ \E u : held' = [held EXCEPT ![u] = NoDocs]
<1> USE DEF reading, localData
<1>1. CASE \/ MutationResult \/ WriteRefused \/ WatchSnapshot \/ Terminate \/ UNCHANGED vars
  BY <1>1 DEF MutationResult, WriteRefused, WatchSnapshot, Terminate, vars
<1>2. CASE WriteStreamCloses
  <2>1. queue' = queue
    BY <1>2 DEF WriteStreamCloses, retried, Types
  <2> QED  BY <1>2, <2>1 DEF WriteStreamCloses
<1>3. CASE MainQueueRuns
  <2>1. CASE TakeAnswer
    <3>1. UNCHANGED <<engineUser, queue, cache>>
      BY <2>1 DEF TakeAnswer
    <3>2. UNCHANGED held \/ \E u : held' = [held EXCEPT ![u] = NoDocs]
      BY <2>1 DEF TakeAnswer, RemoveListener
    <3> QED  BY <3>1, <3>2
  <2>2. CASE TakeWritten
    BY <2>2 DEF TakeWritten
  <2> QED  BY <1>3, <2>1, <2>2 DEF MainQueueRuns, TakeCredential
<1>4. ASSUME NEW u \in Users, ServerSendsSnapshot(u) \/ TargetError(u)
      PROVE  /\ UNCHANGED <<engineUser, queue, cache>>
             /\ UNCHANGED held \/ held' = [held EXCEPT ![u] = NoDocs]
  BY <1>4 DEF ServerSendsSnapshot, TargetError
<1>5. CASE \/ GetDocuments \/ WatchStreamOpens \/ WatchStreamCloses \/ OnlineStateTimeout
           \/ WatchMessage \/ \E u \in Users : RaiseEvent(u)
  BY <1>5 DEF GetDocuments, WatchStreamOpens, WatchStreamCloses, OnlineStateTimeout,
              WatchMessage, RaiseEvent
<1>6. CASE \/ WriteStreamOpens \/ ServerCommits
           \/ \E u \in Accounts : CredentialChange(u)
           \/ ConnectivityChange
           \/ \E u \in Users, id \in NoteIds, text \in Texts : OtherDevice(u, id, text)
  BY <1>6 DEF WriteStreamOpens, ServerCommits, CredentialChange, ConnectivityChange,
              OtherDevice
<1> QED  BY <1>1, <1>2, <1>3, <1>4, <1>5, <1>6 DEF Next, IsCall

LEMMA HeldStep ==
    ASSUME Types, HeldTypes, [Next]_vars
    PROVE  HeldTypes'
<1>1. NoDocs \in Docs /\ Absent \in Texts
  BY DEF NoDocs, Docs, Texts
<1>2. CASE EmitNewSnapshots
  <2>1. ASSUME NEW u \in Users, NEW id \in NoteIds PROVE computed(u, id) \in Texts
    <3>1. Shown(u)[id] \in Texts
      BY ShownType DEF Docs
    <3> QED  BY <1>1, <3>1 DEF computed
  <2> QED  BY <1>2, <2>1 DEF EmitNewSnapshots, HeldTypes, Docs
<1>3. CASE UNCHANGED held \/ held' = NoTexts
  BY <1>1, <1>3 DEF HeldTypes, NoTexts
<1>4. ASSUME NEW u, held' = [held EXCEPT ![u] = NoDocs] PROVE HeldTypes'
  BY <1>1, <1>4 DEF HeldTypes
<1>5. CASE IsCall
  <2>1. PICK batch : WriteMutations(batch)
    BY <1>5 DEF IsCall, SetData, UpdateData, DeleteDocument
  <2>2. \A d \in Docs : [d EXCEPT ![batch.id] = Absent] \in Docs
    BY <1>1 DEF Docs
  <2> QED  BY <2>1, <2>2 DEF WriteMutations, HeldTypes
<1> QED  BY <1>2, <1>3, <1>4, <1>5, HeldKinds

-----------------------------------------------------------------------------
(* Queries, the watch stream and the online state tracker *)

\* A query is watched exactly while it has listeners, the watch stream is started
\* whenever a query is, and a snapshot is on its way only of a query that is.
ReadInv ==
    /\ \A u \in Users : (views[u] = NoView) <=> (listeners[u] = <<>>)
    /\ Targets(views) # {} => watch # "stopped"
    /\ inflight # Nothing => watch = "open" /\ inflight.u \in Targets(views)
    /\ TrackerAssertions

\* The actions that are about something else.
NotReading == UNCHANGED <<views, listeners, tracker, watch, inflight>>

LEMMA NotReadingActions ==
    ASSUME \/ \E id \in NoteIds, text \in Details : SetData(id, text) \/ UpdateData(id, text)
           \/ \E id \in NoteIds : DeleteDocument(id)
           \/ WriteStreamOpens \/ ServerCommits \/ MutationResult
           \/ WriteRefused \/ WriteStreamCloses
           \/ \E u \in Accounts : CredentialChange(u)
           \/ \E u \in Users, id \in NoteIds, text \in Texts : OtherDevice(u, id, text)
           \/ UNCHANGED vars
    PROVE  NotReading
    BY DEF NotReading, SetData, UpdateData, DeleteDocument, WriteMutations,
           WriteStreamOpens, ServerCommits, MutationResult, WriteRefused,
           WriteStreamCloses, CredentialChange, OtherDevice, vars, reading

LEMMA ReadInit == ASSUME Init PROVE ReadInv
<1>1. \A u \in Users : views[u] = NoView /\ listeners[u] = <<>>
  BY DEF Init
<1>2. Targets(views) = {}
  BY <1>1 DEF Targets, NoView
<1> QED  BY <1>1, <1>2 DEF Init, ReadInv, TrackerAssertions

\* Offline, no query stops being watched.
LEMMA ViewsWhenFacts ==
    ASSUME Types, NEW state, views' = ViewsWhen(state)
    PROVE  /\ \A u \in Users : views'[u] = NoView <=> views[u] = NoView
           /\ Targets(views') = Targets(views)
    BY DEF ViewsWhen, Targets, NoView, Types

LEMMA RestartReads ==
    ASSUME ReadInv, RestartNetwork, UNCHANGED <<views, listeners>>
    PROVE  ReadInv'
    BY DEF ReadInv, RestartNetwork, AwaitOnline, UpdateState, TrackerAssertions, Targets

LEMMA ReadStep ==
    ASSUME Types, ReadInv, [Next]_vars
    PROVE  ReadInv'
<1> USE DEF reading, tracker
<1>1. CASE NotReading
  BY <1>1 DEF NotReading, ReadInv, TrackerAssertions, Targets
<1>2. CASE GetDocuments
  <2>1. user \in Users /\ listeners[user] \in Seq(Listeners)
    BY <1>2 DEF GetDocuments, Types, Accounts
  <2>2. /\ \A u \in Users \ {user} : views'[u] = views[u] /\ listeners'[u] = listeners[u]
        /\ listeners'[user] # <<>>
        /\ IF views[user] = NoView THEN views'[user] = "local" ELSE views'[user] = views[user]
    <3>1. listeners'[user] = Append(listeners[user], [n |-> loads + 1, raised |-> FALSE])
      BY <1>2, <2>1 DEF GetDocuments, Types
    <3>2. listeners'[user] # <<>>
      BY <2>1, <3>1
    <3> QED  BY <1>2, <2>1, <3>2 DEF GetDocuments, Types
  <2>3. \A u \in Users : (views'[u] = NoView) <=> (listeners'[u] = <<>>)
    BY <2>1, <2>2 DEF ReadInv, NoView
  <2>4. watch' # "stopped" /\ inflight' = inflight
    BY <1>2 DEF GetDocuments
  <2>5. Targets(views) \subseteq Targets(views')
    BY <2>2 DEF Targets, NoView
  <2>6. inflight' # Nothing => watch' = "open" /\ inflight'.u \in Targets(views')
    BY <1>2, <2>4, <2>5 DEF GetDocuments, ReadInv
  <2>7. TrackerAssertions'
    BY <1>2 DEF GetDocuments, AwaitOnline, ReadInv, TrackerAssertions
  <2> QED  BY <2>3, <2>4, <2>6, <2>7 DEF ReadInv
<1>3. CASE WatchStreamOpens
  BY <1>3 DEF WatchStreamOpens, ReadInv, TrackerAssertions, Targets
<1>4. CASE WatchStreamCloses
  <2>1. /\ \A u \in Users : views'[u] = NoView <=> views[u] = NoView
        /\ Targets(views') = Targets(views)
    BY <1>4, ViewsWhenFacts DEF WatchStreamCloses, Targets
  <2>2. TrackerAssertions'
    BY <1>4 DEF WatchStreamCloses, HandleWatchStreamFailure, AwaitOnline, UpdateState,
                ReadInv, TrackerAssertions
  <2> QED  BY <1>4, <2>1, <2>2 DEF WatchStreamCloses, ReadInv
<1>5. CASE OnlineStateTimeout
  <2>1. /\ \A u \in Users : views'[u] = NoView <=> views[u] = NoView
        /\ Targets(views') = Targets(views)
    BY <1>5, ViewsWhenFacts DEF OnlineStateTimeout
  <2> QED  BY <1>5, <2>1 DEF OnlineStateTimeout, ReadInv, TrackerAssertions
<1>6. CASE WatchMessage
  BY <1>6 DEF WatchMessage, UpdateState, ReadInv, TrackerAssertions, Targets
<1>7. ASSUME NEW u \in Users, ServerSendsSnapshot(u) PROVE ReadInv'
  BY <1>7 DEF ServerSendsSnapshot, ReadInv, TrackerAssertions, Targets
<1>8. ASSUME NEW u \in Users, TargetError(u) PROVE ReadInv'
  <2>1. watch' = watch /\ watch = "open"
    BY <1>8 DEF TargetError
  <2>2. TrackerAssertions'
    BY <1>8, <2>1 DEF TargetError, UpdateState, TrackerAssertions
  <2>3. \A w \in Users \ {u} : views'[w] = views[w] /\ listeners'[w] = listeners[w]
    BY <1>8 DEF TargetError, Types
  <2>4. (views'[u] = NoView) <=> (listeners'[u] = <<>>)
    <3>1. CASE Waiting(u) # {}
      <4>1. views'[u] = "failed" /\ listeners'[u] = listeners[u]
        BY <1>8, <3>1 DEF TargetError, Types
      <4>2. listeners[u] # <<>>
        BY <3>1 DEF Waiting
      <4> QED  BY <4>1, <4>2 DEF NoView
    <3>2. CASE Waiting(u) = {}
      BY <1>8, <3>2 DEF TargetError, Types
    <3> QED  BY <3>1, <3>2
  <2>5. inflight' # Nothing => inflight'.u \in Targets(views')
    BY <1>8, <2>3 DEF TargetError, inflightWithout, ReadInv, Targets
  <2> QED  BY <2>1, <2>2, <2>3, <2>4, <2>5 DEF ReadInv
<1>9. CASE WatchSnapshot
  <2>1. watch' = "open" /\ inflight' = Nothing
    BY <1>9 DEF WatchSnapshot, ReadInv
  <2>2. inflight.u \in Users /\ views[inflight.u] # NoView
    BY <1>9 DEF WatchSnapshot, ReadInv, Targets, NoView
  <2>3. \A u \in Users : (views'[u] = NoView) <=> (listeners'[u] = <<>>)
    BY <1>9, <2>2 DEF WatchSnapshot, ReadInv, Types, NoView
  <2> QED  BY <1>9, <2>1, <2>3 DEF WatchSnapshot, UpdateState, ReadInv, TrackerAssertions
<1>10. ASSUME NEW u \in Users, RaiseEvent(u) PROVE ReadInv'
  <2> DEFINE k == nextListener(u)
  <2>1. k \in 1..Len(listeners[u]) /\ listeners[u] \in Seq(Listeners)
    BY <1>10, NextListenerFacts DEF RaiseEvent, Due, Types
  <2> HIDE DEF k
  <2>2. watch' = watch /\ inflight' = inflight /\ UNCHANGED tracker
    BY <1>10 DEF RaiseEvent
  <2>3. CASE listeners' = [listeners EXCEPT ![u][k].raised = TRUE] /\ views' = views
    <3>1. listeners[u] # <<>> /\ [listeners[u] EXCEPT ![k].raised = TRUE] # <<>>
      BY <2>1, RaisedFacts
    <3>2. \A w \in Users : listeners'[w] = <<>> <=> listeners[w] = <<>>
      BY <2>3, <3>1 DEF Types
    <3> QED  BY <2>2, <2>3, <3>2 DEF ReadInv, TrackerAssertions
  <2>4. CASE /\ views[u] = "failed"
             /\ listeners' = [listeners EXCEPT ![u] = <<>>]
             /\ views' = [views EXCEPT ![u] = NoView]
    <3>1. \A w \in Users : (views'[w] = NoView) <=> (listeners'[w] = <<>>)
      BY <2>4 DEF ReadInv, Types
    <3>2. Targets(views') = Targets(views)
      BY <2>4 DEF Targets, NoView, Types
    <3> QED  BY <2>2, <3>1, <3>2 DEF ReadInv, TrackerAssertions
  <2> QED  BY <1>10, <2>3, <2>4 DEF RaiseEvent, k
<1>11. CASE MainQueueRuns
  <2>1. CASE TakeAnswer
    <3> DEFINE read == Head(mainQueue).read
               u == read.user
               left == Erase(listeners[u], read)
    <3>1. Head(mainQueue) \in Closures /\ Head(mainQueue).kind = "answer"
      BY <1>11, <2>1, TailFacts DEF MainQueueRuns, TakeAnswer, Types
    <3>2. read \in Reads
      BY <3>1 DEF Closures
    <3>3. RemoveListener(read)
      BY <2>1 DEF TakeAnswer
    <3> HIDE DEF read
    <3>4. u \in Users /\ listeners[u] \in Seq(Listeners)
      BY <3>2 DEF Reads, Types
    <3>5. ASSUME listeners[u] = <<>> PROVE left = <<>>
      <4>1. Len(listeners[u]) = 0
        BY <3>5
      <4>2. \A k \in 1..Len(listeners[u]) : FALSE
        BY <4>1
      <4> HIDE DEF u
      <4>3. left = listeners[u]
        BY <3>4, <4>2, EraseFacts, Zenon
      <4> QED  BY <3>5, <4>3
    <3>6. /\ listeners' = [listeners EXCEPT ![u] = left]
          /\ watch' = watch
      BY <2>1, <3>3 DEF TakeAnswer, RemoveListener
    <3>7. CASE left = <<>> /\ listeners[u] # <<>>
      <4>1. /\ views' = [views EXCEPT ![u] = NoView]
            /\ inflight' = inflightWithout(u)
            /\ IF watch = "open" \/ Targets(views') # {}
               THEN UNCHANGED tracker ELSE UpdateState("Unknown")
        BY <3>3, <3>7 DEF RemoveListener
      <4> HIDE DEF left
      <4>2. \A w \in Users : (views'[w] = NoView) <=> (listeners'[w] = <<>>)
        BY <3>4, <3>6, <3>7, <4>1 DEF ReadInv, Types
      <4>3. Targets(views') = Targets(views) \ {u}
        BY <3>4, <4>1 DEF Targets, NoView, Types
      <4>4. TrackerAssertions'
        BY <3>6, <4>1 DEF UpdateState, ReadInv, TrackerAssertions
      <4> HIDE DEF u
      <4>5. inflight' # Nothing => inflight' = inflight /\ inflight.u # u
        BY <4>1 DEF inflightWithout
      <4> QED  BY <3>6, <4>2, <4>3, <4>4, <4>5 DEF ReadInv
    <3>8. CASE ~(left = <<>> /\ listeners[u] # <<>>)
      <4>1. UNCHANGED <<views, inflight, tracker>>
        BY <3>3, <3>8 DEF RemoveListener
      <4> HIDE DEF left
      <4>2. \A w \in Users : (views'[w] = NoView) <=> (listeners'[w] = <<>>)
        <5>1. listeners[u] = <<>> <=> listeners'[u] = <<>>
          BY <3>4, <3>5, <3>6, <3>8 DEF Types
        <5>2. \A w \in Users \ {u} : listeners'[w] = listeners[w]
          BY <3>6 DEF Types
        <5> QED  BY <4>1, <5>1, <5>2 DEF ReadInv
      <4> QED  BY <3>6, <4>1, <4>2 DEF ReadInv, TrackerAssertions
    <3> QED  BY <3>7, <3>8
  <2>2. CASE TakeWritten
    BY <2>2 DEF TakeWritten, ReadInv, TrackerAssertions
  <2>3. CASE TakeCredential
    BY <2>3, RestartReads DEF TakeCredential
  <2> QED  BY <1>11, <2>1, <2>2, <2>3 DEF MainQueueRuns
<1>12. CASE ConnectivityChange
  BY <1>12, RestartReads DEF ConnectivityChange
<1>13. CASE Terminate
  <2>1. \A u \in Users : views'[u] = NoView /\ listeners'[u] = <<>>
    BY <1>13 DEF Terminate
  <2>2. Targets(views') = {}
    BY <2>1 DEF Targets, NoView
  <2> QED  BY <1>13, <2>1, <2>2 DEF Terminate, UpdateState, ReadInv, TrackerAssertions
<1> QED
  BY <1>1, <1>2, <1>3, <1>4, <1>5, <1>6, <1>7, <1>8, <1>9, <1>10, <1>11, <1>12, <1>13,
     NotReadingActions DEF Next

-----------------------------------------------------------------------------
(* What the actions do to the queues, the log and the results *)

\* A call is queued.
Adds(batch) ==
    /\ batch.b = writes + 1 /\ (batch.op = "delete" => batch.text = Absent)
    /\ writes' = batch.b
    /\ queue' = [queue EXCEPT ![engineUser] = Append(@, batch)]
    /\ UNCHANGED <<engineUser, results, writeOpen, log, refused>>

\* The oldest batch leaves its queue.
Drops ==
    /\ queue[engineUser] # <<>>
    /\ queue' = [queue EXCEPT ![engineUser] = Tail(@)]
    /\ UNCHANGED <<engineUser, writes, log>>

\* The log grows.
Grows(e) ==
    /\ log' = Append(log, e)
    /\ UNCHANGED <<engineUser, queue, writes, refused>>

\* The write stream starts again.
Resets ==
    /\ results' = <<>>
    /\ engineUser' \in Accounts
    /\ UNCHANGED <<queue, writes, log, refused>>

Quiet ==
    /\ writeOpen => writeOpen'
    /\ UNCHANGED <<engineUser, queue, writes, log, refused, results>>

\* Every step is one of these.
WritingStep ==
    \/ \E batch \in Batches : Adds(batch)
    \/ ServerCommits
    \/ MutationResult
    \/ WriteRefused
    \/ \E u \in Users, id \in NoteIds, text \in Texts : OtherDevice(u, id, text)
    \/ Resets
    \/ Quiet

LEMMA WritingSteps ==
    ASSUME Types, Types', [Next]_vars
    PROVE  WritingStep
<1> USE DEF calls, localData, writing, server
<1>1. ASSUME NEW id \in NoteIds, NEW text \in Details, SetData(id, text) PROVE WritingStep
  <2>1. text \in Texts /\ user # NoUser /\ writes < MaxWrites
    BY <1>1 DEF SetData, Texts
  <2>2. Batch(id, "set", text) \in Batches
    BY <2>1, TypesWrite
  <2>3. Adds(Batch(id, "set", text))
    BY <1>1 DEF SetData, WriteMutations, Adds, Batch
  <2> QED  BY <2>2, <2>3 DEF WritingStep
<1>2. ASSUME NEW id \in NoteIds, NEW text \in Details, UpdateData(id, text) PROVE WritingStep
  <2>1. text \in Texts /\ user # NoUser /\ writes < MaxWrites
    BY <1>2 DEF UpdateData, Texts
  <2>2. Batch(id, "update", text) \in Batches
    BY <2>1, TypesWrite
  <2>3. Adds(Batch(id, "update", text))
    BY <1>2 DEF UpdateData, WriteMutations, Adds, Batch
  <2> QED  BY <2>2, <2>3 DEF WritingStep
<1>3. ASSUME NEW id \in NoteIds, DeleteDocument(id) PROVE WritingStep
  <2>1. Absent \in Texts /\ user # NoUser /\ writes < MaxWrites
    BY <1>3 DEF DeleteDocument, Texts
  <2>2. Batch(id, "delete", Absent) \in Batches
    BY <2>1, TypesWrite
  <2>3. Adds(Batch(id, "delete", Absent))
    BY <1>3 DEF DeleteDocument, WriteMutations, Adds, Batch
  <2> QED  BY <2>2, <2>3 DEF WritingStep
<1>4. CASE WriteStreamCloses
  <2>1. queue' = queue
    BY <1>4 DEF WriteStreamCloses, retried, Types
  <2> QED  BY <1>4, <2>1 DEF WriteStreamCloses, WritingStep, Resets, Types
<1>5. CASE MainQueueRuns
  BY <1>5 DEF MainQueueRuns, TakeAnswer, TakeWritten, TakeCredential, RestartNetwork,
              queuesKept, WritingStep, Quiet, Resets, Types
<1>6. CASE ConnectivityChange
  BY <1>6 DEF ConnectivityChange, RestartNetwork, WritingStep, Resets, Types
<1>7. CASE Terminate
  BY <1>7 DEF Terminate, WritingStep, Resets, Types
<1>8. CASE \/ WriteStreamOpens \/ GetDocuments \/ WatchStreamOpens \/ WatchStreamCloses
           \/ OnlineStateTimeout \/ WatchMessage \/ WatchSnapshot \/ UNCHANGED vars
           \/ \E u \in Users : ServerSendsSnapshot(u) \/ TargetError(u) \/ RaiseEvent(u)
           \/ \E u \in Accounts : CredentialChange(u)
  <2>1. /\ UNCHANGED <<engineUser, queue, writes, log, refused, results>>
        /\ writeOpen' = writeOpen \/ writeOpen' = TRUE
    BY <1>8 DEF WriteStreamOpens, GetDocuments, WatchStreamOpens, WatchStreamCloses,
                OnlineStateTimeout, WatchMessage, WatchSnapshot, ServerSendsSnapshot,
                TargetError, RaiseEvent, CredentialChange, vars
  <2>2. Quiet
    <3>1. writeOpen \in BOOLEAN /\ writeOpen' \in BOOLEAN
      BY DEF Types
    <3> QED  BY <2>1, <3>1 DEF Quiet
  <2> QED  BY <2>2 DEF WritingStep
<1>9. CASE \/ ServerCommits \/ MutationResult \/ WriteRefused
           \/ \E u \in Users, id \in NoteIds, text \in Texts : OtherDevice(u, id, text)
  BY <1>9 DEF WritingStep
<1> QED
  BY <1>1, <1>2, <1>3, <1>4, <1>5, <1>6, <1>7, <1>8, <1>9 DEF Next

LEMMA QueueTypes ==
    ASSUME Types, NEW u \in Accounts
    PROVE  /\ Len(queue[u]) \in Nat
           /\ \A k \in 1..Len(queue[u]) :
                 /\ queue[u][k] \in Batches
                 /\ queue[u][k].b \in Nat /\ queue[u][k].b >= 1
                 /\ queue[u][k].u \in Users /\ queue[u][k].id \in NoteIds
<1>1. queue[u] \in Seq(Batches)
  BY DEF Types
<1>2. \A k \in 1..Len(queue[u]) : queue[u][k] \in Batches
  BY <1>1
<1>3. \A batch \in Batches : /\ batch.b \in 1..MaxWrites
                            /\ batch.u \in Users /\ batch.id \in NoteIds
  BY DEF Batches
<1> QED  BY <1>1, <1>2, <1>3

LEMMA LogTypes ==
    ASSUME Types
    PROVE  /\ Len(log) \in Nat
           /\ \A v \in 1..Len(log) :
                 /\ log[v] \in Versions /\ log[v].b \in Nat
                 /\ log[v].u \in Users /\ log[v].id \in NoteIds /\ log[v].text \in Texts
<1>1. log \in Seq(Versions)
  BY DEF Types
<1>2. \A v \in 1..Len(log) : log[v] \in Versions
  BY <1>1
<1>3. \A e \in Versions : e.b \in 0..MaxWrites /\ e.u \in Users /\ e.id \in NoteIds /\ e.text \in Texts
  BY DEF Versions
<1> QED  BY <1>1, <1>2, <1>3

LEMMA AddsFacts ==
    ASSUME Types, NEW batch \in Batches, Adds(batch)
    PROVE  /\ Len(queue[engineUser]) \in Nat
           /\ Len(queue'[engineUser]) = Len(queue[engineUser]) + 1
           /\ \A k \in 1..Len(queue[engineUser]) : queue'[engineUser][k] = queue[engineUser][k]
           /\ queue'[engineUser][Len(queue[engineUser]) + 1] = batch
           /\ \A u \in Accounts : u # engineUser => queue'[u] = queue[u]
<1>1. queue \in [Accounts -> Seq(Batches)] /\ engineUser \in Accounts
  BY DEF Types
<1>2. queue'[engineUser] = Append(queue[engineUser], batch)
  BY <1>1 DEF Adds
<1> QED  BY <1>1, <1>2, AppendFacts DEF Adds

LEMMA DropsFacts ==
    ASSUME Types, Drops
    PROVE  /\ Len(queue[engineUser]) \in Nat /\ Len(queue[engineUser]) >= 1
           /\ Len(queue'[engineUser]) = Len(queue[engineUser]) - 1
           /\ \A k \in 1..(Len(queue[engineUser]) - 1) :
                 queue'[engineUser][k] = queue[engineUser][k + 1]
           /\ \A u \in Accounts : u # engineUser => queue'[u] = queue[u]
<1>1. queue \in [Accounts -> Seq(Batches)] /\ engineUser \in Accounts
  BY DEF Types
<1>2. queue'[engineUser] = Tail(queue[engineUser])
  BY <1>1 DEF Drops
<1> QED  BY <1>1, <1>2, TailFacts DEF Drops

LEMMA GrowsFacts ==
    ASSUME Types, NEW e \in Versions, Grows(e)
    PROVE  /\ Len(log) \in Nat /\ Len(log') = Len(log) + 1
           /\ \A v \in 1..Len(log) : log'[v] = log[v]
           /\ log'[Len(log) + 1] = e
<1>1. log \in Seq(Versions)
  BY DEF Types
<1> QED  BY <1>1, AppendFacts DEF Grows

\* The oldest batch is acknowledged or refused.
LEMMA MutationFacts ==
    ASSUME Types, StreamsFit, MutationResult
    PROVE  /\ Drops
           /\ results # <<>> /\ results' = Tail(results) /\ UNCHANGED writeOpen
           /\ Head(Pipeline) = queue[engineUser][1]
           /\ UNCHANGED refused
<1>1. results # <<>>
  BY DEF MutationResult
<1>2. queue[engineUser] # <<>> /\ Head(Pipeline) = queue[engineUser][1]
  BY <1>1, PipelineOfResults
<1> QED  BY <1>1, <1>2 DEF MutationResult, Drops, server

LEMMA RefusalFacts ==
    ASSUME Types, WriteRefused
    PROVE  /\ Drops
           /\ results = <<>> /\ results' = <<>>
           /\ Head(Pipeline) = queue[engineUser][1]
           /\ refused' = refused \cup {queue[engineUser][1].b}
<1>1. Pipeline # <<>>
  BY DEF WriteRefused
<1>2. queue[engineUser] # <<>> /\ Head(Pipeline) = Head(queue[engineUser])
  BY <1>1, PipelineFacts
<1>3. engineUser \in Accounts /\ queue[engineUser] \in Seq(Batches)
  BY DEF Types
<1>4. Head(Pipeline) = queue[engineUser][1]
  BY <1>2, <1>3, TailFacts
<1> QED  BY <1>2, <1>4 DEF WriteRefused, Drops

\* Batches are numbered in the order of the calls, and queued in it.
QueueInv ==
    /\ \A u \in Accounts : \A k \in 1..Len(queue[u]) :
          /\ queue[u][k].b <= writes
          /\ queue[u][k].op = "delete" => queue[u][k].text = Absent
    /\ \A u \in Accounts : \A j, k \in 1..Len(queue[u]) :
          j < k => queue[u][j].b < queue[u][k].b

\* What the server makes of the next batch.
Of(version, batch) ==
    /\ version.b = batch.b
    /\ version.u = batch.u /\ version.id = batch.id /\ version.text = batch.text

LEMMA CommitFacts ==
    ASSUME Types, QueueInv, ServerCommits
    PROVE  /\ Len(results) + 1 \in 1..Len(queue[engineUser])
           /\ Len(results) + 1 <= MaxPipeline
           /\ results' = Append(results, Len(log) + 1)
           /\ writeOpen /\ writeOpen'
           /\ \E e \in Versions :
                 /\ Grows(e) /\ e.q = engineUser
                 /\ Of(e, queue[engineUser][Len(results) + 1])
<1> DEFINE k == Len(results) + 1
           batch == Pipeline[k]
           e == [u |-> batch.u, id |-> batch.id, q |-> engineUser, b |-> batch.b,
                 text |-> mutated(Remote(batch.u, batch.id), batch)]
<1>1. results \in Seq(Nat) /\ log \in Seq(Versions) /\ engineUser \in Accounts
  BY DEF Types
<1>2. k \in 1..Len(Pipeline)
  BY <1>1, PipelineFacts DEF ServerCommits
<1>3. batch \in Batches /\ batch = queue[engineUser][k]
  BY <1>2, PipelineFacts
<1>4. k \in 1..Len(queue[engineUser]) /\ k <= MaxPipeline
  BY <1>2, PipelineFacts, BoundsAssumption
<1>5. /\ log' = Append(log, e) /\ results' = Append(results, Len(log'))
      /\ batch.op = "update" => Remote(batch.u, batch.id) # Absent
      /\ UNCHANGED <<engineUser, queue, writes, refused>>
      /\ writeOpen /\ writeOpen'
  BY DEF ServerCommits, localData
<1>6. mutated(Remote(batch.u, batch.id), batch) \in Texts
  <2>1. 0 \in 0..Len(log)
    BY <1>1
  <2> QED  BY <1>3, <2>1, RemoteType, MutatedType
<1>7. mutated(Remote(batch.u, batch.id), batch) = batch.text
  <2>1. batch.op \in {"set", "update", "delete"}
    BY <1>3 DEF Batches
  <2>2. batch.op = "delete" => batch.text = Absent
    BY <1>1, <1>3, <1>4 DEF QueueInv
  <2> QED  BY <1>5, <2>1, <2>2 DEF mutated
<1> HIDE DEF k, batch
<1>8. batch.u \in Users /\ batch.id \in NoteIds /\ batch.b \in 0..MaxWrites
  BY <1>3 DEF Batches
<1>9. e \in Versions
  BY <1>1, <1>6, <1>8 DEF Versions
<1>10. Len(log') = Len(log) + 1
  BY <1>1, <1>5, <1>9, AppendFacts
<1>11. Grows(e) /\ e.q = engineUser /\ Of(e, batch)
  BY <1>5, <1>7 DEF Grows, Of
<1> HIDE DEF e
<1> QED  BY <1>3, <1>4, <1>5, <1>9, <1>10, <1>11 DEF k

LEMMA OtherDeviceFacts ==
    ASSUME Types, NEW u \in Users, NEW id \in NoteIds, NEW text \in Texts,
           OtherDevice(u, id, text)
    PROVE  /\ UNCHANGED <<results, writeOpen>>
           /\ \E e \in Versions : Grows(e) /\ e.q = NoUser /\ e.b = 0
<1> DEFINE e == [u |-> u, id |-> id, q |-> NoUser, b |-> 0, text |-> text]
<1>1. e \in Versions
  BY BoundsAssumption DEF Versions, Accounts
<1>2. Grows(e) /\ e.q = NoUser /\ e.b = 0 /\ UNCHANGED <<results, writeOpen>>
  BY DEF OtherDevice, Grows, localData, writing
<1> QED  BY <1>1, <1>2

-----------------------------------------------------------------------------
(* The queues *)

LEMMA QueueInit == ASSUME Init PROVE QueueInv
<1>1. \A u \in Accounts : queue[u] = <<>>
  BY DEF Init
<1>2. \A u \in Accounts : \A k \in 1..Len(queue[u]) : FALSE
  BY <1>1
<1> QED  BY <1>2, Zenon DEF QueueInv

LEMMA QueueStep ==
    ASSUME Types, StreamsFit, QueueInv, WritingStep
    PROVE  QueueInv'
<1>1. ASSUME NEW batch \in Batches, Adds(batch) PROVE QueueInv'
  <2>1. ASSUME NEW u \in Accounts, NEW k \in 1..Len(queue'[u])
        PROVE  /\ queue'[u][k].b <= writes'
               /\ queue'[u][k].op = "delete" => queue'[u][k].text = Absent
               /\ \A j \in 1..Len(queue'[u]) : j < k => queue'[u][j].b < queue'[u][k].b
    <3>1. Len(queue[u]) \in Nat /\ writes \in Nat /\ writes' = writes + 1
      BY <1>1, QueueTypes DEF Adds, Types
    <3>2. \A j \in 1..Len(queue[u]) : queue[u][j].b \in Nat /\ queue[u][j].b <= writes
      BY QueueTypes DEF QueueInv
    <3>3. CASE u # engineUser
      BY <1>1, <3>1, <3>2, <3>3, AddsFacts DEF QueueInv
    <3>4. CASE u = engineUser /\ k <= Len(queue[u])
      <4>1. \A j \in 1..k : j \in 1..Len(queue[u]) /\ queue'[u][j] = queue[u][j]
        BY <1>1, <3>1, <3>4, AddsFacts
      <4>2. k \in 1..k /\ \A j \in 1..Len(queue'[u]) : j < k => j \in 1..k
        OBVIOUS
      <4>3. \A j \in 1..Len(queue'[u]) : j < k => queue'[u][j].b < queue'[u][k].b
        BY <4>1, <4>2 DEF QueueInv
      <4> QED  BY <3>1, <3>2, <4>1, <4>2, <4>3 DEF QueueInv
    <3>5. CASE u = engineUser /\ ~(k <= Len(queue[u]))
      <4>1. k = Len(queue[u]) + 1 /\ queue'[u][k] = batch
        BY <1>1, <3>5, AddsFacts
      <4>2. \A j \in 1..Len(queue'[u]) : j < k => queue'[u][j] = queue[u][j]
                                               /\ j \in 1..Len(queue[u])
        BY <1>1, <3>5, <4>1, AddsFacts
      <4>3. \A j \in 1..Len(queue'[u]) : j < k => queue'[u][j].b < queue'[u][k].b
        BY <1>1, <3>1, <3>2, <4>1, <4>2 DEF Adds
      <4>4. batch.b = writes' /\ (batch.op = "delete" => batch.text = Absent)
        BY <1>1 DEF Adds
      <4>5. batch.b <= writes'
        BY <3>1, <4>4
      <4> QED  BY <4>1, <4>3, <4>4, <4>5, Zenon
    <3> QED  BY <3>3, <3>4, <3>5
  <2> QED  BY <2>1, Zenon DEF QueueInv
<1>2. CASE Drops
  <2>1. ASSUME NEW u \in Accounts, NEW k \in 1..Len(queue'[u])
        PROVE  /\ queue'[u][k].b <= writes'
               /\ queue'[u][k].op = "delete" => queue'[u][k].text = Absent
               /\ \A j \in 1..Len(queue'[u]) : j < k => queue'[u][j].b < queue'[u][k].b
    <3>1. CASE u # engineUser
      BY <1>2, <3>1, DropsFacts DEF QueueInv, Drops
    <3>2. CASE u = engineUser
      <4>1. \A j \in 1..Len(queue'[u]) : /\ queue'[u][j] = queue[u][j + 1]
                                         /\ j + 1 \in 1..Len(queue[u])
        BY <1>2, <3>2, DropsFacts
      <4>2. \A j \in 1..Len(queue'[u]) : j < k => j + 1 < k + 1
        OBVIOUS
      <4> QED  BY <1>2, <4>1, <4>2 DEF QueueInv, Drops
    <3> QED  BY <3>1, <3>2
  <2> QED  BY <2>1, Zenon DEF QueueInv
<1>3. ASSUME UNCHANGED <<queue, writes>> PROVE QueueInv'
  BY <1>3 DEF QueueInv
<1>4. MutationResult \/ WriteRefused => Drops
  BY MutationFacts, RefusalFacts
<1>5. ServerCommits \/ Resets \/ Quiet => UNCHANGED <<queue, writes>>
  BY DEF ServerCommits, Resets, Quiet, localData
<1>6. (\E u \in Users, id \in NoteIds, text \in Texts : OtherDevice(u, id, text))
         => UNCHANGED <<queue, writes>>
  BY DEF OtherDevice, localData
<1> QED  BY <1>1, <1>2, <1>3, <1>4, <1>5, <1>6 DEF WritingStep

-----------------------------------------------------------------------------
(* The results on the write stream *)

\* The k-th result on its way is of the k-th batch of the queue, and whatever the
\* server has made of this queue since is of that batch or a later one.
ResultsInv ==
    /\ StreamsFit
    /\ \A k \in 1..Len(results) :
          /\ results[k] \in 1..Len(log)
          /\ log[results[k]].q = engineUser
          /\ Of(log[results[k]], queue[engineUser][k])
          /\ engineUser \in Users =>
                \A w \in results[k]..Len(log) :
                   log[w].q = engineUser => log[w].b >= queue[engineUser][k].b

LEMMA ResultsInit == ASSUME Init PROVE ResultsInv
<1>1. queue[engineUser] = <<>>
  BY DEF Init
<1>2. results = <<>> /\ log = <<>> /\ inflight.at = 0
  BY DEF Init, Nothing
<1>3. StreamsFit
  BY <1>1, <1>2, BoundsAssumption DEF StreamsFit
<1> QED  BY <1>2, <1>3 DEF ResultsInv

\* What is sent on the watch stream is of the log.
LEMMA InflightStep ==
    ASSUME Types, QueueInv, StreamsFit, [Next]_vars, WritingStep
    PROVE  inflight'.at <= Len(log')
<1>1. Len(log) \in Nat /\ Len(log') \in Nat /\ Len(log) <= Len(log')
  <2>1. ASSUME NEW e \in Versions, Grows(e)
        PROVE  Len(log') \in Nat /\ Len(log) <= Len(log')
    BY <2>1, LogTypes, GrowsFacts
  <2>2. UNCHANGED log \/ \E e \in Versions : Grows(e)
    BY CommitFacts, OtherDeviceFacts, MutationFacts, RefusalFacts
       DEF WritingStep, Adds, Drops, Resets, Quiet
  <2> QED  BY <2>1, <2>2, LogTypes
<1>2. inflight' = inflight \/ inflight' = Nothing \/ inflight'.at = Len(log)
  <2> USE DEF calls, localData
  <2>1. CASE \/ \E id \in NoteIds, text \in Details : SetData(id, text) \/ UpdateData(id, text)
             \/ \E id \in NoteIds : DeleteDocument(id)
             \/ WriteStreamOpens \/ ServerCommits \/ MutationResult
             \/ WriteRefused \/ WriteStreamCloses
             \/ \E u \in Accounts : CredentialChange(u)
             \/ \E u \in Users, id \in NoteIds, text \in Texts : OtherDevice(u, id, text)
             \/ UNCHANGED vars
    BY <2>1, NotReadingActions DEF NotReading
  <2>2. CASE \/ GetDocuments \/ WatchStreamOpens \/ WatchStreamCloses
             \/ OnlineStateTimeout \/ WatchMessage \/ WatchSnapshot
    BY <2>2 DEF GetDocuments, WatchStreamOpens, WatchStreamCloses, OnlineStateTimeout,
                WatchMessage, WatchSnapshot
  <2>4. ASSUME NEW u \in Users, ServerSendsSnapshot(u) \/ TargetError(u) \/ RaiseEvent(u)
        PROVE  inflight' = inflight \/ inflight' = Nothing \/ inflight'.at = Len(log)
    <3>1. CASE ServerSendsSnapshot(u)
      BY <3>1 DEF ServerSendsSnapshot
    <3>2. CASE TargetError(u) \/ RaiseEvent(u)
      BY <3>2 DEF TargetError, RaiseEvent, inflightWithout
    <3> QED  BY <2>4, <3>1, <3>2
  <2>3. CASE MainQueueRuns \/ ConnectivityChange \/ Terminate
    BY <2>3 DEF MainQueueRuns, TakeAnswer, RemoveListener, TakeWritten, TakeCredential,
                RestartNetwork, ConnectivityChange, Terminate, inflightWithout
  <2> QED  BY <2>1, <2>2, <2>3, <2>4 DEF Next
<1>3. inflight.at \in Nat /\ inflight.at <= Len(log)
  BY DEF Types, StreamsFit
<1> QED  BY <1>1, <1>2, <1>3 DEF Nothing

LEMMA ResultsStep ==
    ASSUME Types, Types', QueueInv, ResultsInv, [Next]_vars, WritingStep
    PROVE  ResultsInv'
<1>0. inflight'.at <= Len(log')
  BY InflightStep DEF ResultsInv
<1>1. /\ results \in Seq(Nat) /\ Len(results) \in Nat
      /\ engineUser \in Accounts /\ Len(log) \in Nat
      /\ MaxPipeline \in Nat \ {0}
      /\ Len(queue[engineUser]) \in Nat
  <2>1. engineUser \in Accounts /\ results \in Seq(Nat)
    BY DEF Types
  <2>2. Len(queue[engineUser]) \in Nat /\ Len(log) \in Nat
    BY <2>1, QueueTypes, LogTypes
  <2> QED  BY <2>1, <2>2, BoundsAssumption
<1>2. ASSUME NEW batch \in Batches, Adds(batch) PROVE ResultsInv'
  <2>1. /\ \A k \in 1..Len(results) : queue'[engineUser][k] = queue[engineUser][k]
        /\ Len(queue'[engineUser]) = Len(queue[engineUser]) + 1
    BY <1>1, <1>2, AddsFacts DEF ResultsInv, StreamsFit
  <2>2. UNCHANGED <<engineUser, results, writeOpen, log>>
    BY <1>2 DEF Adds
  <2>3. StreamsFit'
    BY <1>0, <1>1, <2>1, <2>2 DEF ResultsInv, StreamsFit
  <2> QED  BY <2>1, <2>2, <2>3 DEF ResultsInv
<1>3. CASE ServerCommits
  <2> DEFINE k == Len(results) + 1
  <2>1. /\ k \in 1..Len(queue[engineUser]) /\ k <= MaxPipeline
        /\ results' = Append(results, Len(log) + 1)
        /\ writeOpen'
    BY <1>3, CommitFacts
  <2>2. PICK e \in Versions : /\ Grows(e) /\ e.q = engineUser
                             /\ Of(e, queue[engineUser][k])
    BY <1>3, CommitFacts
  <2>3. /\ Len(log') = Len(log) + 1 /\ log'[Len(log) + 1] = e
        /\ \A v \in 1..Len(log) : log'[v] = log[v]
    BY <2>2, GrowsFacts
  <2>4. UNCHANGED <<engineUser, queue>>
    BY <2>2 DEF Grows
  <2>5. /\ Len(results') = k /\ results'[k] = Len(log) + 1
        /\ \A j \in 1..Len(results) : results'[j] = results[j]
    BY <1>1, <2>1, AppendFacts
  <2>6. StreamsFit'
    BY <1>0, <1>1, <2>1, <2>4, <2>5 DEF StreamsFit
  <2>7. ASSUME NEW j \in 1..Len(results')
        PROVE  /\ results'[j] \in 1..Len(log')
               /\ log'[results'[j]].q = engineUser
               /\ Of(log'[results'[j]], queue[engineUser][j])
               /\ engineUser \in Users =>
                     \A w \in results'[j]..Len(log') :
                        log'[w].q = engineUser => log'[w].b >= queue[engineUser][j].b
    <3>1. CASE j \in 1..Len(results)
      <4>1. results'[j] = results[j] /\ results[j] \in 1..Len(log)
        BY <2>5, <3>1 DEF ResultsInv
      <4>2. log'[results'[j]] = log[results[j]]
        BY <2>3, <4>1
      <4>3. e.b > queue[engineUser][j].b
        <5>1. j \in 1..Len(queue[engineUser]) /\ j < k /\ e.b = queue[engineUser][k].b
          BY <1>1, <2>1, <2>2, <3>1 DEF Of
        <5>2. queue[engineUser][j].b < queue[engineUser][k].b
          BY <1>1, <2>1, <5>1 DEF QueueInv
        <5> QED  BY <1>1, <2>1, <5>1, <5>2, QueueTypes
      <4>4. e.b >= queue[engineUser][j].b
        <5>1. k \in 1..Len(queue[engineUser]) /\ j \in 1..Len(queue[engineUser])
          BY <1>1, <2>1, <2>2, <3>1
        <5>2. queue[engineUser][k].b \in Int /\ queue[engineUser][j].b \in Int
          BY <5>1, <1>1, QueueTypes
        <5>3. e.b = queue[engineUser][k].b
          BY <2>1, <2>2 DEF Of
        <5> QED  BY <4>3, <5>2, <5>3
      <4>5. ASSUME engineUser \in Users, NEW w \in results'[j]..Len(log'),
                   log'[w].q = engineUser
            PROVE  log'[w].b >= queue[engineUser][j].b
        <5>1. CASE w = Len(log) + 1
          BY <2>3, <4>4, <5>1
        <5>2. CASE w # Len(log) + 1
          <6>1. w \in results[j]..Len(log) /\ w \in 1..Len(log)
            BY <1>1, <2>3, <4>1, <4>5, <5>2
          <6> QED  BY <2>3, <3>1, <4>5, <6>1 DEF ResultsInv
        <5> QED  BY <5>1, <5>2
      <4>6. results'[j] \in 1..Len(log')
        BY <1>1, <2>3, <4>1
      <4> QED  BY <3>1, <4>2, <4>5, <4>6 DEF ResultsInv
    <3>2. CASE j = k
      <4>1. results'[j] = Len(log) + 1 /\ log'[results'[j]] = e
        BY <2>3, <2>5, <3>2
      <4>2. results'[j] \in 1..Len(log')
        BY <1>1, <2>3, <4>1
      <4>3. \A w \in results'[j]..Len(log') : log'[w] = e
        BY <1>1, <2>3, <4>1
      <4>4. e.b >= queue[engineUser][j].b
        BY <1>1, <2>1, <2>2, <3>2, QueueTypes DEF Of
      <4> QED  BY <2>2, <3>2, <4>1, <4>2, <4>3, <4>4
    <3> QED  BY <1>1, <2>5, <3>1, <3>2
  <2> QED  BY <2>4, <2>6, <2>7, Zenon DEF ResultsInv
<1>4. CASE MutationResult
  <2>1. /\ Drops /\ results # <<>> /\ results' = Tail(results)
        /\ UNCHANGED <<engineUser, writeOpen, log>>
    BY <1>4, MutationFacts DEF ResultsInv, Drops
  <2>2. /\ Len(queue'[engineUser]) = Len(queue[engineUser]) - 1
        /\ \A j \in 1..(Len(queue[engineUser]) - 1) :
              queue'[engineUser][j] = queue[engineUser][j + 1]
    BY <2>1, DropsFacts
  <2>3. /\ Len(results') = Len(results) - 1 /\ Len(results) >= 1
        /\ \A j \in 1..(Len(results) - 1) : results'[j] = results[j + 1]
    BY <1>1, <2>1, TailFacts
  <2>4. \A j \in 1..Len(results') : /\ results'[j] = results[j + 1]
                                    /\ queue'[engineUser][j] = queue[engineUser][j + 1]
                                    /\ j + 1 \in 1..Len(results)
    <3>1. \A j \in 1..Len(results') : /\ j \in 1..(Len(results) - 1)
                                      /\ j \in 1..(Len(queue[engineUser]) - 1)
                                      /\ j + 1 \in 1..Len(results)
      BY <1>1, <2>3 DEF ResultsInv, StreamsFit
    <3> QED  BY <2>2, <2>3, <3>1
  <2>5. writeOpen
    BY <2>1 DEF ResultsInv, StreamsFit
  <2>6. StreamsFit'
    BY <1>0, <1>1, <2>1, <2>2, <2>3, <2>5 DEF ResultsInv, StreamsFit
  <2> QED  BY <2>1, <2>4, <2>6 DEF ResultsInv
<1>5. ASSUME results' = <<>>, Types' PROVE ResultsInv'
  <2>1. Len(queue'[engineUser']) \in Nat
    BY <1>5 DEF Types
  <2>2. Len(results') = 0
    BY <1>5
  <2> QED  BY <1>0, <1>1, <1>5, <2>1, <2>2 DEF ResultsInv, StreamsFit
<1>6. CASE WriteRefused
  BY <1>5, <1>6, RefusalFacts
<1>7. ASSUME NEW u \in Users, NEW id \in NoteIds, NEW text \in Texts,
             OtherDevice(u, id, text)
      PROVE  ResultsInv'
  <2>1. PICK e \in Versions : Grows(e) /\ e.q = NoUser
    BY <1>7, OtherDeviceFacts
  <2>2. /\ Len(log') = Len(log) + 1 /\ log'[Len(log) + 1] = e
        /\ \A v \in 1..Len(log) : log'[v] = log[v]
    BY <2>1, GrowsFacts
  <2>3. UNCHANGED <<engineUser, queue, results, writeOpen>>
    BY <1>7, <2>1, OtherDeviceFacts DEF Grows
  <2>4. StreamsFit'
    BY <1>0, <2>3 DEF ResultsInv, StreamsFit
  <2>5. ASSUME NEW j \in 1..Len(results)
        PROVE  /\ results[j] \in 1..Len(log')
               /\ log'[results[j]].q = engineUser
               /\ Of(log'[results[j]], queue[engineUser][j])
               /\ engineUser \in Users =>
                     \A w \in results[j]..Len(log') :
                        log'[w].q = engineUser => log'[w].b >= queue[engineUser][j].b
    <3>1. results[j] \in 1..Len(log) /\ results[j] \in 1..Len(log')
      BY <1>1, <2>2 DEF ResultsInv
    <3>2. log'[results[j]] = log[results[j]]
      BY <2>2, <3>1
    <3>3. ASSUME engineUser \in Users, NEW w \in results[j]..Len(log'),
                 log'[w].q = engineUser
          PROVE  log'[w].b >= queue[engineUser][j].b
      <4>1. w # Len(log) + 1
        BY <2>1, <2>2, <3>3, NoUserAssumption
      <4>2. w \in results[j]..Len(log) /\ w \in 1..Len(log)
        BY <1>1, <2>2, <3>1, <4>1
      <4> QED  BY <2>2, <3>3, <4>2 DEF ResultsInv
    <3> QED  BY <3>1, <3>2, <3>3 DEF ResultsInv
  <2> QED  BY <2>3, <2>4, <2>5, Zenon DEF ResultsInv
<1>8. CASE Resets
  BY <1>5, <1>8 DEF Resets
<1>9. CASE Quiet
  BY <1>0, <1>9 DEF Quiet, ResultsInv, StreamsFit
<1> QED  BY <1>2, <1>3, <1>4, <1>6, <1>7, <1>8, <1>9 DEF WritingStep

-----------------------------------------------------------------------------
(* The order of the log *)

Pend(u, b) == \E k \in 1..Len(queue[u]) : queue[u][k].b = b

\* What the server has of a queue is of a batch still in it, or of one before all
\* of those.
Overtaken(u) ==
    \A v \in 1..Len(log) : log[v].q = u =>
        Pend(u, log[v].b) \/ \A k \in 1..Len(queue[u]) : log[v].b < queue[u][k].b

\* A batch is of one document.
OneDocument(u) ==
    /\ \A v \in 1..Len(log) : log[v].q = u =>
          \A k \in 1..Len(queue[u]) : queue[u][k].b = log[v].b =>
             queue[u][k].u = log[v].u /\ queue[u][k].id = log[v].id
    /\ \A v, w \in 1..Len(log) : log[v].q = u /\ log[w].q = u /\ log[v].b = log[w].b =>
          log[v].u = log[w].u /\ log[v].id = log[w].id

\* Where an older batch follows a younger one, for it was sent again, the younger
\* one follows once more, is still to be sent, or was refused.
Resent(u) ==
    \A v, w \in 1..Len(log) :
        v < w /\ log[v].q = u /\ log[w].q = u /\ log[v].b > log[w].b =>
            \/ Pend(u, log[v].b)
            \/ log[v].b \in refused
            \/ \E x \in w..Len(log) : log[x].q = u /\ log[x].b = log[v].b

OrderInv ==
    /\ \A v \in 1..Len(log) : log[v].b <= writes
    /\ \A u \in Users : Overtaken(u) /\ OneDocument(u) /\ Resent(u)

LEMMA OrderInit == ASSUME Init PROVE OrderInv
<1>1. \A v \in 1..Len(log) : FALSE
  BY DEF Init
<1> QED  BY <1>1, Zenon DEF OrderInv, Overtaken, OneDocument, Resent

\* A new call is after everything the server has.
LEMMA OrderAdds ==
    ASSUME Types, OrderInv, NEW batch \in Batches, Adds(batch)
    PROVE  OrderInv'
<1>1. UNCHANGED <<log, refused>> /\ writes' = writes + 1 /\ writes \in Nat /\ batch.b = writes + 1
  BY DEF Adds, Types
<1>2. \A v \in 1..Len(log) : log[v].b \in Nat /\ log[v].b <= writes
  BY LogTypes DEF OrderInv
<1>3. \A v \in 1..Len(log) : log[v].b <= writes' /\ log[v].b < batch.b
  BY <1>1, <1>2
<1>4. ASSUME NEW u \in Users
      PROVE  /\ \A b : Pend(u, b) => Pend(u, b)'
             /\ \A k \in 1..Len(queue'[u]) :
                   queue'[u][k] = batch \/ (k \in 1..Len(queue[u]) /\ queue'[u][k] = queue[u][k])
  <2>1. CASE u # engineUser
    <3>1. u \in Accounts
      BY DEF Accounts
    <3> QED  BY <2>1, <3>1, AddsFacts DEF Pend
  <2>2. CASE u = engineUser
    <3>1. \A k \in 1..Len(queue[u]) : k \in 1..Len(queue'[u]) /\ queue'[u][k] = queue[u][k]
      BY <2>2, AddsFacts
    <3>2. ASSUME NEW k \in 1..Len(queue'[u])
          PROVE  queue'[u][k] = batch \/ (k \in 1..Len(queue[u]) /\ queue'[u][k] = queue[u][k])
      <4>1. k = Len(queue[u]) + 1 \/ k \in 1..Len(queue[u])
        BY <2>2, AddsFacts
      <4>2. queue'[u][Len(queue[u]) + 1] = batch
        BY <2>2, AddsFacts
      <4> QED  BY <3>1, <4>1, <4>2
    <3> QED  BY <3>1, <3>2 DEF Pend
  <2> QED  BY <2>1, <2>2
<1>5. ASSUME NEW u \in Users PROVE Overtaken(u)' /\ OneDocument(u)' /\ Resent(u)'
  <2>1. Overtaken(u)'
    BY <1>1, <1>3, <1>4 DEF OrderInv, Overtaken
  <2>2. OneDocument(u)'
    <3>1. \A v \in 1..Len(log) : log[v].b # batch.b
      BY <1>1, <1>2
    <3>2. ASSUME NEW v \in 1..Len(log), log[v].q = u,
                 NEW k \in 1..Len(queue'[u]), queue'[u][k].b = log[v].b
          PROVE  queue'[u][k].u = log[v].u /\ queue'[u][k].id = log[v].id
      <4>1. k \in 1..Len(queue[u]) /\ queue'[u][k] = queue[u][k]
        BY <1>4, <3>1, <3>2
      <4> QED  BY <3>2, <4>1 DEF OrderInv, OneDocument
    <3>3. log' = log /\ OneDocument(u)
      BY <1>1 DEF OrderInv
    <3>4. \A v, w \in 1..Len(log) : log[v].q = u /\ log[w].q = u /\ log[v].b = log[w].b =>
             log[v].u = log[w].u /\ log[v].id = log[w].id
      BY <3>3 DEF OneDocument
    <3>5. \A v \in 1..Len(log) : log[v].q = u =>
             \A k \in 1..Len(queue'[u]) : queue'[u][k].b = log[v].b =>
                queue'[u][k].u = log[v].u /\ queue'[u][k].id = log[v].id
      BY <3>2
    <3> HIDE <1>1, <1>2, <1>3, <1>4, <3>1, <3>2
    <3> QED  BY <3>3, <3>4, <3>5 DEF OneDocument
  <2>3. Resent(u)'
    <3>1. log' = log /\ refused' = refused /\ Resent(u)
      BY <1>1 DEF OrderInv
    <3>2. ASSUME NEW v \in 1..Len(log), Pend(u, log[v].b) PROVE Pend(u, log[v].b)'
      <4>1. PICK k \in 1..Len(queue'[u]) : queue'[u][k].b = log[v].b
        BY <1>4, <3>2, Zenon DEF Pend
      <4> QED  BY <3>1, <4>1, Zenon DEF Pend
    <3>3. ASSUME NEW v \in 1..Len(log), NEW w \in 1..Len(log),
                 v < w, log[v].q = u, log[w].q = u, log[v].b > log[w].b
          PROVE  \/ Pend(u, log[v].b)'
                 \/ log[v].b \in refused
                 \/ \E x \in w..Len(log) : log[x].q = u /\ log[x].b = log[v].b
      BY <3>1, <3>2, <3>3, Zenon DEF Resent
    <3> QED  BY <3>1, <3>3 DEF Resent, Pend
  <2> QED  BY <2>1, <2>2, <2>3
<1> QED  BY <1>1, <1>3, <1>5 DEF OrderInv

\* A batch leaves its queue once the server has it, or for good.
LEMMA OrderDrops ==
    ASSUME Types, QueueInv, ResultsInv, OrderInv, MutationResult \/ WriteRefused
    PROVE  OrderInv'
<1> DEFINE oldest == queue[engineUser][1].b
<1>1. /\ Drops /\ UNCHANGED <<log, writes>> /\ refused \subseteq refused'
      /\ oldest \in refused' \/ results # <<>>
  <2>1. CASE MutationResult
    BY <2>1, MutationFacts DEF ResultsInv, Drops
  <2>2. CASE WriteRefused
    BY <2>2, RefusalFacts DEF Drops
  <2> QED  BY <2>1, <2>2
<1>2. engineUser \in Accounts /\ Len(queue[engineUser]) \in Nat /\ Len(queue[engineUser]) >= 1
  BY <1>1, DropsFacts DEF Types
<1>3. ASSUME NEW u \in Users
      PROVE  /\ \A b : Pend(u, b) => Pend(u, b)' \/ (u = engineUser /\ b = oldest)
             /\ \A k \in 1..Len(queue'[u]) : \E j \in 1..Len(queue[u]) :
                   /\ queue'[u][k] = queue[u][j]
                   /\ u = engineUser => oldest < queue[u][j].b
  <2>1. CASE u # engineUser
    <3>1. u \in Accounts
      BY DEF Accounts
    <3>2. queue'[u] = queue[u]
      BY <1>1, <2>1, <3>1, DropsFacts
    <3> QED  BY <2>1, <3>2 DEF Pend
  <2>2. CASE u = engineUser
    <3>1. ASSUME NEW k \in 1..Len(queue'[u])
          PROVE  \E j \in 1..Len(queue[u]) :
                    queue'[u][k] = queue[u][j] /\ oldest < queue[u][j].b
      <4>1. k + 1 \in 1..Len(queue[u]) /\ queue'[u][k] = queue[u][k + 1]
        BY <1>1, <2>2, DropsFacts
      <4>2. 1 \in 1..Len(queue[u]) /\ 1 < k + 1
        BY <1>2, <2>2
      <4>3. oldest < queue[u][k + 1].b
        BY <1>2, <2>2, <4>1, <4>2 DEF QueueInv
      <4> QED  BY <4>1, <4>3
    <3>2. ASSUME NEW b, Pend(u, b), b # oldest PROVE Pend(u, b)'
      <4>1. PICK k \in 1..Len(queue[u]) : queue[u][k].b = b
        BY <3>2 DEF Pend
      <4>2. k - 1 \in 1..Len(queue'[u]) /\ queue'[u][k - 1] = queue[u][k]
        <5>1. k # 1
          BY <2>2, <3>2, <4>1
        <5>2. k - 1 \in 1..(Len(queue[u]) - 1) /\ (k - 1) + 1 = k
          BY <1>2, <2>2, <5>1
        <5> QED  BY <1>1, <2>2, <5>2, DropsFacts
      <4> QED  BY <4>1, <4>2 DEF Pend
    <3> QED  BY <2>2, <3>1, <3>2
  <2> QED  BY <2>1, <2>2
<1>4. ASSUME engineUser \in Users, results # <<>>
      PROVE  \A w \in 1..Len(log) : log[w].q = engineUser /\ log[w].b < oldest =>
                \E x \in w..Len(log) : log[x].q = engineUser /\ log[x].b = oldest
  <2>1. 1 \in 1..Len(results)
    <3>1. results \in Seq(Nat)
      BY DEF Types
    <3> QED  BY <1>4, <3>1, EmptyFacts
  <2>2. /\ results[1] \in 1..Len(log) /\ log[results[1]].q = engineUser
        /\ log[results[1]].b = oldest
        /\ \A w \in results[1]..Len(log) : log[w].q = engineUser => log[w].b >= oldest
    BY <1>4, <2>1 DEF ResultsInv, Of
  <2>3. ASSUME NEW w \in 1..Len(log), log[w].q = engineUser, log[w].b < oldest
        PROVE  results[1] \in w..Len(log)
    <3>1. log[w].b \in Nat /\ oldest \in Nat /\ Len(log) \in Nat
      <4>1. 1 \in 1..Len(queue[engineUser])
        BY <1>2
      <4> QED  BY <1>2, <4>1, LogTypes, QueueTypes
    <3>2. ~(w \in results[1]..Len(log))
      BY <2>2, <2>3, <3>1
    <3> QED  BY <2>2, <3>1, <3>2
  <2> QED  BY <2>2, <2>3
<1> HIDE DEF oldest
<1>5. ASSUME NEW u \in Users PROVE Overtaken(u)' /\ OneDocument(u)' /\ Resent(u)'
  <2>1. Overtaken(u)'
    <3>1. ASSUME NEW v \in 1..Len(log), log[v].q = u
          PROVE  Pend(u, log[v].b)' \/ \A k \in 1..Len(queue'[u]) : log[v].b < queue'[u][k].b
      <4>1. CASE Pend(u, log[v].b)
        <5>1. Pend(u, log[v].b)' \/ (u = engineUser /\ log[v].b = oldest)
          BY <1>1, <1>3, <4>1 DEF Pend
        <5> QED  BY <1>3, <5>1
      <4>2. CASE \A k \in 1..Len(queue[u]) : log[v].b < queue[u][k].b
        BY <1>3, <4>2
      <4> QED  BY <3>1, <4>1, <4>2 DEF OrderInv, Overtaken
    <3> QED  BY <1>1, <3>1 DEF Overtaken
  <2>2. OneDocument(u)'
    <3>1. ASSUME NEW v \in 1..Len(log), log[v].q = u,
                 NEW k \in 1..Len(queue'[u]), queue'[u][k].b = log[v].b
          PROVE  queue'[u][k].u = log[v].u /\ queue'[u][k].id = log[v].id
      <4>1. PICK j \in 1..Len(queue[u]) : queue'[u][k] = queue[u][j]
        BY <1>3
      <4> QED  BY <3>1, <4>1 DEF OrderInv, OneDocument
    <3> QED  BY <1>1, <3>1 DEF OrderInv, OneDocument
  <2>3. Resent(u)'
    <3>1. ASSUME NEW v \in 1..Len(log), NEW w \in 1..Len(log),
                 v < w, log[v].q = u, log[w].q = u, log[v].b > log[w].b
          PROVE  \/ Pend(u, log[v].b)'
                 \/ log[v].b \in refused'
                 \/ \E x \in w..Len(log) : log[x].q = u /\ log[x].b = log[v].b
      <4>1. CASE Pend(u, log[v].b)
        <5>1. Pend(u, log[v].b)' \/ (u = engineUser /\ log[v].b = oldest)
          BY <1>1, <1>3, <4>1 DEF Pend
        <5>2. CASE u = engineUser /\ log[v].b = oldest
          <6>1. log[w].b < oldest
            BY <3>1, <5>2, LogTypes
          <6> QED  BY <1>1, <1>4, <3>1, <5>2, <6>1
        <5> QED  BY <5>1, <5>2
      <4>2. CASE log[v].b \in refused
        BY <1>1, <4>2
      <4>3. CASE \E x \in w..Len(log) : log[x].q = u /\ log[x].b = log[v].b
        BY <4>3
      <4> QED  BY <3>1, <4>1, <4>2, <4>3 DEF OrderInv, Resent
    <3> QED  BY <1>1, <3>1 DEF Resent
  <2> QED  BY <2>1, <2>2, <2>3
<1> QED  BY <1>1, <1>5 DEF OrderInv

\* What the server makes next is of a batch in the queue, or of another device.
LEMMA OrderGrows ==
    ASSUME Types, QueueInv, OrderInv, NEW e \in Versions, Grows(e),
           \/ e.q = NoUser /\ e.b = 0
           \/ /\ e.q = engineUser
              /\ \E k \in 1..Len(queue[engineUser]) : Of(e, queue[engineUser][k])
    PROVE  OrderInv'
<1>1. /\ Len(log) \in Nat /\ Len(log') = Len(log) + 1
      /\ \A v \in 1..Len(log) : log'[v] = log[v]
      /\ log'[Len(log) + 1] = e
      /\ UNCHANGED <<queue, writes, refused>>
  BY GrowsFacts DEF Grows
<1>2. \A v \in 1..Len(log') : v \in 1..Len(log) \/ v = Len(log) + 1
  BY <1>1
<1>3. writes \in Nat /\ engineUser \in Accounts
  BY DEF Types
<1>4. e.b <= writes
  BY <1>3 DEF QueueInv, Of
<1>5. ASSUME NEW u \in Users, e.q = u
      PROVE  \E k \in 1..Len(queue[u]) : Of(e, queue[u][k])
  BY <1>5, NoUserAssumption
<1>6. ASSUME NEW u \in Users PROVE Overtaken(u)'
  <2>1. ASSUME NEW v \in 1..Len(log'), log'[v].q = u
        PROVE  Pend(u, log'[v].b) \/ \A k \in 1..Len(queue[u]) : log'[v].b < queue[u][k].b
    <3>1. CASE v \in 1..Len(log)
      BY <1>1, <2>1, <3>1 DEF OrderInv, Overtaken
    <3>2. CASE v = Len(log) + 1
      BY <1>1, <1>5, <2>1, <3>2 DEF Pend, Of
    <3> QED  BY <1>2, <3>1, <3>2
  <2> QED  BY <1>1, <2>1 DEF Overtaken, Pend
<1>7. ASSUME NEW u \in Users, e.q = u
      PROVE  /\ \A k \in 1..Len(queue[u]) : queue[u][k].b = e.b =>
                    queue[u][k].u = e.u /\ queue[u][k].id = e.id
             /\ \A v \in 1..Len(log) : log[v].q = u /\ log[v].b = e.b =>
                    log[v].u = e.u /\ log[v].id = e.id
             /\ \A v \in 1..Len(log) : log[v].q = u /\ log[v].b > e.b => Pend(u, log[v].b)
  <2>1. PICK j \in 1..Len(queue[u]) : Of(e, queue[u][j])
    BY <1>5, <1>7
  <2>2. u \in Accounts /\ e.b = queue[u][j].b
    BY <2>1 DEF Accounts, Of
  <2>3. ASSUME NEW k \in 1..Len(queue[u]), queue[u][k].b = e.b PROVE k = j
    <3>1. queue[u][k].b \in Nat /\ ~(queue[u][k].b < queue[u][j].b)
                               /\ ~(queue[u][j].b < queue[u][k].b)
      BY <2>2, <2>3, QueueTypes
    <3>2. ~(k < j) /\ ~(j < k)
      BY <2>2, <3>1 DEF QueueInv
    <3> QED  BY <2>2, <3>2, QueueTypes
  <2>4. ASSUME NEW v \in 1..Len(log), log[v].q = u, log[v].b > e.b PROVE Pend(u, log[v].b)
    <3>1. ~(log[v].b < queue[u][j].b)
      BY <2>2, <2>4, LogTypes, QueueTypes
    <3> QED  BY <2>4, <3>1 DEF OrderInv, Overtaken
  <2> QED  BY <2>1, <2>2, <2>3, <2>4 DEF Of, OrderInv, OneDocument
<1>8. ASSUME NEW u \in Users PROVE OneDocument(u)'
  <2>1. ASSUME NEW v \in 1..Len(log'), log'[v].q = u,
               NEW k \in 1..Len(queue[u]), queue[u][k].b = log'[v].b
        PROVE  queue[u][k].u = log'[v].u /\ queue[u][k].id = log'[v].id
    <3>1. CASE v \in 1..Len(log)
      BY <1>1, <2>1, <3>1 DEF OrderInv, OneDocument
    <3>2. CASE v = Len(log) + 1
      BY <1>1, <1>7, <2>1, <3>2
    <3> QED  BY <1>2, <3>1, <3>2
  <2>2. ASSUME NEW v \in 1..Len(log'), NEW w \in 1..Len(log'),
               log'[v].q = u, log'[w].q = u, log'[v].b = log'[w].b
        PROVE  log'[v].u = log'[w].u /\ log'[v].id = log'[w].id
    BY <1>1, <1>2, <1>7, <2>2 DEF OrderInv, OneDocument
  <2> QED  BY <1>1, <2>1, <2>2 DEF OneDocument
<1>9. ASSUME NEW u \in Users PROVE Resent(u)'
  <2>1. ASSUME NEW v \in 1..Len(log'), NEW w \in 1..Len(log'),
               v < w, log'[v].q = u, log'[w].q = u, log'[v].b > log'[w].b
        PROVE  \/ Pend(u, log'[v].b)
               \/ log'[v].b \in refused
               \/ \E x \in w..Len(log') : log'[x].q = u /\ log'[x].b = log'[v].b
    <3>1. v \in 1..Len(log) /\ log'[v] = log[v]
      BY <1>1, <2>1
    <3>2. CASE w = Len(log) + 1
      BY <1>1, <1>7, <2>1, <3>1, <3>2
    <3>3. CASE w \in 1..Len(log)
      <4>1. \/ Pend(u, log[v].b)
            \/ log[v].b \in refused
            \/ \E x \in w..Len(log) : log[x].q = u /\ log[x].b = log[v].b
        BY <1>1, <2>1, <3>1, <3>3 DEF OrderInv, Resent
      <4>2. \A x \in w..Len(log) : x \in w..Len(log') /\ log'[x] = log[x]
        BY <1>1, <3>3
      <4> QED  BY <3>1, <4>1, <4>2
    <3> QED  BY <1>2, <3>2, <3>3
  <2> QED  BY <1>1, <2>1 DEF Resent, Pend
<1>10. \A v \in 1..Len(log') : log'[v].b <= writes
  BY <1>1, <1>2, <1>4 DEF OrderInv
<1> QED  BY <1>1, <1>6, <1>8, <1>9, <1>10 DEF OrderInv

LEMMA OrderStep ==
    ASSUME Types, QueueInv, ResultsInv, OrderInv, WritingStep
    PROVE  OrderInv'
<1>1. CASE ServerCommits
  BY <1>1, CommitFacts, OrderGrows
<1>2. ASSUME NEW u \in Users, NEW id \in NoteIds, NEW text \in Texts,
             OtherDevice(u, id, text)
      PROVE  OrderInv'
  BY <1>2, OtherDeviceFacts, OrderGrows
<1>3. CASE Resets \/ Quiet
  <2>1. UNCHANGED <<queue, writes, log, refused>>
    BY <1>3 DEF Resets, Quiet
  <2>2. ASSUME NEW u \in Users PROVE Overtaken(u)' /\ OneDocument(u)' /\ Resent(u)'
    <3>1. Overtaken(u) /\ OneDocument(u) /\ Resent(u)
      BY DEF OrderInv
    <3>2. Overtaken(u)'
      BY <2>1, <3>1 DEF Overtaken, Pend
    <3>3. OneDocument(u)'
      BY <2>1, <3>1 DEF OneDocument
    <3>4. Resent(u)'
      BY <2>1, <3>1 DEF Resent, Pend
    <3> QED  BY <3>2, <3>3, <3>4
  <2> QED  BY <2>1, <2>2 DEF OrderInv
<1> QED  BY <1>1, <1>2, <1>3, OrderAdds, OrderDrops DEF WritingStep

\* With nothing of it pending, the newest version of a note this device has made is
\* of its last call the server has not refused.
LEMMA LastCall ==
    ASSUME Types, OrderInv
    PROVE  LastCallWins
<1> SUFFICES ASSUME NEW u \in Users, NEW id \in NoteIds
             PROVE  LET pending == {k \in 1..Len(queue[u]) :
                                       queue[u][k].u = u /\ queue[u][k].id = id}
                        own == {v \in 1..Len(log) :
                                   /\ log[v].q = u /\ log[v].u = u /\ log[v].id = id
                                   /\ log[v].b \notin refused}
                    IN  pending = {} /\ own # {} =>
                           \A v \in own : log[v].b <= log[Max(own)].b
  BY Zenon DEF LastCallWins
<1> DEFINE own == {v \in 1..Len(log) :
                      /\ log[v].q = u /\ log[v].u = u /\ log[v].id = id
                      /\ log[v].b \notin refused}
           last == Max(own)
<1> SUFFICES ASSUME \A k \in 1..Len(queue[u]) : ~(queue[u][k].u = u /\ queue[u][k].id = id),
                    NEW v \in own
             PROVE  log[v].b <= log[last].b
  OBVIOUS
<1>1. Len(log) \in Nat /\ own \subseteq 0..Len(log) /\ own # {}
  BY LogTypes
<1> HIDE DEF own
<1>2. last \in own /\ \A x \in own : last >= x
  BY <1>1, MaxFacts
<1> HIDE DEF last
<1>3. /\ v \in 1..Len(log) /\ last \in 1..Len(log)
      /\ log[v].q = u /\ log[v].u = u /\ log[v].id = id
      /\ log[v].b \notin refused /\ log[last].q = u
      /\ log[v].b \in Nat /\ log[last].b \in Nat
  BY <1>2, LogTypes DEF own
<1>4. ASSUME log[v].b > log[last].b PROVE FALSE
  <2>1. v < last
    <3>1. v # last
      BY <1>3, <1>4
    <3> QED  BY <1>2, <1>3, <3>1
  <2>2. ~Pend(u, log[v].b)
    BY <1>3 DEF Pend, OrderInv, OneDocument
  <2>3. PICK x \in last..Len(log) : log[x].q = u /\ log[x].b = log[v].b
    BY <1>3, <1>4, <2>1, <2>2 DEF OrderInv, Resent
  <2>4. x \in 1..Len(log) /\ x >= last
    BY <1>1, <1>3, <2>3
  <2>5. log[x].u = u /\ log[x].id = id
    BY <1>3, <2>3, <2>4 DEF OrderInv, OneDocument
  <2>6. x \in own
    BY <1>3, <2>3, <2>4, <2>5 DEF own
  <2>7. x = last
    BY <1>2, <1>3, <2>4, <2>6
  <2> QED  BY <1>3, <1>4, <2>3, <2>7
<1> QED  BY <1>3, <1>4

-----------------------------------------------------------------------------
(* The cache *)

\* An entry is the server's version of the document it is cached under, or empty
\* when all that is known is that an update of it succeeded.
Right(entry, u, id) ==
    /\ entry.ver \in 0..Len(log)
    /\ entry.text = IF entry.state # "unknown" THEN TextOf(entry.ver) ELSE Absent
    /\ entry.ver > 0 => log[entry.ver].u = u /\ log[entry.ver].id = id

CacheInv == \A u \in Users, id \in NoteIds : Right(cache[u][id], u, id)

LEMMA CacheInvFacts ==
    ASSUME CacheInv
    PROVE  /\ CacheIsServerVersion
           /\ \A u \in Users, id \in NoteIds : cache[u][id].ver \in 0..Len(log)
    BY DEF CacheInv, CacheIsServerVersion, Right

LEMMA CacheInit == ASSUME Init PROVE CacheInv
<1>1. \A u \in Users, id \in NoteIds : cache[u][id] = NoEntry
  BY DEF Init
<1>2. Len(log) = 0
  BY DEF Init
<1> QED  BY <1>1, <1>2 DEF CacheInv, Right, NoEntry, TextOf

LEMMA CacheKept ==
    ASSUME [Next]_vars, ~MutationResult, ~WatchSnapshot
    PROVE  UNCHANGED cache
<1> USE DEF localData
<1>1. CASE \/ \E id \in NoteIds, text \in Details : SetData(id, text) \/ UpdateData(id, text)
           \/ \E id \in NoteIds : DeleteDocument(id)
           \/ WriteStreamOpens \/ ServerCommits
           \/ WriteRefused \/ WriteStreamCloses \/ UNCHANGED vars
  BY <1>1 DEF SetData, UpdateData, DeleteDocument, WriteMutations, WriteStreamOpens,
              ServerCommits, WriteRefused, WriteStreamCloses, vars
<1>2. CASE \/ GetDocuments \/ WatchStreamOpens \/ WatchStreamCloses
           \/ OnlineStateTimeout \/ WatchMessage
           \/ \E u \in Users : ServerSendsSnapshot(u) \/ TargetError(u) \/ RaiseEvent(u)
  BY <1>2 DEF GetDocuments, WatchStreamOpens, WatchStreamCloses, OnlineStateTimeout,
              WatchMessage, ServerSendsSnapshot, TargetError, RaiseEvent
<1>3. CASE \/ MainQueueRuns \/ ConnectivityChange \/ Terminate
           \/ \E u \in Accounts : CredentialChange(u)
           \/ \E u \in Users, id \in NoteIds, text \in Texts : OtherDevice(u, id, text)
  BY <1>3 DEF MainQueueRuns, TakeAnswer, TakeWritten, TakeCredential, ConnectivityChange,
              Terminate, CredentialChange, OtherDevice
<1> QED  BY <1>1, <1>2, <1>3 DEF Next

\* What a write stream's result makes of an entry.
LEMMA AcknowledgedFacts ==
    ASSUME Types, NEW entry \in Entries, NEW batch \in Batches, NEW v \in 1..Len(log),
           Right(entry, batch.u, batch.id), Of(log[v], batch),
           batch.op = "delete" => batch.text = Absent
    PROVE  /\ Right(acknowledged(entry, batch, v), batch.u, batch.id)
           /\ acknowledged(entry, batch, v).ver >= entry.ver
<1>1. v \in Nat /\ entry.ver \in Nat /\ v # 0 /\ v \in 0..Len(log)
  BY DEF Entries
<1>2. TextOf(v) = batch.text
  BY <1>1 DEF TextOf, Of
<1>3. batch.op \in {"set", "update", "delete"}
  BY DEF Batches
<1>4. LET c == committed(entry, batch, v)
      IN  c.ver = v /\ c.text = IF c.state # "unknown" THEN batch.text ELSE Absent
  BY <1>3 DEF committed, mutated
<1>5. Right(committed(entry, batch, v), batch.u, batch.id)
  BY <1>1, <1>2, <1>4 DEF Right, Of
<1>6. committed(entry, batch, v).ver = v
  BY DEF committed
<1> QED  BY <1>1, <1>5, <1>6 DEF acknowledged

\* What a snapshot makes of one.
LEMMA PopulatedFacts ==
    ASSUME Types, NEW entry \in Entries, NEW u, NEW id, NEW n \in 0..Len(log),
           Right(entry, u, id)
    PROVE  /\ Right(populated(entry, VersionAt(u, id, n)), u, id)
           /\ populated(entry, VersionAt(u, id, n)).ver >= entry.ver
<1> DEFINE v == VersionAt(u, id, n)
<1>1. Len(log) \in Nat
  BY LogTypes
<1>2. v \in 0..n /\ (v = 0 \/ (log[v].u = u /\ log[v].id = id))
  BY <1>1, VersionAtFacts
<1> HIDE DEF v
<1>3. v \in 0..Len(log) /\ v \in Nat /\ entry.ver \in Nat
  BY <1>1, <1>2 DEF Entries
<1>4. LET c == [ver |-> v, text |-> TextOf(v), state |-> "synced"]
      IN  Right(c, u, id) /\ c.ver = v
  BY <1>2, <1>3 DEF Right
<1>5. Right(populated(entry, v), u, id) /\ populated(entry, v).ver >= entry.ver
  BY <1>3, <1>4 DEF populated
<1> QED  BY <1>5 DEF v

LEMMA CacheStep ==
    ASSUME Types, Types', QueueInv, ResultsInv, CacheInv, [Next]_vars, WritingStep
    PROVE  /\ CacheInv'
           /\ \A u \in Users, id \in NoteIds : cache'[u][id].ver >= cache[u][id].ver
<1>1. \A u \in Users, id \in NoteIds :
         cache[u][id] \in Entries /\ Right(cache[u][id], u, id)
  BY DEF Types, CacheInv
<1>2. CASE MutationResult
  <2> DEFINE batch == queue[engineUser][1]
             v == results[1]
  <2>1. /\ results # <<>> /\ Head(Pipeline) = batch /\ Drops /\ UNCHANGED log
        /\ results \in Seq(Nat) /\ engineUser \in Accounts
    BY <1>2, MutationFacts DEF ResultsInv, Drops, Types
  <2>2. 1 \in 1..Len(results) /\ Head(results) = v
    BY <2>1, TailFacts
  <2>3. 1 \in 1..Len(queue[engineUser])
    BY <2>1, DropsFacts
  <2>4. batch \in Batches /\ (batch.op = "delete" => batch.text = Absent)
    BY <2>1, <2>3, QueueTypes DEF QueueInv
  <2>5. v \in 1..Len(log) /\ Of(log[v], batch)
    BY <2>2 DEF ResultsInv
  <2>6. cache' = [cache EXCEPT ![batch.u][batch.id] = acknowledged(@, batch, v)]
    BY <1>2, <2>1, <2>2 DEF MutationResult
  <2> HIDE DEF batch, v
  <2>7. batch.u \in Users /\ batch.id \in NoteIds
    BY <2>4 DEF Batches
  <2>8. ASSUME NEW u \in Users, NEW id \in NoteIds
        PROVE  Right(cache'[u][id], u, id) /\ cache'[u][id].ver >= cache[u][id].ver
    <3>1. CASE u = batch.u /\ id = batch.id
      <4>1. cache'[u][id] = acknowledged(cache[u][id], batch, v)
        BY <2>6, <2>7, <3>1 DEF Types
      <4> QED  BY <1>1, <2>4, <2>5, <3>1, <4>1, AcknowledgedFacts
    <3>2. CASE ~(u = batch.u /\ id = batch.id)
      <4>1. cache'[u][id] = cache[u][id]
        BY <2>6, <2>7, <3>2 DEF Types
      <4>2. cache[u][id].ver \in Nat
        BY <1>1 DEF Entries
      <4> QED  BY <1>1, <4>1, <4>2
    <3> QED  BY <3>1, <3>2
  <2>9. \A u \in Users, id \in NoteIds : Right(cache[u][id], u, id)'
    BY <2>1, <2>8 DEF Right, TextOf
  <2> QED  BY <2>8, <2>9 DEF CacheInv
<1>3. CASE WatchSnapshot
  <2>1. UNCHANGED log
    BY <1>3 DEF WatchSnapshot, server
  <2>2. inflight.at \in 0..Len(log)
    <3>1. inflight.at \in Nat
      BY DEF Types
    <3> QED  BY <3>1, LogTypes DEF ResultsInv, StreamsFit
  <2>3. cache' = [cache EXCEPT ![inflight.u] =
                    [id \in NoteIds |->
                       populated(cache[inflight.u][id],
                                 VersionAt(inflight.u, id, inflight.at))]]
    BY <1>3 DEF WatchSnapshot
  <2>4. ASSUME NEW u \in Users, NEW id \in NoteIds
        PROVE  Right(cache'[u][id], u, id) /\ cache'[u][id].ver >= cache[u][id].ver
    <3>1. CASE u = inflight.u
      <4>1. cache'[u][id] = populated(cache[u][id], VersionAt(u, id, inflight.at))
        BY <2>3, <3>1 DEF Types
      <4> QED  BY <1>1, <2>2, <4>1, PopulatedFacts
    <3>2. CASE u # inflight.u
      <4>1. cache'[u][id] = cache[u][id]
        BY <2>3, <3>2 DEF Types
      <4>2. cache[u][id].ver \in Nat
        BY <1>1 DEF Entries
      <4> QED  BY <1>1, <4>1, <4>2
    <3> QED  BY <3>1, <3>2
  <2>5. \A u \in Users, id \in NoteIds : Right(cache[u][id], u, id)'
    BY <2>1, <2>4 DEF Right, TextOf
  <2> QED  BY <2>4, <2>5 DEF CacheInv
<1>4. CASE ~MutationResult /\ ~WatchSnapshot
  <2>1. UNCHANGED cache
    BY <1>4, CacheKept
  <2>2. /\ Len(log) \in Nat /\ Len(log') \in Nat /\ Len(log') >= Len(log)
        /\ \A v \in 1..Len(log) : log'[v] = log[v]
    <3>1. UNCHANGED log \/ \E e \in Versions : Grows(e)
      BY CommitFacts, OtherDeviceFacts, MutationFacts, RefusalFacts
         DEF ResultsInv, WritingStep, Adds, Drops, Resets, Quiet
    <3>2. CASE UNCHANGED log
      BY <3>2, LogTypes
    <3>3. ASSUME NEW e \in Versions, Grows(e)
          PROVE  /\ Len(log) \in Nat /\ Len(log') = Len(log) + 1
                 /\ \A v \in 1..Len(log) : log'[v] = log[v]
      BY <3>3, GrowsFacts
    <3> QED  BY <3>1, <3>2, <3>3
  <2>3. ASSUME NEW u \in Users, NEW id \in NoteIds
        PROVE  Right(cache[u][id], u, id)' /\ cache[u][id].ver >= cache[u][id].ver
    <3>1. cache[u][id].ver \in Nat
      BY <1>1 DEF Entries
    <3>2. cache[u][id].ver \in 1..Len(log) => log'[cache[u][id].ver] = log[cache[u][id].ver]
      BY <2>2
    <3> QED  BY <1>1, <2>1, <2>2, <3>1, <3>2 DEF Right, TextOf
  <2> QED  BY <2>1, <2>3 DEF CacheInv
<1> QED  BY <1>2, <1>3, <1>4

-----------------------------------------------------------------------------
(* No write is lost *)

Accounted(b) ==
    \/ \E u \in Accounts : Pend(u, b)
    \/ Committed(b)
    \/ b \in refused

Truthful(closure) ==
    closure.kind = "written" =>
        IF closure.ok THEN Committed(closure.b) ELSE closure.b \in refused

SurvivalInv ==
    /\ \A b \in 1..writes : Accounted(b)
    /\ \A k \in 1..Len(mainQueue) : Truthful(mainQueue[k])

LEMMA SurvivalFacts ==
    ASSUME SurvivalInv
    PROVE  WritesSurvive
    BY DEF SurvivalInv, WritesSurvive, Accounted, Truthful, Pend

LEMMA SurvivalInit == ASSUME Init PROVE SurvivalInv
<1>1. \A b \in 1..writes : FALSE
  BY DEF Init
<1>2. \A k \in 1..Len(mainQueue) : FALSE
  BY DEF Init
<1> QED  BY <1>1, <1>2, Zenon DEF SurvivalInv

\* What the server has and what it has refused stays so.
LEMMA ServerKeeps ==
    ASSUME Types, QueueInv, ResultsInv, WritingStep
    PROVE  /\ \A b : Committed(b) => Committed(b)'
           /\ refused \subseteq refused'
<1>1. ASSUME NEW e \in Versions, Grows(e) PROVE \A b : Committed(b) => Committed(b)'
  <2>1. \A v \in 1..Len(log) : v \in 1..Len(log') /\ log'[v] = log[v]
    BY <1>1, GrowsFacts
  <2> QED  BY <2>1 DEF Committed
<1>2. UNCHANGED log => \A b : Committed(b) => Committed(b)'
  BY DEF Committed
<1>3. UNCHANGED log \/ \E e \in Versions : Grows(e)
  BY CommitFacts, OtherDeviceFacts, MutationFacts, RefusalFacts
     DEF ResultsInv, WritingStep, Adds, Drops, Resets, Quiet
<1>4. refused \subseteq refused'
  BY CommitFacts, OtherDeviceFacts, MutationFacts, RefusalFacts
     DEF ResultsInv, WritingStep, Adds, Grows, Resets, Quiet
<1> QED  BY <1>1, <1>2, <1>3, <1>4

\* A batch that leaves its queue has been committed or refused.
LEMMA OldestAccounted ==
    ASSUME Types, QueueInv, ResultsInv
    PROVE  /\ MutationResult => Committed(queue[engineUser][1].b)
           /\ WriteRefused => queue[engineUser][1].b \in refused'
<1>1. ASSUME MutationResult PROVE Committed(queue[engineUser][1].b)
  <2>1. results # <<>> /\ results \in Seq(Nat)
    BY <1>1, MutationFacts DEF ResultsInv, Types
  <2>2. 1 \in 1..Len(results)
    BY <2>1
  <2>3. results[1] \in 1..Len(log) /\ log[results[1]].b = queue[engineUser][1].b
    BY <2>2 DEF ResultsInv, Of
  <2> QED  BY <2>3 DEF Committed
<1> QED  BY <1>1, RefusalFacts

LEMMA AccountedStep ==
    ASSUME Types, QueueInv, ResultsInv, WritingStep,
           NEW b \in 1..writes', b \in 1..writes => Accounted(b)
    PROVE  Accounted(b)'
<1>1. engineUser \in Accounts /\ writes \in Nat
  BY DEF Types
<1>2. ASSUME NEW batch \in Batches, Adds(batch) PROVE Accounted(b)'
  <2>1. writes' = writes + 1 /\ batch.b = writes + 1
    BY <1>2 DEF Adds
  <2>2. CASE b = writes + 1
    <3>1. Len(queue[engineUser]) + 1 \in 1..Len(queue'[engineUser])
      BY <1>2, AddsFacts
    <3>2. queue'[engineUser][Len(queue[engineUser]) + 1].b = b
      BY <1>2, <2>1, <2>2, AddsFacts
    <3> QED  BY <1>1, <3>1, <3>2 DEF Accounted, Pend
  <2>3. CASE b \in 1..writes
    <3>1. \A u \in Accounts : \A k \in 1..Len(queue[u]) :
             k \in 1..Len(queue'[u]) /\ queue'[u][k] = queue[u][k]
      BY <1>2, AddsFacts
    <3>2. \A u \in Accounts : Pend(u, b) => Pend(u, b)'
      BY <3>1 DEF Pend
    <3>3. UNCHANGED <<log, refused>>
      BY <1>2 DEF Adds
    <3> QED  BY <2>3, <3>2, <3>3 DEF Accounted, Committed
  <2> QED  BY <1>1, <2>1, <2>2, <2>3
<1>3. CASE MutationResult \/ WriteRefused
  <2>1. Drops /\ b \in 1..writes
    BY <1>3, MutationFacts, RefusalFacts DEF ResultsInv, Drops
  <2>2. CASE b = queue[engineUser][1].b
    BY <1>3, <2>2, OldestAccounted, ServerKeeps DEF Accounted
  <2>3. CASE b # queue[engineUser][1].b
    <3>1. ASSUME NEW u \in Accounts, NEW k \in 1..Len(queue[u]), queue[u][k].b = b
          PROVE  Pend(u, b)'
      <4>1. CASE u # engineUser
        BY <2>1, <3>1, <4>1, DropsFacts DEF Pend
      <4>2. CASE u = engineUser
        <5>1. k # 1
          BY <2>3, <3>1, <4>2
        <5>2. k - 1 \in 1..(Len(queue[u]) - 1) /\ (k - 1) + 1 = k
          BY <2>1, <4>2, <5>1, DropsFacts
        <5>3. queue'[u][k - 1] = queue[u][k] /\ k - 1 \in 1..Len(queue'[u])
          BY <2>1, <4>2, <5>2, DropsFacts
        <5> QED  BY <3>1, <5>3 DEF Pend
      <4> QED  BY <4>1, <4>2
    <3>2. \A u \in Accounts : Pend(u, b) => Pend(u, b)'
      BY <3>1 DEF Pend
    <3> QED  BY <2>1, <3>2, ServerKeeps DEF Accounted
  <2> QED  BY <2>2, <2>3
<1>4. ASSUME UNCHANGED <<queue, writes>> PROVE Accounted(b)'
  <2>1. \A u \in Accounts : Pend(u, b) => Pend(u, b)'
    BY <1>4 DEF Pend
  <2> QED  BY <1>4, <2>1, ServerKeeps DEF Accounted
<1>5. ServerCommits \/ Resets \/ Quiet => UNCHANGED <<queue, writes>>
  BY DEF ServerCommits, Resets, Quiet, localData
<1>6. (\E u \in Users, id \in NoteIds, text \in Texts : OtherDevice(u, id, text))
         => UNCHANGED <<queue, writes>>
  BY DEF OtherDevice, localData
<1> QED  BY <1>2, <1>3, <1>4, <1>5, <1>6 DEF WritingStep

\* What happens to the main queue.
Written(batch, ok) == [kind |-> "written", id |-> batch.id, b |-> batch.b, ok |-> ok]

LEMMA MainQueueSteps ==
    ASSUME Types, StreamsFit, [Next]_vars
    PROVE  \/ mainQueue' = mainQueue
           \/ mainQueue' = <<>>
           \/ mainQueue # <<>> /\ mainQueue' = Tail(mainQueue)
           \/ \E c :
                 /\ mainQueue' = Append(mainQueue, c)
                 /\ \/ c.kind = "answer" /\ \E u \in Users : RaiseEvent(u)
                    \/ c.kind = "credential"
                    \/ MutationResult /\ c = Written(queue[engineUser][1], TRUE)
                    \/ WriteRefused /\ c = Written(queue[engineUser][1], FALSE)
<1> USE DEF calls, localData
<1>1. CASE MutationResult
  <2>1. Head(Pipeline) = queue[engineUser][1]
    BY <1>1, MutationFacts
  <2> QED  BY <1>1, <2>1 DEF MutationResult, NotifyUser, Written
<1>2. CASE WriteRefused
  <2>1. Head(Pipeline) = queue[engineUser][1]
    BY <1>2, RefusalFacts
  <2> QED  BY <1>2, <2>1 DEF WriteRefused, NotifyUser, Written
<1>3. ASSUME NEW u \in Users, RaiseEvent(u)
      PROVE  \E c : mainQueue' = Append(mainQueue, c) /\ c.kind = "answer"
  BY <1>3 DEF RaiseEvent
<1>4. ASSUME NEW u \in Accounts, CredentialChange(u)
      PROVE  \E c : mainQueue' = Append(mainQueue, c) /\ c.kind = "credential"
  BY <1>4 DEF CredentialChange
<1>5. CASE MainQueueRuns \/ Terminate
  BY <1>5 DEF MainQueueRuns, Terminate
<1>6. CASE \/ \E id \in NoteIds, text \in Details : SetData(id, text) \/ UpdateData(id, text)
           \/ \E id \in NoteIds : DeleteDocument(id)
           \/ WriteStreamOpens \/ ServerCommits \/ WriteStreamCloses \/ UNCHANGED vars
           \/ \E u \in Users, id \in NoteIds, text \in Texts : OtherDevice(u, id, text)
  BY <1>6 DEF SetData, UpdateData, DeleteDocument, WriteMutations, WriteStreamOpens,
              ServerCommits, WriteStreamCloses, OtherDevice, vars
<1>7. CASE \/ GetDocuments \/ WatchStreamOpens \/ WatchStreamCloses
           \/ OnlineStateTimeout \/ WatchMessage \/ WatchSnapshot \/ ConnectivityChange
           \/ \E u \in Users : ServerSendsSnapshot(u) \/ TargetError(u)
  BY <1>7 DEF GetDocuments, WatchStreamOpens, WatchStreamCloses, OnlineStateTimeout,
              WatchMessage, WatchSnapshot, ConnectivityChange, ServerSendsSnapshot, TargetError
<1> QED  BY <1>1, <1>2, <1>3, <1>4, <1>5, <1>6, <1>7, Zenon DEF Next

LEMMA SurvivalStep ==
    ASSUME Types, QueueInv, ResultsInv, SurvivalInv, [Next]_vars, WritingStep
    PROVE  SurvivalInv'
<1>1. \A b \in 1..writes' : Accounted(b)'
  BY AccountedStep DEF SurvivalInv
<1>2. mainQueue \in Seq(Closures)
  BY DEF Types
<1>3. ASSUME NEW c, Truthful(c) PROVE Truthful(c)'
  BY <1>3, ServerKeeps DEF Truthful
<1>4. \A k \in 1..Len(mainQueue) : Truthful(mainQueue[k])
  BY DEF SurvivalInv
<1>5. \A k \in 1..Len(mainQueue') : Truthful(mainQueue[k])'
  <2>1. CASE mainQueue' = mainQueue
    BY <1>3, <1>4, <2>1 DEF Truthful
  <2>2. CASE mainQueue' = <<>>
    BY <2>2
  <2>3. CASE mainQueue # <<>> /\ mainQueue' = Tail(mainQueue)
    <3>1. ASSUME NEW k \in 1..Len(mainQueue') PROVE Truthful(mainQueue[k])'
      <4>1. k + 1 \in 1..Len(mainQueue) /\ mainQueue'[k] = mainQueue[k + 1]
        BY <1>2, <2>3, TailFacts
      <4>2. \A c : c = mainQueue[k + 1] => Truthful(c)'
        BY <1>3, <1>4, <4>1
      <4> QED  BY <4>1, <4>2 DEF Truthful
    <3> QED  BY <3>1
  <2>4. ASSUME NEW c, mainQueue' = Append(mainQueue, c),
               \/ c.kind \in {"answer", "credential"}
               \/ MutationResult /\ c = Written(queue[engineUser][1], TRUE)
               \/ WriteRefused /\ c = Written(queue[engineUser][1], FALSE)
        PROVE  \A k \in 1..Len(mainQueue') : Truthful(mainQueue[k])'
    <3>1. Truthful(c)'
      <4>1. CASE c.kind \in {"answer", "credential"}
        BY <4>1 DEF Truthful
      <4>2. CASE MutationResult /\ c = Written(queue[engineUser][1], TRUE)
        <5>1. c.ok = TRUE /\ c.b = queue[engineUser][1].b
          BY <4>2 DEF Written
        <5>2. Committed(queue[engineUser][1].b)
          BY <4>2, OldestAccounted
        <5>3. Committed(c.b)'
          BY <5>1, <5>2, ServerKeeps
        <5> QED  BY <5>1, <5>3 DEF Truthful
      <4>3. CASE WriteRefused /\ c = Written(queue[engineUser][1], FALSE)
        BY <4>3, OldestAccounted DEF Written, Truthful
      <4> QED  BY <2>4, <4>1, <4>2, <4>3
    <3>2. ASSUME NEW k \in 1..Len(mainQueue') PROVE Truthful(mainQueue[k])'
      <4>1. CASE k \in 1..Len(mainQueue)
        <5>1. mainQueue'[k] = mainQueue[k]
          BY <1>2, <2>4, <4>1, AppendAny
        <5>2. \A d : d = mainQueue[k] => Truthful(d)'
          BY <1>3, <1>4, <4>1
        <5> QED  BY <5>1, <5>2 DEF Truthful
      <4>2. CASE k = Len(mainQueue) + 1
        <5>1. mainQueue'[k] = c
          BY <1>2, <2>4, <4>2, AppendAny
        <5> QED  BY <3>1, <5>1 DEF Truthful
      <4>3. k \in 1..(Len(mainQueue) + 1) /\ Len(mainQueue) \in Nat
        BY <1>2, <2>4, AppendAny
      <4> QED  BY <4>1, <4>2, <4>3
    <3> QED  BY <3>2
  <2>5. StreamsFit
    BY DEF ResultsInv
  <2> QED  BY <2>1, <2>2, <2>3, <2>4, <2>5, MainQueueSteps
<1> QED  BY <1>1, <1>5 DEF SurvivalInv

-----------------------------------------------------------------------------
(* The completions *)

\* A completion is of a call that was made.
CallbacksInv == \A c \in callbacks : c.b <= writes

LEMMA CallbacksStep ==
    ASSUME Types, CallbacksInv, [Next]_vars
    PROVE  CallbacksInv'
<1> USE DEF calls, localData
<1>1. ASSUME NEW id \in NoteIds, NEW text \in Details, SetData(id, text) PROVE CallbacksInv'
  <2>1. writes' = writes + 1 /\ writes \in Nat
    BY <1>1 DEF SetData, WriteMutations, Batch, Types
  <2>2. \A c \in callbacks' : c \in callbacks \/ c.b = writes + 1
    BY <1>1 DEF SetData
  <2>3. \A c \in callbacks : c.b \in Nat
    BY DEF Types, Callbacks
  <2> QED  BY <2>1, <2>2, <2>3 DEF CallbacksInv
<1>2. ASSUME writes' \in {writes, writes + 1}, callbacks' \subseteq callbacks
      PROVE  CallbacksInv'
  <2>1. writes \in Nat /\ \A c \in callbacks : c.b \in Nat
    BY DEF Types, Callbacks
  <2> QED  BY <1>2, <2>1 DEF CallbacksInv
<1>3. CASE \/ \E id \in NoteIds, text \in Details : UpdateData(id, text)
           \/ \E id \in NoteIds : DeleteDocument(id)
  <2>1. writes' \in {writes, writes + 1} /\ callbacks' \subseteq callbacks
    BY <1>3 DEF UpdateData, DeleteDocument, WriteMutations, Batch
  <2> QED  BY <1>2, <2>1
<1>4. CASE \/ WriteStreamOpens \/ ServerCommits \/ MutationResult \/ WriteRefused
           \/ WriteStreamCloses \/ WatchSnapshot \/ UNCHANGED vars
           \/ \E u \in Users, id \in NoteIds, text \in Texts : OtherDevice(u, id, text)
  <2>1. writes' \in {writes, writes + 1} /\ callbacks' \subseteq callbacks
    BY <1>4 DEF WriteStreamOpens, ServerCommits, MutationResult, WriteRefused,
                NotifyUser, WriteStreamCloses, WatchSnapshot, OtherDevice, vars
  <2> QED  BY <1>2, <2>1
<1>5. CASE \/ GetDocuments \/ WatchStreamOpens \/ WatchStreamCloses
           \/ OnlineStateTimeout \/ WatchMessage
           \/ \E u \in Users : ServerSendsSnapshot(u) \/ TargetError(u) \/ RaiseEvent(u)
  <2>1. writes' \in {writes, writes + 1} /\ callbacks' \subseteq callbacks
    BY <1>5 DEF GetDocuments, WatchStreamOpens, WatchStreamCloses,
                OnlineStateTimeout, WatchMessage, ServerSendsSnapshot, TargetError, RaiseEvent
  <2> QED  BY <1>2, <2>1
<1>6. CASE \/ MainQueueRuns \/ ConnectivityChange \/ Terminate
           \/ \E u \in Accounts : CredentialChange(u)
  <2>1. writes' \in {writes, writes + 1} /\ callbacks' \subseteq callbacks
    BY <1>6 DEF MainQueueRuns, TakeAnswer, TakeWritten, TakeCredential,
                ConnectivityChange, Terminate, CredentialChange
  <2> QED  BY <1>2, <2>1
<1> QED  BY <1>1, <1>3, <1>4, <1>5, <1>6 DEF Next

-----------------------------------------------------------------------------
(* The theorems *)

IInv ==
    /\ Types
    /\ ReadInv
    /\ QueueInv
    /\ ResultsInv
    /\ OrderInv
    /\ CacheInv
    /\ SurvivalInv
    /\ CallbacksInv
    /\ HeldTypes

LEMMA InitIInv == Init => IInv
<1>1. Init => CallbacksInv
  BY DEF Init, CallbacksInv
<1> QED
  BY <1>1, TypesInit, ReadInit, QueueInit, ResultsInit, OrderInit, CacheInit, SurvivalInit,
     HeldInit DEF IInv

LEMMA IInvStep ==
    IInv /\ [Next]_vars => IInv' /\ [\A u \in Users, id \in NoteIds :
                                        cache'[u][id].ver >= cache[u][id].ver]_cache
<1> SUFFICES ASSUME IInv, [Next]_vars
             PROVE  IInv' /\ \A u \in Users, id \in NoteIds :
                                cache'[u][id].ver >= cache[u][id].ver
  OBVIOUS
<1> USE DEF IInv
<1>1. StreamsFit
  BY DEF ResultsInv
<1>2. Types'
  BY <1>1, TypesStep
<1>3. WritingStep
  BY <1>2, WritingSteps
<1>4. ReadInv'
  BY ReadStep
<1>5. QueueInv'
  BY <1>1, <1>3, QueueStep
<1>6. ResultsInv'
  BY <1>2, <1>3, ResultsStep
<1>7. OrderInv'
  BY <1>3, OrderStep
<1>8. /\ CacheInv'
      /\ \A u \in Users, id \in NoteIds : cache'[u][id].ver >= cache[u][id].ver
  BY <1>2, <1>3, CacheStep
<1>9. SurvivalInv'
  BY <1>3, SurvivalStep
<1>10. CallbacksInv'
  BY CallbacksStep
<1>11. HeldTypes'
  BY HeldStep
<1> QED  BY <1>2, <1>4, <1>5, <1>6, <1>7, <1>8, <1>9, <1>10, <1>11

LEMMA Invariance == Spec => []IInv
    BY InitIInv, IInvStep, PTL DEF Spec

LEMMA IInvTypeOK == IInv => TypeOK
<1> SUFFICES ASSUME IInv PROVE TypeOK
  OBVIOUS
<1> USE DEF IInv
<1>1. \A u \in Accounts : ToSet(queue[u]) \subseteq Batches
  BY QueueTypes DEF ToSet
<1>2. cache \in [Users -> [NoteIds -> [ver : 0..Len(log), text : Texts, state : States]]]
  <2>1. \A u \in Users, id \in NoteIds : cache[u][id] \in Entries /\ cache[u][id].ver \in 0..Len(log)
    BY CacheInvFacts DEF Types
  <2>2. \A e \in Entries : e.ver \in 0..Len(log) =>
           e \in [ver : 0..Len(log), text : Texts, state : States]
    BY DEF Entries
  <2>3. cache \in [Users -> [NoteIds -> Entries]]
    BY DEF Types
  <2> QED  BY <2>1, <2>2, <2>3
<1>3. callbacks \subseteq [q : Accounts, b : 1..writes, id : NoteIds]
  <2>1. \A c \in callbacks : c \in Callbacks /\ c.b <= writes
    BY DEF Types, CallbacksInv
  <2>2. \A c \in Callbacks : c.b <= writes => c \in [q : Accounts, b : 1..writes, id : NoteIds]
    <3>1. writes \in Nat
      BY DEF Types
    <3> QED  BY <3>1 DEF Callbacks
  <2> QED  BY <2>1, <2>2
<1>4. results # <<>> => writeOpen /\ Len(results) <= Len(Pipeline)
  BY PipelineOfResults DEF ResultsInv, StreamsFit
<1>5. /\ user \in Accounts /\ engineUser \in Accounts
      /\ loads \in 0..MaxLoads /\ writes \in 0..MaxWrites /\ changes \in 0..MaxChanges
      /\ owner \in [NoteIds -> Accounts]
      /\ views \in [Users -> {NoView, "local", "synced", "failed"}]
      /\ held \in [Users -> Docs]
      /\ online \in {"Unknown", "Online", "Offline"}
      /\ timer \in BOOLEAN /\ failed \in BOOLEAN /\ writeOpen \in BOOLEAN
      /\ watch \in {"stopped", "starting", "open"}
  BY DEF Types, HeldTypes
<1>6. /\ \A u \in Users : (views[u] = NoView) <=> (listeners[u] = <<>>)
      /\ Targets(views) # {} => watch # "stopped"
      /\ inflight # Nothing => watch = "open" /\ inflight.u \in Targets(views)
  BY DEF ReadInv
<1> QED  BY <1>1, <1>2, <1>3, <1>4, <1>5, <1>6 DEF TypeOK

\* Whatever the accounts, the notes and the bounds: the types; a query is watched
\* exactly while somebody listens to it, the watch stream is started whenever one is,
\* and the results on the write stream are of batches that were sent.
THEOREM TypeCorrect == Spec => []TypeOK
    BY Invariance, IInvTypeOK, PTL

\* The assertions OnlineStateTracker makes of itself hold in every order of the
\* stream's events, the timer, the connectivity monitor and the end of the last read.
THEOREM TrackerIsConsistent == Spec => []TrackerAssertions
<1>1. IInv => TrackerAssertions
  BY DEF IInv, ReadInv
<1> QED  BY <1>1, Invariance, PTL

\* Every setData, updateData and delete is in a queue, committed or refused, and the
\* completion reports what became of it, through lost results, retries, changes of
\* user and restarts.
THEOREM NoWriteIsLost == Spec => []WritesSurvive
<1>1. IInv => WritesSurvive
  BY SurvivalFacts DEF IInv
<1> QED  BY <1>1, Invariance, PTL

\* A batch committed again after its result was lost never ends up over a younger one.
THEOREM TheLastCallWins == Spec => []LastCallWins
<1>1. IInv => LastCallWins
  BY LastCall DEF IInv
<1> QED  BY <1>1, Invariance, PTL

\* Whichever stream brought it, a cached document is the server's at its version.
THEOREM CacheIsOfTheServer == Spec => []CacheIsServerVersion
<1>1. IInv => CacheIsServerVersion
  BY CacheInvFacts DEF IInv
<1> QED  BY <1>1, Invariance, PTL

\* The cache never goes back: ApplyBatchResult and PopulateDocumentChanges each look
\* at the version they find.
THEOREM CacheGoesForward == Spec => CacheMovesForward
    BY Invariance, IInvStep, PTL DEF Spec, CacheMovesForward

=============================================================================
