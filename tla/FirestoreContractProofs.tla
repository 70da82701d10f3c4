----------------------- MODULE FirestoreContractProofs -----------------------
(***************************************************************************)
(* Firestore implements NoteCollection: what NoteList is written against.  *)
(*                                                                         *)
(* The refinement mapping is that of Contract in Firestore.  Its store and *)
(* its main queue are recursive functions of the state, so the first part  *)
(* is about what they do when a batch or a closure comes or goes.  Then    *)
(* four more parts of the invariant: OwnerInv (a UUID has one account),    *)
(* HeldInv (what a View holds back is still a document), AddsInv (a UUID   *)
(* has one completion) and LoadsInv (a read has one listener and one       *)
(* answer).  Then each action is shown to be a step of the contract, or    *)
(* none.                                                                   *)
(***************************************************************************)
EXTENDS FirestoreProofs

-----------------------------------------------------------------------------
(* The recursive functions *)

\* Induction up to N, on a set.
LEMMA InductionTo ==
    ASSUME NEW N \in Nat, NEW S, 0 \in S, \A k \in 1..N : k - 1 \in S => k \in S
    PROVE  0..N \subseteq S
<1> DEFINE D == {n \in Nat : n <= N => n \in S}
<1>1. 0 \in D
  OBVIOUS
<1>2. ASSUME NEW n \in D, n \in Nat PROVE n + 1 \in D
  <2>1. CASE n + 1 <= N
    <3>1. n + 1 \in 1..N /\ (n + 1) - 1 = n /\ n \in S
      BY <1>2, <2>1
    <3>2. n + 1 \in S
      BY <3>1
    <3> QED  BY <1>2, <3>2
  <2>2. CASE ~(n + 1 <= N)
    BY <1>2, <2>2
  <2> QED  BY <2>1, <2>2
<1> HIDE DEF D
<1>3. Nat \subseteq D
  BY <1>1, <1>2, SetInduction
<1> QED  BY <1>3 DEF D

\* The documents do not depend on batches that come later.
LEMMA LaidOverAppend ==
    ASSUME NEW text \in Texts, NEW u, NEW id, NEW q \in Seq(Batches), NEW batch \in Batches
    PROVE  laidOver(text, u, id, Append(q, batch))[Len(q) + 1] =
              IF batch.u = u /\ batch.id = id
              THEN mutated(laidOver(text, u, id, q)[Len(q)], batch)
              ELSE laidOver(text, u, id, q)[Len(q)]
<1> DEFINE p == Append(q, batch)
           f == laidOver(text, u, id, q)
           g == laidOver(text, u, id, p)
           S == {k \in 0..Len(q) : g[k] = f[k]}
<1>1. /\ p \in Seq(Batches) /\ Len(p) = Len(q) + 1 /\ Len(q) \in Nat
      /\ p[Len(q) + 1] = batch
      /\ \A k \in 1..Len(q) : p[k] = q[k]
  BY AppendFacts
<1>2. /\ f[0] = text
      /\ \A k \in 1..Len(q) : f[k] = IF q[k].u = u /\ q[k].id = id
                                     THEN mutated(f[k - 1], q[k]) ELSE f[k - 1]
  BY LaidOverFacts
<1> HIDE DEF p
<1>3. /\ g[0] = text
      /\ \A k \in 1..(Len(q) + 1) : g[k] = IF p[k].u = u /\ p[k].id = id
                                           THEN mutated(g[k - 1], p[k]) ELSE g[k - 1]
  <2>1. /\ g[0] = text
        /\ \A k \in 1..Len(p) : g[k] = IF p[k].u = u /\ p[k].id = id
                                       THEN mutated(g[k - 1], p[k]) ELSE g[k - 1]
    BY <1>1, LaidOverFacts
  <2> HIDE DEF g
  <2> QED  BY <1>1, <2>1
<1> HIDE DEF f, g
<1>4. 0 \in S
  BY <1>1, <1>2, <1>3
<1>5. ASSUME NEW k \in 1..Len(q), k - 1 \in S PROVE k \in S
  <2>1. k \in 1..(Len(q) + 1) /\ g[k - 1] = f[k - 1] /\ p[k] = q[k] /\ k \in 0..Len(q)
    BY <1>1, <1>5
  <2> QED  BY <1>2, <1>3, <2>1
<1> HIDE DEF S
<1>6. 0..Len(q) \subseteq S
  BY <1>1, <1>4, <1>5, InductionTo
<1>7. g[Len(q)] = f[Len(q)]
  BY <1>1, <1>6 DEF S
<1>8. Len(q) + 1 \in 1..(Len(q) + 1) /\ (Len(q) + 1) - 1 = Len(q)
  BY <1>1
<1>9. g[Len(q) + 1] = IF batch.u = u /\ batch.id = id
                      THEN mutated(f[Len(q)], batch) ELSE f[Len(q)]
  BY <1>1, <1>3, <1>7, <1>8
<1> QED  BY <1>9 DEF f, g, p

\* Batches of other documents leave a document as it is.
LEMMA LaidOverOthers ==
    ASSUME NEW text \in Texts, NEW u, NEW id, NEW q \in Seq(Batches),
           \A k \in 1..Len(q) : ~(q[k].u = u /\ q[k].id = id)
    PROVE  laidOver(text, u, id, q)[Len(q)] = text
<1> DEFINE f == laidOver(text, u, id, q)
           S == {k \in 0..Len(q) : f[k] = text}
<1>1. /\ Len(q) \in Nat /\ f[0] = text
      /\ \A k \in 1..Len(q) : f[k] = IF q[k].u = u /\ q[k].id = id
                                     THEN mutated(f[k - 1], q[k]) ELSE f[k - 1]
  BY LaidOverFacts
<1> HIDE DEF f
<1>2. 0 \in S /\ \A k \in 1..Len(q) : k - 1 \in S => k \in S
  BY <1>1
<1> HIDE DEF S
<1>3. 0..Len(q) \subseteq S
  BY <1>1, <1>2, InductionTo
<1>4. f[Len(q)] = text
  BY <1>1, <1>3 DEF S
<1> QED  BY <1>4 DEF f

Answers == [read : Reads, ok : BOOLEAN, docs : Docs]

LEMMA AnswerType ==
    ASSUME NEW c \in Closures, IsAnswer(c)
    PROVE  AnswerOf(c) \in Answers
    BY DEF IsAnswer, AnswerOf, Answers, Closures

\* The recursion of answersAmong has a solution, and its values are sequences of answers.
LEMMA AnswersFacts ==
    ASSUME NEW q \in Seq(Closures)
    PROVE  LET upTo == answersAmong(q)
           IN  /\ upTo \in [0..Len(q) -> Seq(Answers)]
               /\ upTo[0] = <<>>
               /\ \A k \in 1..Len(q) :
                     upTo[k] = IF IsAnswer(q[k]) THEN Append(upTo[k - 1], AnswerOf(q[k]))
                                                 ELSE upTo[k - 1]
<1> DEFINE N == Len(q)
           body(f) == [k \in 0..N |->
                          IF k = 0 THEN <<>>
                          ELSE IF IsAnswer(q[k]) THEN Append(f[k - 1], AnswerOf(q[k]))
                                                 ELSE f[k - 1]]
           g == [k \in 1..N |->
                    [t \in Seq(Answers) |-> IF IsAnswer(q[k]) THEN Append(t, AnswerOf(q[k]))
                                                              ELSE t]]
           upTo == answersAmong(q)
<1>1. N \in Nat /\ \A k \in 1..N : q[k] \in Closures
  OBVIOUS
<1>2. g \in [1..N -> [Seq(Answers) -> Seq(Answers)]]
  BY <1>1, AnswerType, AppendFacts
<1> HIDE DEF g
<1>3. PICK h : FoldOf(h, Seq(Answers), N, <<>>, g)
  <2>1. <<>> \in Seq(Answers)
    OBVIOUS
  <2>2. HasFold(Seq(Answers), N, <<>>, g)
    BY <1>1, <1>2, <2>1, FoldExists
  <2> QED  BY <2>2 DEF HasFold
<1>4. h = body(h)
  <2>1. \A k \in 1..N : k - 1 \in 0..N
    BY <1>1
  <2>2. \A k \in 1..N : h[k] = IF IsAnswer(q[k]) THEN Append(h[k - 1], AnswerOf(q[k]))
                                                 ELSE h[k - 1]
    BY <1>3, <2>1 DEF FoldOf, g
  <2> HIDE DEF N
  <2>3. \A k \in 0..N : k = 0 \/ k \in 1..N
    BY <1>1
  <2>4. h = [k \in 0..N |-> h[k]]
    BY <1>3 DEF FoldOf
  <2>5. \A k \in 0..N : h[k] = body(h)[k]
    BY <1>3, <2>2, <2>3 DEF FoldOf
  <2> QED  BY <2>4, <2>5
<1>5. upTo = body(upTo)
  BY <1>4, Zenon DEF answersAmong
<1> HIDE DEF upTo, N
<1>6. DOMAIN upTo = 0..N /\ upTo[0] = <<>>
  BY <1>1, <1>5
<1>7. \A k \in 1..N : upTo[k] = IF IsAnswer(q[k]) THEN Append(upTo[k - 1], AnswerOf(q[k]))
                                                  ELSE upTo[k - 1]
  <2>1. \A k \in 1..N : k \in 0..N /\ k # 0
    BY <1>1
  <2> QED  BY <1>5, <2>1
<1> DEFINE S == {n \in 0..N : upTo[n] \in Seq(Answers)}
<1>8. 0 \in S
  <2>1. <<>> \in Seq(Answers) /\ 0 \in 0..N
    BY <1>1
  <2> QED  BY <1>6, <2>1
<1>9. ASSUME NEW k \in 1..N, k - 1 \in S PROVE k \in S
  <2>1. upTo[k - 1] \in Seq(Answers) /\ k \in 0..N /\ q[k] \in Closures
    BY <1>1, <1>9
  <2>2. IsAnswer(q[k]) => Append(upTo[k - 1], AnswerOf(q[k])) \in Seq(Answers)
    BY <2>1, AnswerType, AppendFacts
  <2> QED  BY <1>7, <2>1, <2>2
<1> HIDE DEF S
<1>10. 0..N \subseteq S
  BY <1>1, <1>8, <1>9, InductionTo
<1>11. upTo \in [0..N -> Seq(Answers)]
  <2>1. upTo = [k \in 0..N |-> upTo[k]]
    BY <1>5
  <2> QED  BY <1>10, <2>1 DEF S
<1> QED  BY <1>6, <1>7, <1>11 DEF upTo, N

AnswersOf(q) == answersAmong(q)[Len(q)]

LEMMA AnswersOfAppend ==
    ASSUME NEW q \in Seq(Closures), NEW c \in Closures
    PROVE  AnswersOf(Append(q, c)) = IF IsAnswer(c) THEN Append(AnswersOf(q), AnswerOf(c))
                                                    ELSE AnswersOf(q)
<1> DEFINE p == Append(q, c)
           f == answersAmong(q)
           g == answersAmong(p)
           S == {k \in 0..Len(q) : g[k] = f[k]}
<1>1. /\ p \in Seq(Closures) /\ Len(p) = Len(q) + 1 /\ Len(q) \in Nat
      /\ p[Len(q) + 1] = c
      /\ \A k \in 1..Len(q) : p[k] = q[k]
  BY AppendFacts
<1>2. /\ f[0] = <<>>
      /\ \A k \in 1..Len(q) : f[k] = IF IsAnswer(q[k]) THEN Append(f[k - 1], AnswerOf(q[k]))
                                                        ELSE f[k - 1]
  BY AnswersFacts
<1> HIDE DEF p
<1>3. /\ g[0] = <<>>
      /\ \A k \in 1..(Len(q) + 1) : g[k] = IF IsAnswer(p[k]) THEN Append(g[k - 1], AnswerOf(p[k]))
                                                              ELSE g[k - 1]
  <2>1. /\ g[0] = <<>>
        /\ \A k \in 1..Len(p) : g[k] = IF IsAnswer(p[k]) THEN Append(g[k - 1], AnswerOf(p[k]))
                                                          ELSE g[k - 1]
    BY <1>1, AnswersFacts
  <2> HIDE DEF g
  <2> QED  BY <1>1, <2>1
<1> HIDE DEF f, g
<1>4. 0 \in S
  BY <1>1, <1>2, <1>3
<1>5. ASSUME NEW k \in 1..Len(q), k - 1 \in S PROVE k \in S
  <2>1. k \in 1..(Len(q) + 1) /\ g[k - 1] = f[k - 1] /\ p[k] = q[k] /\ k \in 0..Len(q)
    BY <1>1, <1>5
  <2> QED  BY <1>2, <1>3, <2>1
<1> HIDE DEF S
<1>6. 0..Len(q) \subseteq S
  BY <1>1, <1>4, <1>5, InductionTo
<1>7. g[Len(q)] = f[Len(q)]
  BY <1>1, <1>6 DEF S
<1>8. Len(q) + 1 \in 1..(Len(q) + 1) /\ (Len(q) + 1) - 1 = Len(q)
  BY <1>1
<1>9. g[Len(q) + 1] = IF IsAnswer(c) THEN Append(f[Len(q)], AnswerOf(c)) ELSE f[Len(q)]
  BY <1>1, <1>3, <1>7, <1>8
<1> QED  BY <1>1, <1>9 DEF f, g, p, AnswersOf

LEMMA TailOfAppend ==
    ASSUME NEW S, NEW s \in Seq(S), s # <<>>, NEW e \in S
    PROVE  /\ Append(s, e) # <<>> /\ Tail(Append(s, e)) = Append(Tail(s), e)
           /\ Head(Append(s, e)) = Head(s)
    OBVIOUS

LEMMA AnswersOfTail ==
    ASSUME NEW q \in Seq(Closures), q # <<>>
    PROVE  IF IsAnswer(Head(q))
           THEN /\ AnswersOf(q) # <<>> /\ AnswersOf(Tail(q)) = Tail(AnswersOf(q))
                /\ Head(AnswersOf(q)) = AnswerOf(Head(q))
           ELSE AnswersOf(Tail(q)) = AnswersOf(q)
<1> DEFINE p == Tail(q)
           f == answersAmong(q)
           g == answersAmong(p)
           S == {k \in 0..(Len(q) - 1) :
                   IF IsAnswer(q[1]) THEN /\ f[k + 1] # <<>> /\ g[k] = Tail(f[k + 1])
                                          /\ Head(f[k + 1]) = AnswerOf(q[1])
                                     ELSE g[k] = f[k + 1]}
<1>1. /\ p \in Seq(Closures) /\ Len(p) = Len(q) - 1 /\ Len(q) \in Nat /\ Len(q) >= 1
      /\ q[1] = Head(q)
      /\ \A k \in 1..(Len(q) - 1) : p[k] = q[k + 1]
  BY TailFacts
<1>2. /\ f \in [0..Len(q) -> Seq(Answers)] /\ f[0] = <<>>
      /\ \A k \in 1..Len(q) : f[k] = IF IsAnswer(q[k]) THEN Append(f[k - 1], AnswerOf(q[k]))
                                                        ELSE f[k - 1]
  BY AnswersFacts
<1> HIDE DEF p
<1>3. /\ g[0] = <<>>
      /\ \A k \in 1..(Len(q) - 1) : g[k] = IF IsAnswer(p[k]) THEN Append(g[k - 1], AnswerOf(p[k]))
                                                              ELSE g[k - 1]
  <2>1. /\ g[0] = <<>>
        /\ \A k \in 1..Len(p) : g[k] = IF IsAnswer(p[k]) THEN Append(g[k - 1], AnswerOf(p[k]))
                                                          ELSE g[k - 1]
    BY <1>1, AnswersFacts
  <2> HIDE DEF g
  <2> QED  BY <1>1, <2>1
<1> HIDE DEF f, g
<1>4. 0 \in S
  <2>1. 1 \in 1..Len(q) /\ 1 - 1 = 0 /\ 0 + 1 = 1 /\ 0 \in 0..(Len(q) - 1) /\ q[1] \in Closures
    BY <1>1
  <2>2. f[1] = IF IsAnswer(q[1]) THEN Append(<<>>, AnswerOf(q[1])) ELSE <<>>
    BY <1>2, <2>1
  <2>3. ASSUME NEW e
        PROVE  /\ Append(<<>>, e) # <<>> /\ Tail(Append(<<>>, e)) = <<>>
               /\ Head(Append(<<>>, e)) = e
    OBVIOUS
  <2>4. CASE IsAnswer(q[1])
    <3>1. f[1] # <<>> /\ g[0] = Tail(f[1]) /\ Head(f[1]) = AnswerOf(q[1])
      BY <1>3, <2>2, <2>3, <2>4
    <3> QED  BY <2>1, <2>4, <3>1
  <2>5. CASE ~IsAnswer(q[1])
    <3>1. g[0] = f[1]
      BY <1>3, <2>2, <2>5
    <3> QED  BY <2>1, <2>5, <3>1
  <2> QED  BY <2>4, <2>5
<1>5. ASSUME NEW k \in 1..(Len(q) - 1), k - 1 \in S PROVE k \in S
  <2>1. /\ k \in 0..(Len(q) - 1) /\ k + 1 \in 1..Len(q) /\ k \in 0..Len(q)
        /\ (k - 1) + 1 = k /\ (k + 1) - 1 = k
        /\ p[k] = q[k + 1] /\ q[k + 1] \in Closures /\ f[k] \in Seq(Answers)
    <3>1. /\ k \in 0..(Len(q) - 1) /\ k + 1 \in 1..Len(q) /\ k \in 0..Len(q)
          /\ (k - 1) + 1 = k /\ (k + 1) - 1 = k
      BY <1>1
    <3>2. q[k + 1] \in Closures
      BY <3>1
    <3> QED  BY <1>1, <1>2, <3>1, <3>2
  <2>2. f[k + 1] = IF IsAnswer(p[k]) THEN Append(f[k], AnswerOf(p[k])) ELSE f[k]
    BY <1>2, <2>1
  <2>3. g[k] = IF IsAnswer(p[k]) THEN Append(g[k - 1], AnswerOf(p[k])) ELSE g[k - 1]
    BY <1>3
  <2>4. CASE IsAnswer(q[1])
    <3>1. f[k] # <<>> /\ g[k - 1] = Tail(f[k]) /\ Head(f[k]) = AnswerOf(q[1])
      BY <1>5, <2>1, <2>4
    <3>2. IsAnswer(p[k]) => AnswerOf(p[k]) \in Answers
      BY <2>1, AnswerType
    <3>3. IsAnswer(p[k]) => /\ Append(f[k], AnswerOf(p[k])) # <<>>
                            /\ Tail(Append(f[k], AnswerOf(p[k]))) = Append(Tail(f[k]), AnswerOf(p[k]))
                            /\ Head(Append(f[k], AnswerOf(p[k]))) = Head(f[k])
      BY <2>1, <3>1, <3>2, TailOfAppend
    <3> QED  BY <2>1, <2>2, <2>3, <2>4, <3>1, <3>3
  <2>5. CASE ~IsAnswer(q[1])
    <3>1. g[k - 1] = f[k]
      BY <1>5, <2>1, <2>5
    <3> QED  BY <2>1, <2>2, <2>3, <2>5, <3>1
  <2> QED  BY <2>4, <2>5
<1> HIDE DEF S
<1>6. 0..(Len(q) - 1) \subseteq S
  <2>1. Len(q) - 1 \in Nat
    BY <1>1
  <2> QED  BY <1>4, <1>5, <2>1, InductionTo
<1>7. Len(q) - 1 \in S /\ (Len(q) - 1) + 1 = Len(q)
  BY <1>1, <1>6
<1>8. IF IsAnswer(q[1]) THEN /\ f[Len(q)] # <<>> /\ g[Len(p)] = Tail(f[Len(q)])
                             /\ Head(f[Len(q)]) = AnswerOf(q[1])
                        ELSE g[Len(p)] = f[Len(q)]
  BY <1>1, <1>7 DEF S
<1> QED  BY <1>1, <1>8 DEF f, g, p, AnswersOf

LEMMA AnswersOfEmpty == AnswersOf(<<>>) = <<>>
<1>1. <<>> \in Seq(Closures) /\ Len(<<>>) = 0
  OBVIOUS
<1>2. answersAmong(<<>>)[0] = <<>>
  BY <1>1, AnswersFacts
<1> QED  BY <1>1, <1>2 DEF AnswersOf

-----------------------------------------------------------------------------
(* A UUID has one account *)

Belongs(x) == owner[x.id] = x.u

\* Every batch and every version is of a document of the account its UUID is of.
OwnerInv ==
    /\ \A u \in Accounts : \A k \in 1..Len(queue[u]) : Belongs(queue[u][k])
    /\ \A v \in 1..Len(log) : Belongs(log[v])

\* So is every document a read could report.
OwnedInv == \A u \in Users, id \in NoteIds : LocalView(u)[id] # Absent => owner[id] = u

LEMMA LocalViewOwned == IInv /\ OwnerInv => OwnedInv
<1> SUFFICES ASSUME IInv, OwnerInv, NEW u \in Users, NEW id \in NoteIds, owner[id] # u
             PROVE  LocalView(u)[id] = Absent
  BY DEF OwnedInv
<1> DEFINE q == queue[engineUser]
           entry == cache[u][id]
<1>1. /\ engineUser \in Accounts /\ q \in Seq(Batches)
      /\ entry \in Entries /\ entry.text \in Texts
  BY DEF IInv, Types, Entries
<1>2. entry.text = Absent
  <2>1. Right(entry, u, id)
    BY DEF IInv, CacheInv
  <2>2. entry.ver \in 0..Len(log) /\ Len(log) \in Nat
    BY <2>1, LogTypes DEF Right, IInv
  <2>3. ~(entry.ver > 0)
    BY <2>1, <2>2 DEF Right, OwnerInv, Belongs
  <2>4. entry.ver = 0
    BY <2>2, <2>3
  <2> QED  BY <2>1, <2>4 DEF Right, TextOf
<1>3. \A k \in 1..Len(q) : ~(q[k].u = u /\ q[k].id = id)
  BY <1>1 DEF OwnerInv, Belongs
<1> HIDE DEF q
<1>4. laidOver(entry.text, u, id, q)[Len(q)] = Absent
  BY <1>1, <1>2, <1>3, LaidOverOthers
<1> QED  BY <1>4 DEF LocalView, q

LEMMA OwnerInit == Init => OwnerInv
<1> SUFFICES ASSUME Init PROVE OwnerInv
  OBVIOUS
<1>1. \A u \in Accounts : \A k \in 1..Len(queue[u]) : FALSE
  BY DEF Init
<1>2. \A v \in 1..Len(log) : FALSE
  BY DEF Init
<1> QED  BY <1>1, <1>2, Zenon DEF OwnerInv

\* A UUID that has an account keeps it.
LEMMA OwnerKeeps ==
    ASSUME IInv, OwnerInv, [Next]_vars
    PROVE  \A id \in NoteIds : owner[id] # NoUser => owner'[id] = owner[id]
<1>1. owner \in [NoteIds -> Accounts]
  BY DEF IInv, Types
<1>2. ASSUME NEW id \in NoteIds, NEW text \in Details, SetData(id, text)
      PROVE  owner' = [owner EXCEPT ![id] = user] /\ owner[id] = NoUser
  BY <1>2 DEF SetData, FreshId
<1>3. ASSUME NEW u \in Users, NEW id \in NoteIds, NEW text \in Texts, OtherDevice(u, id, text)
      PROVE  owner' = [owner EXCEPT ![id] = u] /\ (owner[id] = NoUser \/ owner[id] = u)
  <2>1. CASE Remote(u, id) = Absent
    BY <1>3, <2>1 DEF OtherDevice, FreshId
  <2>2. CASE Remote(u, id) # Absent
    <3> DEFINE v == VersionAt(u, id, Len(log))
    <3>1. Len(log) \in Nat
      BY LogTypes DEF IInv
    <3>2. v \in 0..Len(log) /\ (v = 0 \/ (log[v].u = u /\ log[v].id = id))
      BY <3>1, VersionAtFacts
    <3>3. v # 0
      BY <2>2 DEF Remote, TextOf
    <3> HIDE DEF v
    <3>4. owner[id] = u
      BY <3>1, <3>2, <3>3 DEF OwnerInv, Belongs
    <3> QED  BY <1>3, <3>4 DEF OtherDevice
  <2> QED  BY <2>1, <2>2
<1>4. ASSUME UNCHANGED owner
      PROVE  \A id \in NoteIds : owner[id] # NoUser => owner'[id] = owner[id]
  BY <1>4
<1> USE DEF calls
<1>5. CASE \/ \E id \in NoteIds, text \in Details : UpdateData(id, text)
           \/ \E id \in NoteIds : DeleteDocument(id)
           \/ WriteStreamOpens \/ ServerCommits \/ MutationResult \/ WriteRefused
           \/ WriteStreamCloses \/ WatchSnapshot \/ UNCHANGED vars
  BY <1>4, <1>5 DEF UpdateData, DeleteDocument, WriteMutations, WriteStreamOpens,
              ServerCommits, MutationResult, WriteRefused, WriteStreamCloses,
              WatchSnapshot, vars
<1>6. CASE \/ GetDocuments \/ WatchStreamOpens \/ WatchStreamCloses
           \/ OnlineStateTimeout \/ WatchMessage
           \/ \E u \in Users : ServerSendsSnapshot(u) \/ TargetError(u) \/ RaiseEvent(u)
  BY <1>4, <1>6 DEF GetDocuments, WatchStreamOpens, WatchStreamCloses,
              OnlineStateTimeout, WatchMessage, ServerSendsSnapshot, TargetError, RaiseEvent
<1>7. CASE \/ MainQueueRuns \/ ConnectivityChange \/ Terminate
           \/ \E u \in Accounts : CredentialChange(u)
  BY <1>4, <1>7 DEF MainQueueRuns, TakeAnswer, TakeWritten, TakeCredential,
              ConnectivityChange, Terminate, CredentialChange
<1>8. ASSUME NEW id \in NoteIds, NEW text \in Details, SetData(id, text)
      PROVE  \A i \in NoteIds : owner[i] # NoUser => owner'[i] = owner[i]
  BY <1>1, <1>2, <1>8
<1>9. ASSUME NEW u \in Users, NEW id \in NoteIds, NEW text \in Texts, OtherDevice(u, id, text)
      PROVE  \A i \in NoteIds : owner[i] # NoUser => owner'[i] = owner[i]
  BY <1>1, <1>3, <1>9
<1> QED  BY <1>5, <1>6, <1>7, <1>8, <1>9 DEF Next

LEMMA NoCall ==
    ASSUME [Next]_vars, ~IsCall
    PROVE  UNCHANGED writes
<1> USE DEF localData
<1>1. CASE \/ WriteStreamOpens \/ ServerCommits \/ MutationResult \/ WriteRefused
           \/ WriteStreamCloses \/ WatchSnapshot \/ UNCHANGED vars
           \/ \E u \in Users, id \in NoteIds, text \in Texts : OtherDevice(u, id, text)
  BY <1>1 DEF WriteStreamOpens, ServerCommits, MutationResult, WriteRefused,
              WriteStreamCloses, WatchSnapshot, OtherDevice, vars
<1>2. CASE \/ GetDocuments \/ WatchStreamOpens \/ WatchStreamCloses
           \/ OnlineStateTimeout \/ WatchMessage
           \/ \E u \in Users : ServerSendsSnapshot(u) \/ TargetError(u) \/ RaiseEvent(u)
  BY <1>2 DEF GetDocuments, WatchStreamOpens, WatchStreamCloses,
              OnlineStateTimeout, WatchMessage, ServerSendsSnapshot, TargetError, RaiseEvent
<1>3. CASE \/ MainQueueRuns \/ ConnectivityChange \/ Terminate
           \/ \E u \in Accounts : CredentialChange(u)
  BY <1>3 DEF MainQueueRuns, TakeAnswer, TakeWritten, TakeCredential,
              ConnectivityChange, Terminate, CredentialChange
<1> QED  BY <1>1, <1>2, <1>3 DEF Next, IsCall

\* A call queues a batch for a document of the user's, which is then shown as it is.
Calls(batch) ==
    /\ Adds(batch)
    /\ batch.u = user /\ user \in Users /\ owner'[batch.id] = user
    /\ held' = [held EXCEPT ![batch.u][batch.id] = Absent]

LEMMA CallFacts ==
    ASSUME IInv, OwnerInv
    PROVE  /\ \A id \in NoteIds, text \in Details : SetData(id, text) =>
                 LET batch == Batch(id, "set", text) IN batch \in Batches /\ Calls(batch)
           /\ \A id \in NoteIds, text \in Details : UpdateData(id, text) =>
                 LET batch == Batch(id, "update", text) IN batch \in Batches /\ Calls(batch)
           /\ \A id \in NoteIds : DeleteDocument(id) =>
                 LET batch == Batch(id, "delete", Absent) IN batch \in Batches /\ Calls(batch)
<1>1. OwnedInv /\ Types
  BY LocalViewOwned DEF IInv
<1>2. user \in Accounts /\ owner \in [NoteIds -> Accounts] /\ Absent \in Texts
  BY <1>1 DEF Types, Texts
<1> USE DEF calls, localData, writing, server
<1>3. ASSUME NEW id \in NoteIds, NEW text \in Details, SetData(id, text)
      PROVE  LET batch == Batch(id, "set", text) IN batch \in Batches /\ Calls(batch)
  <2>1. text \in Texts /\ user # NoUser /\ writes < MaxWrites /\ user \in Users
    BY <1>2, <1>3 DEF SetData, Texts, Accounts
  <2>2. Batch(id, "set", text) \in Batches
    BY <1>1, <2>1, TypesWrite
  <2>3. Adds(Batch(id, "set", text))
    BY <1>3 DEF SetData, WriteMutations, Adds, Batch
  <2>4. owner'[id] = user
    BY <1>2, <1>3 DEF SetData
  <2>5. Batch(id, "set", text).u = user /\ Batch(id, "set", text).id = id
    BY DEF Batch
  <2>6. held' = [held EXCEPT ![Batch(id, "set", text).u][Batch(id, "set", text).id] = Absent]
    BY <1>3 DEF SetData, WriteMutations
  <2> QED  BY <2>1, <2>2, <2>3, <2>4, <2>5, <2>6 DEF Calls
<1>4. ASSUME NEW id \in NoteIds, NEW text \in Details, UpdateData(id, text)
      PROVE  LET batch == Batch(id, "update", text) IN batch \in Batches /\ Calls(batch)
  <2>1. text \in Texts /\ user # NoUser /\ writes < MaxWrites /\ user \in Users
    BY <1>2, <1>4 DEF UpdateData, Texts, Accounts
  <2>2. Batch(id, "update", text) \in Batches
    BY <1>1, <2>1, TypesWrite
  <2>3. Adds(Batch(id, "update", text))
    BY <1>4 DEF UpdateData, WriteMutations, Adds, Batch
  <2>4. owner'[id] = user
    BY <1>1, <1>4, <2>1 DEF UpdateData, OwnedInv
  <2>5. Batch(id, "update", text).u = user /\ Batch(id, "update", text).id = id
    BY DEF Batch
  <2>6. held' = [held EXCEPT ![Batch(id, "update", text).u][Batch(id, "update", text).id] = Absent]
    BY <1>4 DEF UpdateData, WriteMutations
  <2> QED  BY <2>1, <2>2, <2>3, <2>4, <2>5, <2>6 DEF Calls
<1>5. ASSUME NEW id \in NoteIds, DeleteDocument(id)
      PROVE  LET batch == Batch(id, "delete", Absent) IN batch \in Batches /\ Calls(batch)
  <2>1. user # NoUser /\ writes < MaxWrites /\ user \in Users
    BY <1>2, <1>5 DEF DeleteDocument, Accounts
  <2>2. Batch(id, "delete", Absent) \in Batches
    BY <1>1, <1>2, <2>1, TypesWrite
  <2>3. Adds(Batch(id, "delete", Absent))
    BY <1>5 DEF DeleteDocument, WriteMutations, Adds, Batch
  <2>4. owner'[id] = user
    BY <1>1, <1>5, <2>1 DEF DeleteDocument, OwnedInv
  <2>5. Batch(id, "delete", Absent).u = user /\ Batch(id, "delete", Absent).id = id
    BY DEF Batch
  <2>6. held' = [held EXCEPT ![Batch(id, "delete", Absent).u][Batch(id, "delete", Absent).id] = Absent]
    BY <1>5 DEF DeleteDocument, WriteMutations
  <2> QED  BY <2>1, <2>2, <2>3, <2>4, <2>5, <2>6 DEF Calls
<1> QED  BY <1>3, <1>4, <1>5

LEMMA CallSteps ==
    ASSUME IInv, OwnerInv, IsCall
    PROVE  \E batch \in Batches : Calls(batch)
    BY CallFacts DEF IsCall

LEMMA OwnerStep ==
    ASSUME IInv, OwnerInv, [Next]_vars, WritingStep
    PROVE  OwnerInv'
<1>1. Types /\ QueueInv /\ StreamsFit /\ ResultsInv
  BY DEF IInv, ResultsInv
<1>2. ASSUME NEW x, x.id \in NoteIds, x.u \in Users, Belongs(x) PROVE owner'[x.id] = x.u
  BY <1>2, OwnerKeeps, NoUserAssumption DEF Belongs
<1>3. \A u \in Accounts : \A k \in 1..Len(queue[u]) : owner'[queue[u][k].id] = queue[u][k].u
  BY <1>1, <1>2, QueueTypes DEF OwnerInv
<1>4. \A v \in 1..Len(log) : owner'[log[v].id] = log[v].u
  BY <1>1, <1>2, LogTypes DEF OwnerInv
<1>5. CASE IsCall
  <2>1. PICK batch \in Batches : Calls(batch)
    BY <1>5, CallSteps
  <2>2. ASSUME NEW u \in Accounts, NEW k \in 1..Len(queue'[u])
        PROVE  owner'[queue'[u][k].id] = queue'[u][k].u
    <3>1. CASE k \in 1..Len(queue[u])
      <4>1. queue'[u][k] = queue[u][k]
        BY <1>1, <2>1, <3>1, AddsFacts DEF Calls
      <4> QED  BY <1>3, <3>1, <4>1
    <3>2. CASE k \notin 1..Len(queue[u])
      <4>1. u = engineUser
        BY <1>1, <2>1, <3>2, AddsFacts DEF Calls
      <4>2. k = Len(queue[u]) + 1
        BY <1>1, <2>1, <3>2, <4>1, AddsFacts DEF Calls
      <4>3. queue'[u][k] = batch
        BY <1>1, <2>1, <4>1, <4>2, AddsFacts DEF Calls
      <4> QED  BY <2>1, <4>3 DEF Calls
    <3> QED  BY <3>1, <3>2
  <2>3. UNCHANGED log
    BY <2>1 DEF Calls, Adds
  <2> QED  BY <1>4, <2>2, <2>3 DEF OwnerInv, Belongs
<1>6. CASE MutationResult \/ WriteRefused
  <2>1. Drops
    BY <1>1, <1>6, MutationFacts, RefusalFacts
  <2>2. ASSUME NEW u \in Accounts, NEW k \in 1..Len(queue'[u])
        PROVE  owner'[queue'[u][k].id] = queue'[u][k].u
    <3>1. CASE u # engineUser
      BY <1>1, <1>3, <2>1, <3>1, DropsFacts
    <3>2. CASE u = engineUser
      <4>1. k + 1 \in 1..Len(queue[u]) /\ queue'[u][k] = queue[u][k + 1]
        BY <1>1, <2>1, <3>2, DropsFacts
      <4> QED  BY <1>3, <4>1
    <3> QED  BY <3>1, <3>2
  <2>3. UNCHANGED log
    BY <2>1 DEF Drops
  <2> QED  BY <1>4, <2>2, <2>3 DEF OwnerInv, Belongs
<1>7. ASSUME NEW e \in Versions, Grows(e), owner'[e.id] = e.u PROVE OwnerInv'
  <2>1. \A v \in 1..Len(log') : \/ v \in 1..Len(log) /\ log'[v] = log[v]
                                \/ log'[v] = e
    BY <1>1, <1>7, GrowsFacts
  <2>2. UNCHANGED queue
    BY <1>7 DEF Grows
  <2> QED  BY <1>3, <1>4, <1>7, <2>1, <2>2 DEF OwnerInv, Belongs
<1>8. CASE ServerCommits
  <2>1. PICK e \in Versions : Grows(e) /\ Of(e, queue[engineUser][Len(results) + 1])
    BY <1>1, <1>8, CommitFacts
  <2>2. engineUser \in Accounts /\ Len(results) + 1 \in 1..Len(queue[engineUser])
    BY <1>1, <1>8, CommitFacts DEF Types
  <2>3. owner'[e.id] = e.u
    BY <1>3, <2>1, <2>2 DEF Of
  <2> QED  BY <1>7, <2>1, <2>3
<1>9. ASSUME NEW u \in Users, NEW id \in NoteIds, NEW text \in Texts, OtherDevice(u, id, text)
      PROVE  OwnerInv'
  <2> DEFINE e == [u |-> u, id |-> id, q |-> NoUser, b |-> 0, text |-> text]
  <2>1. e \in Versions
    BY BoundsAssumption DEF Versions, Accounts
  <2>2. Grows(e)
    BY <1>9 DEF OtherDevice, Grows, localData
  <2>3. owner'[e.id] = e.u
    BY <1>1, <1>9 DEF OtherDevice, Types
  <2> QED  BY <1>7, <2>1, <2>2, <2>3
<1>10. CASE Resets \/ Quiet
  <2>1. UNCHANGED <<queue, log>>
    BY <1>10 DEF Resets, Quiet
  <2> QED  BY <1>3, <1>4, <2>1 DEF OwnerInv, Belongs
<1>11. CASE ~IsCall
  <2>1. UNCHANGED writes /\ writes \in Nat
    BY <1>1, <1>11, NoCall DEF Types
  <2>2. \A batch : ~Adds(batch)
    BY <2>1 DEF Adds
  <2> QED  BY <1>6, <1>8, <1>9, <1>10, <2>2 DEF WritingStep
<1> QED  BY <1>5, <1>11

-----------------------------------------------------------------------------
(* A read has one listener and one answer *)

\* Reads are numbered, and listened to, in the order they were made; a read whose
\* answer is on the main queue is answered already.
Answered(c) ==
    c.kind = "answer" =>
        /\ c.read.n <= loads
        /\ \A j \in 1..Len(listeners[c.read.user]) :
              listeners[c.read.user][j].n = c.read.n => listeners[c.read.user][j].raised

InTurn(u) ==
    /\ \A k \in 1..Len(listeners[u]) : listeners[u][k].n <= loads
    /\ \A j, k \in 1..Len(listeners[u]) : j < k => listeners[u][j].n < listeners[u][k].n

LoadsInv ==
    /\ \A u \in Users : InTurn(u)
    /\ \A k \in 1..Len(mainQueue) : Answered(mainQueue[k])

LEMMA LoadsInit == Init => LoadsInv
<1> SUFFICES ASSUME Init PROVE LoadsInv
  OBVIOUS
<1>1. \A u \in Users : \A k \in 1..Len(listeners[u]) : FALSE
  BY DEF Init
<1>2. \A k \in 1..Len(mainQueue) : FALSE
  BY DEF Init
<1> QED  BY <1>1, <1>2, Zenon DEF LoadsInv, InTurn

LEMMA ListenerTypes ==
    ASSUME Types, NEW u \in Users
    PROVE  /\ listeners[u] \in Seq(Listeners) /\ Len(listeners[u]) \in Nat
           /\ \A k \in 1..Len(listeners[u]) : listeners[u][k].n \in Nat
<1>1. listeners[u] \in Seq(Listeners)
  BY DEF Types
<1>2. \A e \in Listeners : e.n \in Nat
  BY DEF Listeners
<1> QED  BY <1>1, <1>2

LEMMA AnswerTypes ==
    ASSUME Types, NEW k \in 1..Len(mainQueue), mainQueue[k].kind = "answer"
    PROVE  mainQueue[k].read.n \in Nat /\ mainQueue[k].read.user \in Users
<1>1. mainQueue[k] \in Closures
  BY DEF Types
<1>2. mainQueue[k].read \in Reads
  BY <1>1 DEF Closures
<1> QED  BY <1>2 DEF Reads

\* What the listeners of an account may become without a new one.
Follows(u) ==
    \A k \in 1..Len(listeners'[u]) :
        \E j \in 1..Len(listeners[u]) :
           /\ listeners'[u][k].n = listeners[u][j].n
           /\ listeners[u][j].raised => listeners'[u][k].raised

\* The answers of the main queue are answered still, if they were.
LEMMA AnsweredStill ==
    ASSUME Types, LoadsInv, \A u \in Users : Follows(u), UNCHANGED loads
    PROVE  \A k \in 1..Len(mainQueue) : \A c : c = mainQueue[k] => Answered(c)'
<1> SUFFICES ASSUME NEW k \in 1..Len(mainQueue), NEW c, c = mainQueue[k], c.kind = "answer"
             PROVE  /\ c.read.n <= loads
                    /\ \A j \in 1..Len(listeners'[c.read.user]) :
                          listeners'[c.read.user][j].n = c.read.n
                             => listeners'[c.read.user][j].raised
  BY DEF Answered
<1>1. c.read.user \in Users
  BY AnswerTypes
<1>2. /\ c.read.n <= loads
      /\ \A j \in 1..Len(listeners[c.read.user]) :
            listeners[c.read.user][j].n = c.read.n => listeners[c.read.user][j].raised
  BY DEF LoadsInv, Answered
<1>3. ASSUME NEW j \in 1..Len(listeners'[c.read.user]),
             listeners'[c.read.user][j].n = c.read.n
      PROVE  listeners'[c.read.user][j].raised
  <2>1. PICK i \in 1..Len(listeners[c.read.user]) :
           /\ listeners'[c.read.user][j].n = listeners[c.read.user][i].n
           /\ listeners[c.read.user][i].raised => listeners'[c.read.user][j].raised
    BY <1>1, <1>3, Zenon DEF Follows
  <2> QED  BY <1>2, <1>3, <2>1, Zenon
<1> QED  BY <1>2, <1>3, Zenon

\* The closures that are there after a step without an answer were there before.
LEMMA NoNewAnswer ==
    ASSUME Types, StreamsFit, [Next]_vars, \A u \in Users : ~RaiseEvent(u)
    PROVE  \A k \in 1..Len(mainQueue') : mainQueue'[k].kind = "answer" =>
              \E j \in 1..Len(mainQueue) : mainQueue'[k] = mainQueue[j]
<1>1. mainQueue \in Seq(Closures)
  BY DEF Types
<1>2. CASE mainQueue' = mainQueue \/ mainQueue' = <<>>
  BY <1>2
<1>3. CASE mainQueue # <<>> /\ mainQueue' = Tail(mainQueue)
  <2>1. \A k \in 1..Len(mainQueue') : /\ k + 1 \in 1..Len(mainQueue)
                                      /\ mainQueue'[k] = mainQueue[k + 1]
    BY <1>1, <1>3, TailFacts
  <2> QED  BY <2>1
<1>4. ASSUME NEW c, mainQueue' = Append(mainQueue, c), c.kind # "answer"
      PROVE  \A k \in 1..Len(mainQueue') : mainQueue'[k].kind = "answer" =>
                \E j \in 1..Len(mainQueue) : mainQueue'[k] = mainQueue[j]
  <2>1. /\ Len(mainQueue) \in Nat /\ Len(mainQueue') = Len(mainQueue) + 1
        /\ \A k \in 1..Len(mainQueue) : mainQueue'[k] = mainQueue[k]
        /\ mainQueue'[Len(mainQueue) + 1] = c
    BY <1>1, <1>4, AppendAny
  <2> QED  BY <1>4, <2>1
<1>5. \/ mainQueue' = mainQueue
      \/ mainQueue' = <<>>
      \/ mainQueue # <<>> /\ mainQueue' = Tail(mainQueue)
      \/ \E c : mainQueue' = Append(mainQueue, c) /\ c.kind # "answer"
  <2>1. ASSUME NEW c, NEW batch, NEW ok, c = Written(batch, ok) PROVE c.kind # "answer"
    BY <2>1 DEF Written
  <2> QED  BY <2>1, MainQueueSteps
<1> QED  BY <1>2, <1>3, <1>4, <1>5

\* The actions that move listeners.
MovesListeners ==
    \/ GetDocuments \/ Terminate \/ MainQueueRuns
    \/ \E u \in Users : TargetError(u) \/ RaiseEvent(u)

LEMMA ListenersStay ==
    ASSUME [Next]_vars, ~MovesListeners
    PROVE  UNCHANGED <<listeners, loads>>
<1> USE DEF reading, calls
<1>1. CASE \/ IsCall
           \/ WriteStreamOpens \/ ServerCommits \/ MutationResult \/ WriteRefused
           \/ WriteStreamCloses \/ UNCHANGED vars
           \/ \E u \in Accounts : CredentialChange(u)
           \/ \E u \in Users, id \in NoteIds, text \in Texts : OtherDevice(u, id, text)
  BY <1>1 DEF IsCall, SetData, UpdateData, DeleteDocument, WriteMutations,
              WriteStreamOpens, ServerCommits, MutationResult, WriteRefused,
              WriteStreamCloses, CredentialChange, OtherDevice, vars
<1>2. CASE \/ WatchStreamOpens \/ WatchStreamCloses \/ OnlineStateTimeout \/ WatchMessage
           \/ WatchSnapshot \/ ConnectivityChange
           \/ \E u \in Users : ServerSendsSnapshot(u)
  BY <1>2 DEF WatchStreamOpens, WatchStreamCloses, OnlineStateTimeout, WatchMessage,
              WatchSnapshot, ConnectivityChange, ServerSendsSnapshot
<1> QED  BY <1>1, <1>2 DEF Next, MovesListeners, IsCall

\* The account whose listener is raised, and the others.
LEMMA RaiseFacts ==
    ASSUME Types, NEW u \in Users, RaiseEvent(u)
    PROVE  LET k == nextListener(u)
           IN  /\ k \in 1..Len(listeners[u]) /\ k \in Waiting(u)
               /\ \A j \in Waiting(u) : k <= j
               /\ \A w \in Users : w # u => listeners'[w] = listeners[w]
               /\ \/ /\ Waiting(u) = {k} /\ views[u] = "failed"
                     /\ listeners'[u] = <<>>
                  \/ /\ Len(listeners'[u]) = Len(listeners[u])
                     /\ listeners'[u][k].raised /\ listeners'[u][k].n = listeners[u][k].n
                     /\ \A j \in 1..Len(listeners[u]) :
                           j # k => listeners'[u][j] = listeners[u][j]
<1> DEFINE k == nextListener(u)
<1>1. Waiting(u) # {}
  BY DEF RaiseEvent, Due
<1>2. /\ k \in 1..Len(listeners[u]) /\ k \in Waiting(u) /\ \A j \in Waiting(u) : k <= j
      /\ listeners \in [Users -> Seq(Listeners)] /\ listeners[u] \in Seq(Listeners)
  BY <1>1, NextListenerFacts DEF Types
<1>3. \/ listeners' = [listeners EXCEPT ![u][k].raised = TRUE]
      \/ /\ listeners' = [listeners EXCEPT ![u] = <<>>]
         /\ Waiting(u) = {k} /\ views[u] = "failed"
  BY DEF RaiseEvent
<1> HIDE DEF k
<1>4. \A w \in Users : w # u => listeners'[w] = listeners[w]
  BY <1>2, <1>3
<1>5. CASE listeners' = [listeners EXCEPT ![u][k].raised = TRUE]
  <2>1. listeners'[u] = [listeners[u] EXCEPT ![k].raised = TRUE]
    BY <1>2, <1>5
  <2> QED  BY <1>2, <1>4, <2>1, RaisedFacts DEF k
<1>6. CASE /\ listeners' = [listeners EXCEPT ![u] = <<>>]
           /\ Waiting(u) = {k} /\ views[u] = "failed"
  <2>1. listeners'[u] = <<>>
    BY <1>2, <1>6
  <2> QED  BY <1>2, <1>4, <1>6, <2>1 DEF k
<1> QED  BY <1>3, <1>5, <1>6

\* The account whose listener is removed, and the others.
LEMMA RemoveFacts ==
    ASSUME Types, NEW read \in Reads, RemoveListener(read)
    PROVE  /\ \A w \in Users : w # read.user => listeners'[w] = listeners[w]
           /\ \/ /\ listeners'[read.user] = listeners[read.user]
                 /\ \A j \in 1..Len(listeners[read.user]) : listeners[read.user][j].n # read.n
              \/ \E k \in 1..Len(listeners[read.user]) :
                    /\ listeners[read.user][k].n = read.n
                    /\ Len(listeners'[read.user]) = Len(listeners[read.user]) - 1
                    /\ \A j \in 1..(Len(listeners[read.user]) - 1) :
                          listeners'[read.user][j] = IF j < k THEN listeners[read.user][j]
                                                              ELSE listeners[read.user][j + 1]
<1> DEFINE u == read.user
           left == Erase(listeners[u], read)
<1>1. /\ u \in Users /\ listeners \in [Users -> Seq(Listeners)]
      /\ listeners[u] \in Seq(Listeners)
  BY DEF Reads, Types
<1>2. listeners' = [listeners EXCEPT ![u] = left]
  BY DEF RemoveListener
<1>3. \/ /\ left = listeners[u]
         /\ \A k \in 1..Len(listeners[u]) : listeners[u][k].n # read.n
      \/ \E k \in 1..Len(listeners[u]) :
            /\ listeners[u][k].n = read.n
            /\ Len(left) = Len(listeners[u]) - 1
            /\ \A j \in 1..(Len(listeners[u]) - 1) :
                  left[j] = IF j < k THEN listeners[u][j] ELSE listeners[u][j + 1]
  BY <1>1, EraseFacts
<1> HIDE DEF left, u
<1>4. listeners'[u] = left /\ \A w \in Users : w # u => listeners'[w] = listeners[w]
  BY <1>1, <1>2
<1> QED  BY <1>3, <1>4 DEF u

\* The listeners after a removal are in turn, and none is new.
LEMMA RemoveInTurn ==
    ASSUME Types, NEW read \in Reads, RemoveListener(read), UNCHANGED loads,
           NEW u \in Users, InTurn(u)
    PROVE  InTurn(u)' /\ Follows(u)
<1>1. CASE listeners'[u] = listeners[u]
  BY <1>1 DEF InTurn, Follows
<1>2. CASE \E k \in 1..Len(listeners[u]) :
              /\ listeners[u][k].n = read.n
              /\ Len(listeners'[u]) = Len(listeners[u]) - 1
              /\ \A j \in 1..(Len(listeners[u]) - 1) :
                    listeners'[u][j] = IF j < k THEN listeners[u][j] ELSE listeners[u][j + 1]
  <2>1. PICK k \in 1..Len(listeners[u]) :
           /\ Len(listeners'[u]) = Len(listeners[u]) - 1
           /\ \A j \in 1..(Len(listeners[u]) - 1) :
                 listeners'[u][j] = IF j < k THEN listeners[u][j] ELSE listeners[u][j + 1]
    BY <1>2
  <2> DEFINE at(j) == IF j < k THEN j ELSE j + 1
  <2>2. Len(listeners[u]) \in Nat
    BY ListenerTypes
  <2>3. \A j \in 1..Len(listeners'[u]) : /\ at(j) \in 1..Len(listeners[u])
                                          /\ listeners'[u][j] = listeners[u][at(j)]
    BY <2>1, <2>2
  <2>4. \A i, j \in 1..Len(listeners'[u]) : i < j => at(i) < at(j)
    BY <2>1, <2>2
  <2> HIDE DEF at
  <2>5. \A j \in 1..Len(listeners'[u]) : listeners'[u][j].n <= loads
    BY <2>3 DEF InTurn
  <2>6. \A i, j \in 1..Len(listeners'[u]) : i < j => listeners'[u][i].n < listeners'[u][j].n
    BY <2>3, <2>4 DEF InTurn
  <2>7. Follows(u)
    BY <2>3 DEF Follows
  <2> QED  BY <2>5, <2>6, <2>7 DEF InTurn
<1>3. CASE u = read.user
  <2>1. \/ listeners'[u] = listeners[u]
        \/ \E k \in 1..Len(listeners[u]) :
              /\ listeners[u][k].n = read.n
              /\ Len(listeners'[u]) = Len(listeners[u]) - 1
              /\ \A j \in 1..(Len(listeners[u]) - 1) :
                    listeners'[u][j] = IF j < k THEN listeners[u][j] ELSE listeners[u][j + 1]
    BY <1>3, RemoveFacts, Zenon
  <2> QED  BY <1>1, <1>2, <2>1
<1>4. CASE u # read.user
  BY <1>1, <1>4, RemoveFacts
<1> QED  BY <1>3, <1>4

LEMMA RaiseInTurn ==
    ASSUME Types, NEW w \in Users, RaiseEvent(w), NEW u \in Users, InTurn(u)
    PROVE  InTurn(u)' /\ Follows(u)
<1>1. UNCHANGED loads
  BY DEF RaiseEvent, calls
<1>2. CASE listeners'[u] = listeners[u]
  BY <1>1, <1>2 DEF InTurn, Follows
<1>3. CASE listeners'[u] = <<>>
  <2>1. \A k \in 1..Len(listeners'[u]) : FALSE
    BY <1>3
  <2> QED  BY <2>1, Zenon DEF InTurn, Follows
<1>4. CASE /\ Len(listeners'[u]) = Len(listeners[u])
           /\ \E k \in 1..Len(listeners[u]) :
                 /\ listeners'[u][k].raised /\ listeners'[u][k].n = listeners[u][k].n
                 /\ \A j \in 1..Len(listeners[u]) :
                       j # k => listeners'[u][j] = listeners[u][j]
  <2>1. \A j \in 1..Len(listeners[u]) :
           /\ listeners'[u][j].n = listeners[u][j].n
           /\ listeners[u][j].raised => listeners'[u][j].raised
    BY <1>4
  <2> QED  BY <1>1, <1>4, <2>1 DEF InTurn, Follows
<1> QED  BY <1>2, <1>3, <1>4, RaiseFacts

LEMMA LoadsStep ==
    ASSUME Types, StreamsFit, LoadsInv, [Next]_vars
    PROVE  LoadsInv'
<1>1. mainQueue \in Seq(Closures) /\ loads \in Nat
  BY DEF Types
<1>2. ASSUME \A u \in Users : InTurn(u)' /\ Follows(u), UNCHANGED loads,
             \A u \in Users : ~RaiseEvent(u)
      PROVE  LoadsInv'
  <2>1. \A k \in 1..Len(mainQueue) : \A c : c = mainQueue[k] => Answered(c)'
    BY <1>2, AnsweredStill
  <2>2. ASSUME NEW k \in 1..Len(mainQueue') PROVE Answered(mainQueue[k])'
    <3>1. CASE mainQueue'[k].kind = "answer"
      <4>1. PICK j \in 1..Len(mainQueue) : mainQueue'[k] = mainQueue[j]
        BY <1>2, <3>1, NoNewAnswer
      <4> QED  BY <2>1, <4>1 DEF Answered
    <3>2. CASE mainQueue'[k].kind # "answer"
      BY <3>2 DEF Answered
    <3> QED  BY <3>1, <3>2
  <2> QED  BY <1>2, <2>2 DEF LoadsInv
<1>3. CASE ~MovesListeners
  <2>1. UNCHANGED <<listeners, loads>> /\ \A u \in Users : ~RaiseEvent(u)
    BY <1>3, ListenersStay DEF MovesListeners
  <2>2. \A u \in Users : InTurn(u)' /\ Follows(u)
    BY <2>1 DEF LoadsInv, InTurn, Follows
  <2> QED  BY <1>2, <2>1, <2>2
<1>4. CASE GetDocuments
  <2>1. /\ user \in Users /\ loads' = loads + 1 /\ mainQueue' = mainQueue
        /\ listeners' = [listeners EXCEPT ![user] =
                            Append(@, [n |-> loads + 1, raised |-> FALSE])]
    BY <1>4 DEF GetDocuments, Types, Accounts
  <2>2. /\ Len(listeners'[user]) = Len(listeners[user]) + 1
        /\ listeners'[user][Len(listeners[user]) + 1].n = loads + 1
        /\ \A k \in 1..Len(listeners[user]) : listeners'[user][k] = listeners[user][k]
        /\ \A u \in Users : u # user => listeners'[u] = listeners[u]
    <3>1. listeners \in [Users -> Seq(Listeners)] /\ listeners[user] \in Seq(Listeners)
      BY <2>1 DEF Types
    <3>2. listeners'[user] = Append(listeners[user], [n |-> loads + 1, raised |-> FALSE])
      BY <2>1, <3>1
    <3>3. \A u \in Users : u # user => listeners'[u] = listeners[u]
      BY <2>1, <3>1
    <3> QED  BY <3>1, <3>2, <3>3, AppendAny
  <2>3. \A u \in Users : Len(listeners[u]) \in Nat
                         /\ \A k \in 1..Len(listeners[u]) : listeners[u][k].n \in Nat
    BY ListenerTypes
  <2>4. ASSUME NEW u \in Users, NEW k \in 1..Len(listeners'[u])
        PROVE  \/ k \in 1..Len(listeners[u]) /\ listeners'[u][k] = listeners[u][k]
               \/ /\ k = Len(listeners[u]) + 1 /\ u = user
                  /\ listeners'[u][k].n = loads + 1
    BY <2>2, <2>3
  <2>5. ASSUME NEW u \in Users PROVE InTurn(u)'
    <3>1. \A k \in 1..Len(listeners[u]) : listeners[u][k].n <= loads
      BY DEF LoadsInv, InTurn
    <3>2. \A k \in 1..Len(listeners'[u]) : listeners'[u][k].n <= loads'
      BY <1>1, <2>1, <2>3, <2>4, <3>1
    <3>3. ASSUME NEW j \in 1..Len(listeners'[u]), NEW k \in 1..Len(listeners'[u]), j < k
          PROVE  listeners'[u][j].n < listeners'[u][k].n
      <4>1. j \in 1..Len(listeners[u]) /\ listeners'[u][j] = listeners[u][j]
        BY <2>3, <2>4, <3>3
      <4>2. CASE k \in 1..Len(listeners[u]) /\ listeners'[u][k] = listeners[u][k]
        BY <3>3, <4>1, <4>2 DEF LoadsInv, InTurn
      <4>3. CASE listeners'[u][k].n = loads + 1
        BY <1>1, <2>3, <3>1, <4>1, <4>3
      <4> QED  BY <2>4, <4>2, <4>3
    <3> QED  BY <3>2, <3>3 DEF InTurn
  <2>6. ASSUME NEW k \in 1..Len(mainQueue) PROVE Answered(mainQueue[k])'
    <3> SUFFICES ASSUME mainQueue[k].kind = "answer"
                 PROVE  LET r == mainQueue[k].read
                        IN  /\ r.n <= loads'
                            /\ \A j \in 1..Len(listeners'[r.user]) :
                                  listeners'[r.user][j].n = r.n => listeners'[r.user][j].raised
      BY <2>1 DEF Answered
    <3> DEFINE r == mainQueue[k].read
    <3>1. r.n \in Nat /\ r.user \in Users
      BY AnswerTypes
    <3>2. /\ r.n <= loads
          /\ \A j \in 1..Len(listeners[r.user]) :
                listeners[r.user][j].n = r.n => listeners[r.user][j].raised
      BY DEF LoadsInv, Answered
    <3> HIDE DEF r
    <3>3. r.n <= loads' /\ r.n # loads + 1
      BY <1>1, <2>1, <3>1, <3>2
    <3>4. \A j \in 1..Len(listeners'[r.user]) :
             listeners'[r.user][j].n = r.n => listeners'[r.user][j].raised
      BY <2>4, <3>1, <3>2, <3>3
    <3> QED  BY <3>3, <3>4 DEF r
  <2> QED  BY <2>1, <2>5, <2>6 DEF LoadsInv, Answered
<1>5. CASE Terminate
  <2>1. \A u \in Users : \A k \in 1..Len(listeners'[u]) : FALSE
    BY <1>5 DEF Terminate
  <2>2. \A k \in 1..Len(mainQueue') : FALSE
    BY <1>5 DEF Terminate
  <2> QED  BY <2>1, <2>2, Zenon DEF LoadsInv, InTurn
<1>6. ASSUME NEW w \in Users, TargetError(w), \A u \in Users : ~RaiseEvent(u) PROVE LoadsInv'
  <2>1. UNCHANGED loads /\ \A u \in Users : listeners'[u] = listeners[u] \/ listeners'[u] = <<>>
    BY <1>6 DEF TargetError, calls, Types
  <2>2. ASSUME NEW u \in Users PROVE InTurn(u)' /\ Follows(u)
    <3>1. CASE listeners'[u] = listeners[u]
      BY <2>1, <3>1 DEF LoadsInv, InTurn, Follows
    <3>2. CASE listeners'[u] = <<>>
      <4>1. \A k \in 1..Len(listeners'[u]) : FALSE
        BY <3>2
      <4> QED  BY <4>1, Zenon DEF InTurn, Follows
    <3> QED  BY <2>1, <3>1, <3>2
  <2> QED  BY <1>2, <1>6, <2>1, <2>2
<1>7. CASE MainQueueRuns /\ \A u \in Users : ~RaiseEvent(u)
  <2>1. mainQueue # <<>> /\ UNCHANGED loads
    BY <1>7 DEF MainQueueRuns, TakeAnswer, TakeWritten, TakeCredential, calls
  <2>2. CASE TakeAnswer
    <3>1. RemoveListener(Head(mainQueue).read) /\ Head(mainQueue).kind = "answer"
      BY <2>2 DEF TakeAnswer
    <3>2. Head(mainQueue) \in Closures
      BY <1>1, <2>1, TailFacts
    <3>3. Head(mainQueue).read \in Reads
      BY <3>1, <3>2 DEF Closures
    <3>4. \A u \in Users : InTurn(u)' /\ Follows(u)
      BY <2>1, <3>1, <3>3, RemoveInTurn DEF LoadsInv
    <3> QED  BY <1>2, <1>7, <2>1, <3>4
  <2>3. CASE TakeWritten \/ TakeCredential
    <3>1. UNCHANGED listeners
      BY <2>3 DEF TakeWritten, TakeCredential, reading
    <3>2. \A u \in Users : InTurn(u)' /\ Follows(u)
      BY <2>1, <3>1 DEF LoadsInv, InTurn, Follows
    <3> QED  BY <1>2, <1>7, <2>1, <3>2
  <2> QED  BY <1>7, <2>2, <2>3 DEF MainQueueRuns
<1>8. ASSUME NEW w \in Users, RaiseEvent(w) PROVE LoadsInv'
  <2> DEFINE k == nextListener(w)
             a == [kind |-> "answer", ok |-> views[w] # "failed",
                   read |-> [n |-> listeners[w][k].n, user |-> w],
                   docs |-> IF views[w] # "failed" THEN Shown(w) ELSE NoDocs]
  <2>1. UNCHANGED loads /\ mainQueue' = Append(mainQueue, a)
    BY <1>8 DEF RaiseEvent, calls
  <2>2. \A u \in Users : InTurn(u)' /\ Follows(u)
    BY <1>8, RaiseInTurn DEF LoadsInv
  <2>3. \A j \in 1..Len(mainQueue) : \A c : c = mainQueue[j] => Answered(c)'
    BY <2>1, <2>2, AnsweredStill
  <2>4. \A c : c = a => Answered(c)'
    <3> DEFINE r == [n |-> listeners[w][k].n, user |-> w]
    <3>1. /\ k \in 1..Len(listeners[w]) /\ k \in Waiting(w)
          /\ \/ listeners'[w] = <<>>
             \/ /\ Len(listeners'[w]) = Len(listeners[w])
                /\ listeners'[w][k].raised
                /\ \A j \in 1..Len(listeners[w]) : j # k => listeners'[w][j] = listeners[w][j]
      BY <1>8, RaiseFacts
    <3> HIDE DEF k
    <3>2. InTurn(w) /\ \A j \in 1..Len(listeners[w]) : listeners[w][j].n \in Nat
      BY ListenerTypes DEF LoadsInv
    <3>3. listeners[w][k].n <= loads'
      BY <2>1, <3>1, <3>2 DEF InTurn
    <3>4. \A j \in 1..Len(listeners[w]) : j # k => listeners[w][j].n # listeners[w][k].n
      <4>1. \A j \in 1..Len(listeners[w]) : j # k => j < k \/ k < j
        BY <3>1
      <4>2. \A j \in 1..Len(listeners[w]) :
               /\ j < k => listeners[w][j].n < listeners[w][k].n
               /\ k < j => listeners[w][k].n < listeners[w][j].n
        BY <3>1, <3>2 DEF InTurn
      <4> QED  BY <3>1, <3>2, <4>1, <4>2
    <3>5. \A j \in 1..Len(listeners'[w]) :
             listeners'[w][j].n = listeners[w][k].n => listeners'[w][j].raised
      <4>1. CASE listeners'[w] = <<>>
        <5>1. \A j \in 1..Len(listeners'[w]) : FALSE
          BY <4>1
        <5> QED  BY <5>1, Zenon
      <4>2. CASE listeners'[w] # <<>>
        BY <3>1, <3>4, <4>2
      <4> QED  BY <4>1, <4>2
    <3>6. a.read = r /\ r.n = listeners[w][k].n /\ r.user = w
      OBVIOUS
    <3> HIDE DEF a, r
    <3> QED  BY <3>3, <3>5, <3>6 DEF Answered
  <2>5. /\ Len(mainQueue) \in Nat /\ Len(mainQueue') = Len(mainQueue) + 1
        /\ \A j \in 1..Len(mainQueue) : mainQueue'[j] = mainQueue[j]
        /\ mainQueue'[Len(mainQueue) + 1] = a
    BY <1>1, <2>1, AppendAny
  <2> HIDE DEF a
  <2>6. ASSUME NEW j \in 1..Len(mainQueue') PROVE Answered(mainQueue[j])'
    <3>1. CASE j \in 1..Len(mainQueue)
      BY <2>3, <2>5, <3>1 DEF Answered
    <3>2. CASE j = Len(mainQueue) + 1
      <4>1. mainQueue'[j] = a
        BY <2>5, <3>2
      <4> QED  BY <2>4, <4>1 DEF Answered
    <3> QED  BY <2>5, <3>1, <3>2
  <2> QED  BY <2>2, <2>6 DEF LoadsInv
<1> QED  BY <1>3, <1>4, <1>5, <1>6, <1>7, <1>8 DEF MovesListeners

-----------------------------------------------------------------------------
(* A UUID has one completion *)

\* A completion is named after the note its batch creates.
Named(c) ==
    \A k \in 1..Len(queue[c.q]) : queue[c.q][k].b = c.b => queue[c.q][k].id = c.id

\* A completion on the main queue is the only one of its UUID.
OnlyOne(k) ==
    mainQueue[k].kind = "written" =>
        /\ owner[mainQueue[k].id] # NoUser
        /\ \A c \in callbacks : c.id # mainQueue[k].id
        /\ \A j \in 1..Len(mainQueue) :
              mainQueue[j].kind = "written" /\ mainQueue[j].id = mainQueue[k].id => j = k

AddsInv ==
    /\ \A c \in callbacks : owner[c.id] # NoUser /\ Named(c)
    /\ \A c, d \in callbacks : c.id = d.id => c = d
    /\ \A k \in 1..Len(mainQueue) : OnlyOne(k)

LEMMA AddsInit == Init => AddsInv
<1> SUFFICES ASSUME Init PROVE AddsInv
  OBVIOUS
<1>1. \A k \in 1..Len(mainQueue) : FALSE
  BY DEF Init
<1>2. callbacks = {}
  BY DEF Init
<1> QED  BY <1>1, <1>2, Zenon DEF AddsInv

LEMMA CallbackTypes ==
    ASSUME Types, CallbacksInv, NEW c \in callbacks
    PROVE  /\ c.q \in Accounts /\ c.id \in NoteIds /\ c.b \in Nat
           /\ c.b <= writes
    BY DEF Types, Callbacks, CallbacksInv

LEMMA WrittenTypes ==
    ASSUME Types, NEW k \in 1..Len(mainQueue), mainQueue[k].kind = "written"
    PROVE  mainQueue[k].id \in NoteIds
<1>1. mainQueue[k] \in Closures
  BY DEF Types
<1> QED  BY <1>1 DEF Closures

\* Whatever happens to the queues, a completion is of the same note.
LEMMA NamedStep ==
    ASSUME IInv, WritingStep
    PROVE  \A c \in callbacks : Named(c) => Named(c)'
<1> SUFFICES ASSUME NEW c \in callbacks, Named(c)
             PROVE  \A k \in 1..Len(queue'[c.q]) : queue'[c.q][k].b = c.b => queue'[c.q][k].id = c.id
  BY DEF Named
<1>0. Types /\ StreamsFit /\ CallbacksInv
  BY Zenon DEF IInv, ResultsInv
<1>1. /\ Types /\ StreamsFit /\ CallbacksInv /\ writes \in Nat
      /\ c.q \in Accounts /\ c.b \in Nat /\ c.b <= writes
  <2>1. writes \in Nat
    BY <1>0 DEF Types
  <2> QED  BY <1>0, <2>1, CallbackTypes
<1>2. ASSUME NEW batch \in Batches, Adds(batch)
      PROVE  \A k \in 1..Len(queue'[c.q]) : queue'[c.q][k].b = c.b => queue'[c.q][k].id = c.id
  <2>1. batch.b = writes + 1 /\ batch.b # c.b
    BY <1>1, <1>2 DEF Adds
  <2>2. ASSUME NEW k \in 1..Len(queue'[c.q]), queue'[c.q][k].b = c.b
        PROVE  queue'[c.q][k].id = c.id
    <3>1. CASE c.q = engineUser
      <4>1. k \in 1..Len(queue[c.q]) /\ queue'[c.q][k] = queue[c.q][k]
        BY <1>1, <1>2, <2>1, <2>2, <3>1, AddsFacts
      <4> QED  BY <2>2, <4>1 DEF Named
    <3>2. CASE c.q # engineUser
      <4>1. queue'[c.q] = queue[c.q]
        BY <1>1, <1>2, <3>2, AddsFacts
      <4> QED  BY <2>2, <4>1 DEF Named
    <3> QED  BY <3>1, <3>2
  <2> QED  BY <2>2
<1>3. CASE MutationResult \/ WriteRefused
  <2>1. Drops
    BY <1>1, <1>3, MutationFacts, RefusalFacts
  <2>2. CASE c.q = engineUser
    <3>1. \A k \in 1..Len(queue'[c.q]) : /\ k + 1 \in 1..Len(queue[c.q])
                                         /\ queue'[c.q][k] = queue[c.q][k + 1]
      BY <1>1, <2>1, <2>2, DropsFacts
    <3> QED  BY <3>1 DEF Named
  <2>3. CASE c.q # engineUser
    BY <1>1, <2>1, <2>3, DropsFacts DEF Named
  <2> QED  BY <2>2, <2>3
<1>4. CASE UNCHANGED queue
  BY <1>4 DEF Named
<1>5. CASE \/ ServerCommits \/ Resets \/ Quiet
           \/ \E u \in Users, id \in NoteIds, text \in Texts : OtherDevice(u, id, text)
  <2>1. UNCHANGED queue
    BY <1>5 DEF ServerCommits, Resets, Quiet, OtherDevice, localData
  <2> QED  BY <1>4, <2>1
<1> QED  BY <1>2, <1>3, <1>5 DEF WritingStep

\* The completions on the main queue stay, or move up by one.
Moves(d) ==
    \A k \in 1..Len(mainQueue') :
        mainQueue'[k].kind = "written" =>
            k + d \in 1..Len(mainQueue) /\ mainQueue'[k] = mainQueue[k + d]

LEMMA CompletionsMove ==
    ASSUME Types, StreamsFit, [Next]_vars, ~MutationResult, ~WriteRefused
    PROVE  Moves(0) \/ Moves(1)
<1>1. mainQueue \in Seq(Closures)
  BY DEF Types
<1>2. CASE mainQueue' = mainQueue
  <2>1. \A k \in 1..Len(mainQueue) : k + 0 = k
    OBVIOUS
  <2> QED  BY <1>2, <2>1 DEF Moves
<1>3. CASE mainQueue' = <<>>
  <2>1. \A k \in 1..Len(mainQueue') : FALSE
    BY <1>3
  <2> QED  BY <2>1, Zenon DEF Moves
<1>4. CASE mainQueue # <<>> /\ mainQueue' = Tail(mainQueue)
  BY <1>1, <1>4, TailFacts DEF Moves
<1>5. ASSUME NEW c, mainQueue' = Append(mainQueue, c), c.kind # "written" PROVE Moves(0)
  <2>1. /\ Len(mainQueue) \in Nat /\ Len(mainQueue') = Len(mainQueue) + 1
        /\ \A k \in 1..Len(mainQueue) : mainQueue'[k] = mainQueue[k]
        /\ mainQueue'[Len(mainQueue) + 1] = c
    BY <1>1, <1>5, AppendAny
  <2> QED  BY <1>5, <2>1 DEF Moves
<1>6. \/ mainQueue' = mainQueue
      \/ mainQueue' = <<>>
      \/ mainQueue # <<>> /\ mainQueue' = Tail(mainQueue)
      \/ \E c : mainQueue' = Append(mainQueue, c) /\ c.kind # "written"
  BY MainQueueSteps
<1> QED  BY <1>2, <1>3, <1>4, <1>5, <1>6

\* No completion is new.
LEMMA AddsKept ==
    ASSUME IInv, OwnerInv, AddsInv, [Next]_vars, WritingStep,
           callbacks' \subseteq callbacks, Moves(0) \/ Moves(1)
    PROVE  AddsInv'
<1>1. Types /\ CallbacksInv
  BY DEF IInv
<1>2. \A c \in callbacks' : owner'[c.id] # NoUser
  BY <1>1, CallbackTypes, OwnerKeeps DEF AddsInv
<1>3. \A c \in callbacks' : Named(c)'
  BY NamedStep DEF AddsInv
<1>4. ASSUME NEW d \in {0, 1}, Moves(d), NEW k \in 1..Len(mainQueue'), mainQueue'[k].kind = "written"
      PROVE  OnlyOne(k)'
  <2>1. k + d \in 1..Len(mainQueue) /\ mainQueue'[k] = mainQueue[k + d]
    BY <1>4 DEF Moves
  <2>2. OnlyOne(k + d)
    BY <2>1 DEF AddsInv
  <2>3. owner'[mainQueue'[k].id] # NoUser
    BY <1>1, <1>4, <2>1, <2>2, WrittenTypes, OwnerKeeps DEF OnlyOne
  <2>4. \A c \in callbacks' : c.id # mainQueue'[k].id
    BY <1>4, <2>1, <2>2 DEF OnlyOne
  <2>5. ASSUME NEW j \in 1..Len(mainQueue'), mainQueue'[j].kind = "written",
               mainQueue'[j].id = mainQueue'[k].id
        PROVE  j = k
    <3>1. j + d \in 1..Len(mainQueue) /\ mainQueue'[j] = mainQueue[j + d]
      BY <1>4, <2>5 DEF Moves
    <3>2. j + d = k + d
      BY <1>4, <2>1, <2>2, <2>5, <3>1 DEF OnlyOne
    <3>3. j \in Nat /\ k \in Nat /\ d \in Nat
      OBVIOUS
    <3> QED  BY <3>2, <3>3
  <2> QED  BY <2>3, <2>4, <2>5 DEF OnlyOne
<1>5. \A k \in 1..Len(mainQueue') : OnlyOne(k)'
  <2>1. PICK d \in {0, 1} : Moves(d)
    OBVIOUS
  <2>2. \A k \in 1..Len(mainQueue') : mainQueue'[k].kind = "written" => OnlyOne(k)'
    BY <1>4, <2>1
  <2> QED  BY <2>2 DEF OnlyOne
<1> QED  BY <1>2, <1>3, <1>5 DEF AddsInv

\* NotifyUser, of the oldest batch.
LEMMA AddsNotified ==
    ASSUME IInv, OwnerInv, AddsInv, [Next]_vars, WritingStep, MutationResult \/ WriteRefused
    PROVE  AddsInv'
<1> DEFINE batch == queue[engineUser][1]
           mine == {c \in callbacks : c.q = engineUser /\ c.b = batch.b}
<1>1. Types /\ CallbacksInv /\ StreamsFit /\ engineUser \in Accounts /\ mainQueue \in Seq(Closures)
  BY DEF IInv, ResultsInv, Types
<1>2. Drops /\ Head(Pipeline) = batch
  BY <1>1, MutationFacts, RefusalFacts
<1>3. PICK ok \in BOOLEAN : NotifyUser(batch, ok)
  BY <1>2 DEF MutationResult, WriteRefused
<1>4. 1 \in 1..Len(queue[engineUser])
  BY <1>1, <1>2, DropsFacts
<1> HIDE DEF batch
<1>5. callbacks' = callbacks \ mine
  BY <1>3 DEF NotifyUser
<1>6. CASE mine = {}
  <2>1. mainQueue' = mainQueue
    BY <1>3, <1>6 DEF NotifyUser
  <2>2. Moves(0)
    <3>1. \A k \in 1..Len(mainQueue) : k + 0 = k
      OBVIOUS
    <3> QED  BY <2>1, <3>1 DEF Moves
  <2> QED  BY <1>5, <2>2, AddsKept
<1>7. CASE mine # {}
  <2>1. PICK c \in callbacks : c.q = engineUser /\ c.b = batch.b
    BY <1>7
  <2>2. c.id = batch.id
    <3>1. Named(c)
      BY DEF AddsInv
    <3> QED  BY <1>4, <2>1, <3>1 DEF Named, batch
  <2>3. /\ Len(mainQueue) \in Nat /\ Len(mainQueue') = Len(mainQueue) + 1
        /\ \A k \in 1..Len(mainQueue) : mainQueue'[k] = mainQueue[k]
        /\ mainQueue'[Len(mainQueue) + 1].kind = "written"
        /\ mainQueue'[Len(mainQueue) + 1].id = c.id
    <3>1. mainQueue' = Append(mainQueue, Written(batch, ok))
      BY <1>3, <1>7 DEF NotifyUser, Written
    <3>2. Written(batch, ok).kind = "written" /\ Written(batch, ok).id = batch.id
      BY DEF Written
    <3> QED  BY <1>1, <2>2, <3>1, <3>2, AppendAny
  <2>4. \A d \in callbacks' : d \in callbacks /\ d.id # c.id
    BY <1>5, <2>1 DEF AddsInv
  <2>5. \A k \in 1..Len(mainQueue) : mainQueue[k].kind = "written" =>
           /\ owner'[mainQueue[k].id] # NoUser
           /\ mainQueue[k].id # c.id
           /\ \A d \in callbacks' : d.id # mainQueue[k].id
    <3>1. ASSUME NEW k \in 1..Len(mainQueue), mainQueue[k].kind = "written"
          PROVE  /\ owner'[mainQueue[k].id] # NoUser
                 /\ \A d \in callbacks : d.id # mainQueue[k].id
      <4>1. OnlyOne(k)
        BY DEF AddsInv
      <4> QED  BY <1>1, <3>1, <4>1, WrittenTypes, OwnerKeeps DEF OnlyOne
    <3> QED  BY <2>4, <3>1
  <2>6. owner'[c.id] # NoUser /\ \A d \in callbacks' : owner'[d.id] # NoUser
    BY <1>1, <2>4, CallbackTypes, OwnerKeeps DEF AddsInv
  <2>7. \A d \in callbacks' : Named(d)'
    BY <2>4, NamedStep DEF AddsInv
  <2>8. ASSUME NEW j \in 1..Len(mainQueue'), NEW k \in 1..Len(mainQueue'),
               mainQueue'[j].kind = "written", mainQueue'[k].kind = "written",
               mainQueue'[j].id = mainQueue'[k].id
        PROVE  j = k
    <3>1. CASE j \in 1..Len(mainQueue) /\ k \in 1..Len(mainQueue)
      <4>1. OnlyOne(k)
        BY <3>1 DEF AddsInv
      <4> QED  BY <2>3, <2>8, <3>1, <4>1 DEF OnlyOne
    <3>2. CASE ~(j \in 1..Len(mainQueue) /\ k \in 1..Len(mainQueue))
      BY <2>3, <2>5, <2>8, <3>2
    <3> QED  BY <3>1, <3>2
  <2>9. ASSUME NEW k \in 1..Len(mainQueue'), mainQueue'[k].kind = "written"
        PROVE  owner'[mainQueue'[k].id] # NoUser /\ \A d \in callbacks' : d.id # mainQueue'[k].id
    BY <2>3, <2>4, <2>5, <2>6, <2>9
  <2>10. \A k \in 1..Len(mainQueue') : OnlyOne(k)'
    BY <2>8, <2>9 DEF OnlyOne
  <2>11. \A d, e \in callbacks' : d.id = e.id => d = e
    BY <2>4 DEF AddsInv
  <2> QED  BY <2>6, <2>7, <2>10, <2>11 DEF AddsInv
<1> QED  BY <1>6, <1>7

\* A new completion is of a UUID that had no account.
LEMMA AddsAdded ==
    ASSUME IInv, OwnerInv, AddsInv, [Next]_vars, WritingStep,
           NEW id \in NoteIds, NEW text \in Details, SetData(id, text)
    PROVE  AddsInv'
<1> DEFINE new == [q |-> engineUser, b |-> writes + 1, id |-> id]
<1>1. Types /\ CallbacksInv /\ QueueInv /\ engineUser \in Accounts /\ user \in Accounts /\ writes \in Nat
  BY DEF IInv, Types
<1>2. /\ callbacks' = callbacks \cup {new} /\ mainQueue' = mainQueue
      /\ owner[id] = NoUser /\ owner'[id] = user /\ user # NoUser
      /\ queue' = [queue EXCEPT ![engineUser] = Append(@, Batch(id, "set", text))]
  BY <1>1 DEF SetData, WriteMutations, FreshId, Types
<1>3. new.q = engineUser /\ new.b = writes + 1 /\ new.id = id
  OBVIOUS
<1> HIDE DEF new
<1>4. \A c \in callbacks : c.id # id /\ owner'[c.id] # NoUser
  BY <1>1, <1>2, CallbackTypes, OwnerKeeps DEF AddsInv
<1>5. \A c \in callbacks : Named(c)'
  BY NamedStep DEF AddsInv
<1>6. \A c : c = new => Named(c)'
  <2>1. queue[engineUser] \in Seq(Batches) /\ queue \in [Accounts -> Seq(Batches)]
    BY <1>1 DEF Types
  <2>2. queue'[engineUser] = Append(queue[engineUser], Batch(id, "set", text))
    BY <1>1, <1>2, <2>1
  <2>3. /\ Len(queue[engineUser]) \in Nat
        /\ Len(queue'[engineUser]) = Len(queue[engineUser]) + 1
        /\ \A k \in 1..Len(queue[engineUser]) : queue'[engineUser][k] = queue[engineUser][k]
        /\ queue'[engineUser][Len(queue[engineUser]) + 1] = Batch(id, "set", text)
    BY <2>1, <2>2, AppendAny
  <2>4. \A k \in 1..Len(queue[engineUser]) : queue[engineUser][k].b # writes + 1
    BY <1>1, QueueTypes DEF QueueInv
  <2>5. Batch(id, "set", text).id = id
    BY DEF Batch
  <2>6. \A k \in 1..Len(queue'[engineUser]) :
           queue'[engineUser][k].b = writes + 1 => queue'[engineUser][k].id = id
    <3>1. ASSUME NEW k \in 1..Len(queue'[engineUser])
          PROVE  k \in 1..Len(queue[engineUser]) \/ k = Len(queue[engineUser]) + 1
      BY <2>3
    <3> QED  BY <2>3, <2>4, <2>5, <3>1
  <2> QED  BY <1>3, <2>6 DEF Named
<1>7. ASSUME NEW k \in 1..Len(mainQueue), mainQueue[k].kind = "written"
      PROVE  OnlyOne(k)'
  <2>1. OnlyOne(k)
    BY DEF AddsInv
  <2>2. mainQueue[k].id \in NoteIds
    BY <1>1, <1>7, WrittenTypes
  <2>3. owner'[mainQueue[k].id] # NoUser /\ mainQueue[k].id # id
    BY <1>2, <1>7, <2>1, <2>2, OwnerKeeps DEF OnlyOne
  <2> QED  BY <1>2, <1>3, <1>7, <2>1, <2>3 DEF OnlyOne
<1>8. \A k \in 1..Len(mainQueue') : OnlyOne(k)'
  BY <1>2, <1>7 DEF OnlyOne
<1>9. \A c, d \in callbacks' : c.id = d.id => c = d
  BY <1>2, <1>3, <1>4 DEF AddsInv
<1>10. \A c \in callbacks' : owner'[c.id] # NoUser /\ Named(c)'
  BY <1>2, <1>3, <1>4, <1>5, <1>6
<1> QED  BY <1>8, <1>9, <1>10 DEF AddsInv

\* Completions come of SetData only.
LEMMA CallbacksDrop ==
    ASSUME [Next]_vars
    PROVE  \/ callbacks' \subseteq callbacks
           \/ \E id \in NoteIds, text \in Details : SetData(id, text)
<1> USE DEF localData
<1>1. CASE \/ \E id \in NoteIds, text \in Details : UpdateData(id, text)
           \/ \E id \in NoteIds : DeleteDocument(id)
           \/ WriteStreamOpens \/ ServerCommits \/ MutationResult \/ WriteRefused
           \/ WriteStreamCloses \/ WatchSnapshot \/ UNCHANGED vars
           \/ \E u \in Users, id \in NoteIds, text \in Texts : OtherDevice(u, id, text)
  BY <1>1 DEF UpdateData, DeleteDocument, WriteStreamOpens, ServerCommits, MutationResult,
              WriteRefused, NotifyUser, WriteStreamCloses, WatchSnapshot, OtherDevice, vars
<1>2. CASE \/ GetDocuments \/ WatchStreamOpens \/ WatchStreamCloses
           \/ OnlineStateTimeout \/ WatchMessage
           \/ \E u \in Users : ServerSendsSnapshot(u) \/ TargetError(u) \/ RaiseEvent(u)
  BY <1>2 DEF GetDocuments, WatchStreamOpens, WatchStreamCloses,
              OnlineStateTimeout, WatchMessage, ServerSendsSnapshot, TargetError, RaiseEvent
<1>3. CASE \/ MainQueueRuns \/ ConnectivityChange \/ Terminate
           \/ \E u \in Accounts : CredentialChange(u)
  BY <1>3 DEF MainQueueRuns, TakeAnswer, TakeWritten, TakeCredential,
              ConnectivityChange, Terminate, CredentialChange
<1> QED  BY <1>1, <1>2, <1>3 DEF Next

LEMMA AddsStep ==
    ASSUME IInv, OwnerInv, AddsInv, [Next]_vars, WritingStep
    PROVE  AddsInv'
<1>1. Types /\ StreamsFit
  BY DEF IInv, ResultsInv
<1>2. CASE MutationResult \/ WriteRefused
  BY <1>2, AddsNotified
<1>3. CASE ~MutationResult /\ ~WriteRefused /\ callbacks' \subseteq callbacks
  <2>1. Moves(0) \/ Moves(1)
    BY <1>1, <1>3, CompletionsMove
  <2> QED  BY <1>3, <2>1, AddsKept
<1>4. CASE \E id \in NoteIds, text \in Details : SetData(id, text)
  BY <1>4, AddsAdded
<1> QED  BY <1>2, <1>3, <1>4, CallbacksDrop

-----------------------------------------------------------------------------
(* What a View holds back is still a document *)

Local == [u \in Users |-> LocalView(u)]

LEMMA LocalKept ==
    ASSUME UNCHANGED <<engineUser, queue, cache>>
    PROVE  Local' = Local
    BY DEF Local, LocalView

\* A call shows at once, in the documents of the user and nowhere else.
LEMMA LocalOfCall ==
    ASSUME Types, NEW batch \in Batches, Adds(batch), UNCHANGED cache
    PROVE  \A u \in Users, id \in NoteIds :
              Local'[u][id] = IF batch.u = u /\ batch.id = id
                              THEN mutated(Local[u][id], batch) ELSE Local[u][id]
<1> SUFFICES ASSUME NEW u \in Users, NEW id \in NoteIds
             PROVE  Local'[u][id] = IF batch.u = u /\ batch.id = id
                                    THEN mutated(Local[u][id], batch) ELSE Local[u][id]
  OBVIOUS
<1> DEFINE q == queue[engineUser]
           text == cache[u][id].text
<1>1. q \in Seq(Batches) /\ text \in Texts /\ engineUser \in Accounts
  BY DEF Types, Entries
<1>2. /\ queue'[engineUser'] = Append(q, batch) /\ cache'[u][id].text = text
      /\ Len(queue'[engineUser']) = Len(q) + 1
  BY <1>1, AppendFacts DEF Adds, Types
<1>3. Local[u][id] = laidOver(text, u, id, q)[Len(q)]
  BY DEF Local, LocalView
<1>4. Local'[u][id] = laidOver(cache'[u][id].text, u, id, queue'[engineUser'])[Len(queue'[engineUser'])]
  BY DEF Local, LocalView
<1> HIDE DEF q, text
<1> QED  BY <1>1, <1>2, <1>3, <1>4, LaidOverAppend

\* A View shows another text than the local one only of a local document.
HeldInv == \A u \in Users, id \in NoteIds : held[u][id] # Absent => Local[u][id] # Absent

LEMMA HeldInvInit == Init => HeldInv
    BY DEF Init, HeldInv, NoTexts, NoDocs

LEMMA HeldInvStep ==
    ASSUME IInv, OwnerInv, HeldInv, [Next]_vars
    PROVE  HeldInv'
<1>1. Types /\ held \in [Users -> Docs]
  BY DEF IInv, HeldTypes
<1> SUFFICES ASSUME NEW u \in Users, NEW id \in NoteIds, held'[u][id] # Absent
             PROVE  Local'[u][id] # Absent
  BY DEF HeldInv
<1>2. CASE EmitNewSnapshots
  <2>1. LocalView(u)'[id] # Absent
    BY <1>2 DEF EmitNewSnapshots, computed
  <2> QED  BY <2>1 DEF Local
<1>3. CASE held' = NoTexts
  BY <1>3 DEF NoTexts, NoDocs
<1>4. CASE IsCall
  <2>1. PICK batch \in Batches : Calls(batch)
    BY <1>4, CallSteps
  <2>2. UNCHANGED cache
    BY <1>4 DEF IsCall, SetData, UpdateData, DeleteDocument, WriteMutations
  <2>3. held' = [held EXCEPT ![batch.u][batch.id] = Absent]
    BY <2>1 DEF Calls
  <2>4. ~(batch.u = u /\ batch.id = id) /\ held[u][id] # Absent
    BY <1>1, <2>3 DEF Docs
  <2>5. Local'[u][id] = Local[u][id]
    BY <1>1, <2>1, <2>2, <2>4, LocalOfCall DEF Calls
  <2> QED  BY <2>4, <2>5 DEF HeldInv
<1>5. ASSUME UNCHANGED <<engineUser, queue, cache>>,
             UNCHANGED held \/ \E w : held' = [held EXCEPT ![w] = NoDocs]
      PROVE  Local'[u][id] # Absent
  <2>1. held[u][id] # Absent
    BY <1>1, <1>5 DEF NoDocs
  <2> QED  BY <1>5, <2>1, LocalKept DEF HeldInv
<1> QED  BY <1>1, <1>2, <1>3, <1>4, <1>5, HeldKinds

-----------------------------------------------------------------------------
(* The invariant *)

CInv == IInv /\ OwnerInv /\ HeldInv /\ LoadsInv /\ AddsInv

LEMMA CInvInit == Init => CInv
    BY InitIInv, OwnerInit, HeldInvInit, LoadsInit, AddsInit DEF CInv

LEMMA CInvStep == CInv /\ [Next]_vars => CInv'
<1> SUFFICES ASSUME CInv, [Next]_vars PROVE CInv'
  OBVIOUS
<1> USE DEF CInv
<1>1. IInv'
  BY IInvStep
<1>2. Types /\ StreamsFit /\ Types'
  BY <1>1 DEF IInv, ResultsInv
<1>3. WritingStep
  BY <1>2, WritingSteps
<1>4. OwnerInv'
  BY <1>3, OwnerStep
<1>5. LoadsInv'
  BY <1>2, LoadsStep
<1>6. AddsInv'
  BY <1>3, AddsStep
<1>7. HeldInv'
  BY HeldInvStep
<1> QED  BY <1>1, <1>4, <1>5, <1>6, <1>7

LEMMA CInvariance == Spec => []CInv
    BY CInvInit, CInvStep, PTL DEF Spec

-----------------------------------------------------------------------------
(* The store of the contract *)

Store == [u \in Users |-> Shown(u)]

LEMMA StoreType == Types /\ HeldTypes => Store \in [Users -> Docs]
    BY ShownType DEF Store

LEMMA StoreOfText ==
    \A u \in Users, id \in NoteIds :
        Store[u][id] = IF held[u][id] # Absent THEN held[u][id] ELSE Local[u][id]
    BY DEF Store, Local, Shown

LEMMA StoreOfTextThen ==
    \A u \in Users, id \in NoteIds :
        Store'[u][id] = IF held'[u][id] # Absent THEN held'[u][id] ELSE Local'[u][id]
<1>1. (\A u \in Users, id \in NoteIds :
          Store[u][id] = IF held[u][id] # Absent THEN held[u][id] ELSE Local[u][id])'
  BY StoreOfText, PTL
<1> QED  BY <1>1

LEMMA StoreKept ==
    ASSUME UNCHANGED <<engineUser, queue, cache, held>>
    PROVE  Store' = Store
    BY DEF Store, Shown, LocalView

\* A document is reported if and only if it is a local one.
LEMMA StorePresent ==
    HeldInv => \A u \in Users, id \in NoteIds : Store[u][id] = Absent <=> Local[u][id] = Absent
    BY StoreOfText DEF HeldInv

LEMMA StorePresentThen ==
    HeldInv' => \A u \in Users, id \in NoteIds : Store'[u][id] = Absent <=> Local'[u][id] = Absent
<1>1. (HeldInv => \A u \in Users, id \in NoteIds :
                     Store[u][id] = Absent <=> Local[u][id] = Absent)'
  BY StorePresent, PTL
<1> QED  BY <1>1

LEMMA StoreOfCall ==
    ASSUME Types, HeldTypes, HeldInv, NEW batch \in Batches, Calls(batch), UNCHANGED cache
    PROVE  \A u \in Users, id \in NoteIds :
              Store'[u][id] = IF batch.u = u /\ batch.id = id
                              THEN mutated(Store[u][id], batch) ELSE Store[u][id]
<1> SUFFICES ASSUME NEW u \in Users, NEW id \in NoteIds
             PROVE  Store'[u][id] = IF batch.u = u /\ batch.id = id
                                    THEN mutated(Store[u][id], batch) ELSE Store[u][id]
  OBVIOUS
<1>1. held \in [Users -> Docs] /\ held' = [held EXCEPT ![batch.u][batch.id] = Absent]
  BY DEF HeldTypes, Calls
<1>2. Local'[u][id] = IF batch.u = u /\ batch.id = id
                      THEN mutated(Local[u][id], batch) ELSE Local[u][id]
  BY LocalOfCall DEF Calls
<1>3. CASE batch.u = u /\ batch.id = id
  <2>1. held'[u][id] = Absent
    BY <1>1, <1>3 DEF Docs
  <2>2. Store'[u][id] = Local'[u][id]
    BY <2>1, StoreOfTextThen
  <2>3. Store[u][id] = Absent <=> Local[u][id] = Absent
    BY StorePresent
  <2>4. mutated(Local[u][id], batch) = mutated(Store[u][id], batch)
    BY <2>3 DEF mutated, Batches
  <2> QED  BY <1>2, <1>3, <2>2, <2>4
<1>4. CASE ~(batch.u = u /\ batch.id = id)
  <2>1. held'[u][id] = held[u][id]
    BY <1>1, <1>4 DEF Docs
  <2> QED  BY <1>2, <1>4, <2>1, StoreOfText, StoreOfTextThen
<1> QED  BY <1>3, <1>4

LEMMA StoreOfUserCall ==
    ASSUME CInv, CInv', NEW batch \in Batches, Calls(batch), UNCHANGED cache
    PROVE  Store' = [Store EXCEPT ![user] = [Store[user] EXCEPT ![batch.id] = mutated(@, batch)]]
<1> DEFINE S == Store
           T == Store'
<1>1. S \in [Users -> Docs] /\ T \in [Users -> Docs]
  <2>1. (Types /\ HeldTypes => Store \in [Users -> Docs])'
    BY StoreType, PTL
  <2> QED  BY <2>1, StoreType DEF CInv, IInv, Docs, Texts
<1>2. user \in Users /\ batch.u = user /\ batch.id \in NoteIds
  BY DEF Calls, Batches
<1>3. \A u \in Users, id \in NoteIds :
         T[u][id] = IF batch.u = u /\ batch.id = id THEN mutated(S[u][id], batch) ELSE S[u][id]
  BY StoreOfCall DEF CInv, IInv
<1> HIDE DEF S, T
<1>4. \A u \in Users : T[u] = IF u = user THEN [S[u] EXCEPT ![batch.id] = mutated(@, batch)] ELSE S[u]
  BY <1>1, <1>2, <1>3 DEF Docs
<1> DEFINE docs == [S[user] EXCEPT ![batch.id] = mutated(@, batch)]
<1>5. T = [S EXCEPT ![user] = docs]
  <2>1. \A u \in Users : T[u] = IF u = user THEN docs ELSE S[u]
    BY <1>4
  <2> HIDE DEF docs
  <2> QED  BY <1>1, <2>1
<1> QED  BY <1>5 DEF S, T

\* What the View of one account holds back is let go of.
LEMMA TextsOfUser ==
    ASSUME CInv, CInv', NEW u \in Users, UNCHANGED <<engineUser, queue, cache>>,
           UNCHANGED held \/ held' = [held EXCEPT ![u] = NoDocs]
    PROVE  Contract!TextsChange(u)
<1>1. Store \in [Users -> Docs] /\ Store' \in [Users -> Docs]
  <2>1. (Types /\ HeldTypes => Store \in [Users -> Docs])'
    BY StoreType, PTL
  <2> QED  BY <2>1, StoreType DEF CInv, IInv, Docs, Texts
<1>2. Local' = Local
  BY LocalKept
<1>3. ASSUME NEW id \in NoteIds PROVE Store'[u][id] = Absent <=> Store[u][id] = Absent
  BY <1>2, StorePresent, StorePresentThen DEF CInv
<1>4. ASSUME NEW w \in Users, w # u PROVE Store'[w] = Store[w]
  <2>1. held'[w] = held[w]
    BY <1>4 DEF CInv, IInv, HeldTypes
  <2>2. \A id \in NoteIds : Store'[w][id] = Store[w][id]
    BY <1>2, <2>1, StoreOfText, StoreOfTextThen
  <2> QED  BY <1>1, <2>2 DEF Docs
<1> DEFINE docs == Store'[u]
<1>5. docs \in [NoteIds -> Details \cup {Absent}]
  BY <1>1 DEF Docs, Texts
<1>6. Store' = [Store EXCEPT ![u] = docs]
  BY <1>1, <1>4
<1> HIDE DEF docs
<1>7. \A id \in NoteIds : docs[id] = Absent <=> Store[u][id] = Absent
  BY <1>3 DEF docs
<1> QED  BY <1>5, <1>6, <1>7 DEF Contract!TextsChange, Contract!Docs, Store

\* Whatever a step does to the documents, a UUID stays with its account.
LEMMA AnyChange ==
    ASSUME CInv, CInv', [Next]_vars
    PROVE  Contract!DocumentsChange
<1> DEFINE new == owner'
           docs == [id \in NoteIds |-> IF new[id] \in Users THEN Store'[new[id]][id] ELSE Absent]
<1>1. Types /\ Types' /\ IInv /\ OwnerInv
  BY DEF CInv, IInv
<1>2. new \in [NoteIds -> Users \cup {NoUser}]
  BY <1>1 DEF Types, Accounts
<1>3. Store' \in [Users -> Docs]
  <2>1. (Types /\ HeldTypes => Store \in [Users -> Docs])'
    BY StoreType, PTL
  <2> QED  BY <2>1 DEF CInv, IInv, Docs, Texts
<1>4. \A u \in Users, id \in NoteIds : Store'[u][id] # Absent => new[id] = u
  <2>1. (IInv /\ OwnerInv => OwnedInv)'
    BY LocalViewOwned, PTL
  <2>2. \A u \in Users, id \in NoteIds : LocalView(u)'[id] # Absent => new[id] = u
    BY <2>1 DEF CInv, OwnedInv
  <2>3. \A u \in Users, id \in NoteIds : Store'[u][id] # Absent => LocalView(u)'[id] # Absent
    BY StorePresentThen DEF CInv, Local
  <2> QED  BY <2>2, <2>3
<1>5. \A id \in NoteIds : owner[id] = NoUser \/ new[id] = owner[id]
  BY <1>1, OwnerKeeps
<1> HIDE DEF new
<1>6. docs \in [NoteIds -> Details \cup {Absent}]
  BY <1>3 DEF Docs, Texts
<1>7. Store' = [u \in Users |-> [id \in NoteIds |-> IF new[id] = u THEN docs[id] ELSE Absent]]
  <2>1. \A u \in Users : Store'[u] = [id \in NoteIds |-> Store'[u][id]]
    BY <1>3 DEF Docs
  <2>2. \A u \in Users, id \in NoteIds : Store'[u][id] = IF new[id] = u THEN docs[id] ELSE Absent
    BY <1>4
  <2>3. Store' = [u \in Users |-> Store'[u]]
    BY <1>3
  <2> QED  BY <2>1, <2>2, <2>3
<1> HIDE DEF docs
<1> QED  BY <1>2, <1>5, <1>6, <1>7 DEF new, Contract!DocumentsChange, Contract!Docs, Contract!FreshId, Store

-----------------------------------------------------------------------------
(* The adds of the contract *)

\* A completion of setData is to come, or is on the main queue.
Adding(x) ==
    \/ \E c \in callbacks : c.id = x
    \/ \E k \in 1..Len(mainQueue) : mainQueue[k].kind = "written" /\ mainQueue[k].id = x

LEMMA AddsAre == Types => \A x : x \in AddsUnanswered <=> Adding(x)
<1> SUFFICES ASSUME Types PROVE \A x : x \in AddsUnanswered <=> Adding(x)
  OBVIOUS
<1>1. DOMAIN mainQueue = 1..Len(mainQueue)
  BY DEF Types
<1>2. ToSet(mainQueue) = {mainQueue[k] : k \in 1..Len(mainQueue)}
  BY <1>1 DEF ToSet
<1> QED  BY <1>2 DEF AddsUnanswered, Adding

LEMMA AddsAreThen == Types' => \A x : x \in AddsUnanswered' <=> Adding(x)'
<1>1. (Types => \A x : x \in AddsUnanswered <=> Adding(x))'
  BY AddsAre, PTL
<1> QED  BY <1>1

LEMMA AddsStay ==
    ASSUME UNCHANGED <<callbacks, mainQueue>>
    PROVE  UNCHANGED AddsUnanswered
    BY DEF AddsUnanswered

\* Another closure is enqueued.
LEMMA AddsOfOther ==
    ASSUME Types, Types', NEW c, c.kind # "written",
           mainQueue' = Append(mainQueue, c), UNCHANGED callbacks
    PROVE  UNCHANGED AddsUnanswered
<1>1. mainQueue \in Seq(Closures)
  BY DEF Types
<1>2. /\ Len(mainQueue) \in Nat /\ Len(mainQueue') = Len(mainQueue) + 1
      /\ \A k \in 1..Len(mainQueue) : mainQueue'[k] = mainQueue[k]
      /\ mainQueue'[Len(mainQueue) + 1] = c
  BY <1>1, AppendAny
<1>3. ASSUME NEW x PROVE Adding(x)' <=> Adding(x)
  BY <1>2 DEF Adding
<1> QED  BY <1>3, AddsAre, AddsAreThen

\* The completion of the oldest batch is enqueued, if there is one.
LEMMA AddsOfNotified ==
    ASSUME Types, Types', StreamsFit, AddsInv, MutationResult \/ WriteRefused
    PROVE  UNCHANGED AddsUnanswered
<1> DEFINE batch == queue[engineUser][1]
           mine == {c \in callbacks : c.q = engineUser /\ c.b = batch.b}
<1>1. mainQueue \in Seq(Closures)
  BY DEF Types
<1>2. Drops /\ Head(Pipeline) = batch
  BY MutationFacts, RefusalFacts
<1>3. PICK ok \in BOOLEAN : NotifyUser(batch, ok)
  BY <1>2 DEF MutationResult, WriteRefused
<1>4. \A c \in mine : c.id = batch.id
  <2>1. 1 \in 1..Len(queue[engineUser])
    BY <1>2, DropsFacts
  <2> QED  BY <2>1 DEF AddsInv, Named
<1> HIDE DEF batch
<1>5. callbacks' = callbacks \ mine
  BY <1>3 DEF NotifyUser
<1>6. CASE mine = {}
  <2>1. mainQueue' = mainQueue
    BY <1>3, <1>6 DEF NotifyUser
  <2> QED  BY <1>5, <1>6, <2>1, AddsStay
<1>7. CASE mine # {}
  <2>1. /\ Len(mainQueue) \in Nat /\ Len(mainQueue') = Len(mainQueue) + 1
        /\ \A k \in 1..Len(mainQueue) : mainQueue'[k] = mainQueue[k]
        /\ mainQueue'[Len(mainQueue) + 1].kind = "written"
        /\ mainQueue'[Len(mainQueue) + 1].id = batch.id
    <3>1. mainQueue' = Append(mainQueue, Written(batch, ok))
      BY <1>3, <1>7 DEF NotifyUser, Written
    <3>2. Written(batch, ok).kind = "written" /\ Written(batch, ok).id = batch.id
      BY DEF Written
    <3> QED  BY <1>1, <3>1, <3>2, AppendAny
  <2>2. PICK d \in mine : TRUE
    BY <1>7
  <2>3. ASSUME NEW x PROVE Adding(x)' <=> Adding(x)
    <3>1. CASE x = batch.id
      <4>1. Adding(x)'
        BY <2>1, <3>1 DEF Adding
      <4>2. Adding(x)
        BY <1>4, <2>2, <3>1 DEF Adding
      <4> QED  BY <4>1, <4>2
    <3>2. CASE x # batch.id
      <4>1. (\E c \in callbacks' : c.id = x) <=> (\E c \in callbacks : c.id = x)
        BY <1>4, <1>5, <3>2
      <4>2. (\E k \in 1..Len(mainQueue') : mainQueue'[k].kind = "written" /\ mainQueue'[k].id = x)
            <=> (\E k \in 1..Len(mainQueue) : mainQueue[k].kind = "written" /\ mainQueue[k].id = x)
        BY <2>1, <3>2
      <4> QED  BY <4>1, <4>2 DEF Adding
    <3> QED  BY <3>1, <3>2
  <2> QED  BY <2>3, AddsAre, AddsAreThen
<1> QED  BY <1>6, <1>7

\* The oldest closure runs.
LEMMA AddsOfTail ==
    ASSUME Types, Types', AddsInv, mainQueue # <<>>, mainQueue' = Tail(mainQueue),
           UNCHANGED callbacks
    PROVE  IF Head(mainQueue).kind = "written"
           THEN /\ Head(mainQueue).id \in AddsUnanswered
                /\ AddsUnanswered' = AddsUnanswered \ {Head(mainQueue).id}
           ELSE AddsUnanswered' = AddsUnanswered
<1>1. mainQueue \in Seq(Closures)
  BY DEF Types
<1>2. /\ Len(mainQueue) \in Nat /\ Len(mainQueue) >= 1
      /\ Head(mainQueue) = mainQueue[1]
      /\ Len(mainQueue') = Len(mainQueue) - 1
      /\ \A k \in 1..(Len(mainQueue) - 1) : mainQueue'[k] = mainQueue[k + 1]
  BY <1>1, TailFacts
<1>3. ASSUME NEW x
      PROVE  (\E k \in 1..Len(mainQueue') : mainQueue'[k].kind = "written" /\ mainQueue'[k].id = x)
             <=> (\E k \in 1..Len(mainQueue) : k # 1 /\ mainQueue[k].kind = "written"
                                                     /\ mainQueue[k].id = x)
  <2>1. ASSUME NEW k \in 1..Len(mainQueue), k # 1
        PROVE  k - 1 \in 1..Len(mainQueue') /\ mainQueue'[k - 1] = mainQueue[k]
    BY <1>2, <2>1
  <2>2. ASSUME NEW k \in 1..Len(mainQueue')
        PROVE  k + 1 \in 1..Len(mainQueue) /\ k + 1 # 1 /\ mainQueue'[k] = mainQueue[k + 1]
    BY <1>2
  <2> QED  BY <2>1, <2>2
<1>4. CASE mainQueue[1].kind = "written"
  <2> DEFINE id == mainQueue[1].id
  <2>1. OnlyOne(1) /\ 1 \in 1..Len(mainQueue)
    BY <1>2 DEF AddsInv
  <2>2. Adding(id)
    BY <1>4, <2>1 DEF Adding
  <2>3. ASSUME NEW x PROVE Adding(x)' <=> Adding(x) /\ x # id
    <3>1. CASE x = id
      BY <1>3, <1>4, <2>1, <3>1 DEF OnlyOne, Adding
    <3>2. CASE x # id
      BY <1>3, <3>2 DEF Adding
    <3> QED  BY <3>1, <3>2
  <2> HIDE DEF id
  <2>4. \A x : x \in AddsUnanswered' <=> x \in AddsUnanswered /\ x # id
    BY <2>3, AddsAre, AddsAreThen
  <2>5. id \in AddsUnanswered /\ AddsUnanswered' = AddsUnanswered \ {id}
    BY <2>2, <2>4, AddsAre
  <2> QED  BY <1>2, <1>4, <2>5 DEF id
<1>5. CASE mainQueue[1].kind # "written"
  <2>1. ASSUME NEW x PROVE Adding(x)' <=> Adding(x)
    BY <1>3, <1>5 DEF Adding
  <2>2. \A x : x \in AddsUnanswered' <=> x \in AddsUnanswered
    BY <2>1, AddsAre, AddsAreThen
  <2>3. AddsUnanswered' = AddsUnanswered
    BY <2>2
  <2> QED  BY <1>2, <1>5, <2>3
<1> QED  BY <1>4, <1>5

LEMMA AddsOfSetData ==
    ASSUME NEW id \in NoteIds, NEW text \in Details, SetData(id, text)
    PROVE  AddsUnanswered' = AddsUnanswered \cup {id}
<1> DEFINE new == [q |-> engineUser, b |-> writes + 1, id |-> id]
<1>1. callbacks' = callbacks \cup {new} /\ mainQueue' = mainQueue
  BY DEF SetData, WriteMutations
<1>2. {c.id : c \in callbacks'} = {c.id : c \in callbacks} \cup {id}
  <2>1. new.id = id
    OBVIOUS
  <2> HIDE DEF new
  <2>2. \A x : x \in {c.id : c \in callbacks'} <=> x \in {c.id : c \in callbacks} \/ x = id
    BY <1>1, <2>1
  <2> QED  BY <2>2
<1> QED  BY <1>1, <1>2 DEF AddsUnanswered

-----------------------------------------------------------------------------
(* The waiting reads of the contract *)

\* Somebody of the account waits for the answer to the n-th read.
Waits(u, n) == \E k \in 1..Len(listeners[u]) : ~listeners[u][k].raised /\ listeners[u][k].n = n

LEMMA UnansweredAre ==
    \A r : r \in Unanswered <=> \E u \in Users : \E n : Waits(u, n) /\ r = [n |-> n, user |-> u]
    BY DEF Unanswered, Waiting, Waits

LEMMA UnansweredAreThen ==
    \A r : r \in Unanswered' <=> \E u \in Users : \E n : Waits(u, n)' /\ r = [n |-> n, user |-> u]
    BY DEF Unanswered, Waiting, Waits

LEMMA WaitingStay ==
    ASSUME \A u \in Users : \A n : Waits(u, n)' <=> Waits(u, n)
    PROVE  UNCHANGED Unanswered
    BY UnansweredAre, UnansweredAreThen

LEMMA WaitingOfRead ==
    ASSUME Types, GetDocuments
    PROVE  Unanswered' = Unanswered \cup {[n |-> loads + 1, user |-> user]}
<1>1. /\ user \in Users
      /\ listeners \in [Users -> Seq(Listeners)] /\ listeners[user] \in Seq(Listeners)
      /\ listeners' = [listeners EXCEPT ![user] =
                          Append(@, [n |-> loads + 1, raised |-> FALSE])]
  BY DEF GetDocuments, Types, Accounts
<1> DEFINE new == [n |-> loads + 1, raised |-> FALSE]
<1>2. listeners'[user] = Append(listeners[user], new)
      /\ \A u \in Users : u # user => listeners'[u] = listeners[u]
  BY <1>1
<1>3. new.n = loads + 1 /\ ~new.raised
  OBVIOUS
<1> HIDE DEF new
<1>4. /\ Len(listeners[user]) \in Nat /\ Len(listeners'[user]) = Len(listeners[user]) + 1
      /\ \A k \in 1..Len(listeners[user]) : listeners'[user][k] = listeners[user][k]
      /\ listeners'[user][Len(listeners[user]) + 1] = new
  BY <1>1, <1>2, AppendAny
<1>5. ASSUME NEW u \in Users, NEW n
      PROVE  Waits(u, n)' <=> Waits(u, n) \/ (u = user /\ n = loads + 1)
  <2>1. CASE u = user
    <3>1. ASSUME Waits(u, n)' PROVE Waits(u, n) \/ n = loads + 1
      <4>1. PICK k \in 1..Len(listeners'[user]) :
               ~listeners'[user][k].raised /\ listeners'[user][k].n = n
        BY <2>1, <3>1 DEF Waits
      <4>2. CASE k \in 1..Len(listeners[user])
        BY <1>4, <2>1, <4>1, <4>2 DEF Waits
      <4>3. CASE k = Len(listeners[user]) + 1
        BY <1>3, <1>4, <4>1, <4>3
      <4> QED  BY <1>4, <4>2, <4>3
    <3>2. ASSUME Waits(u, n) PROVE Waits(u, n)'
      <4>1. PICK k \in 1..Len(listeners[user]) :
               ~listeners[user][k].raised /\ listeners[user][k].n = n
        BY <2>1, <3>2 DEF Waits
      <4>2. k \in 1..Len(listeners'[user]) /\ listeners'[user][k] = listeners[user][k]
        BY <1>4
      <4> QED  BY <2>1, <4>1, <4>2 DEF Waits
    <3>3. ASSUME n = loads + 1 PROVE Waits(u, n)'
      <4>1. Len(listeners[user]) + 1 \in 1..Len(listeners'[user])
        BY <1>4
      <4> QED  BY <1>3, <1>4, <2>1, <3>3, <4>1 DEF Waits
    <3> QED  BY <2>1, <3>1, <3>2, <3>3
  <2>2. CASE u # user
    BY <1>2, <2>2 DEF Waits
  <2> QED  BY <2>1, <2>2
<1> QED  BY <1>1, <1>5, UnansweredAre, UnansweredAreThen

\* The oldest read of the query is answered, and no other.
LEMMA WaitingOfRaise ==
    ASSUME Types, LoadsInv, NEW w \in Users, RaiseEvent(w)
    PROVE  LET r == [n |-> listeners[w][nextListener(w)].n, user |-> w]
           IN  /\ r \in Unanswered
               /\ \A s \in Unanswered : s.user = w => r.n <= s.n
               /\ Unanswered' = Unanswered \ {r}
<1> DEFINE k == nextListener(w)
           m == listeners[w][k].n
<1>1. /\ k \in 1..Len(listeners[w]) /\ k \in Waiting(w) /\ \A j \in Waiting(w) : k <= j
      /\ \A u \in Users : u # w => listeners'[u] = listeners[u]
      /\ \/ Waiting(w) = {k} /\ listeners'[w] = <<>>
         \/ /\ Len(listeners'[w]) = Len(listeners[w])
            /\ listeners'[w][k].raised
            /\ \A j \in 1..Len(listeners[w]) : j # k => listeners'[w][j] = listeners[w][j]
  BY RaiseFacts
<1> HIDE DEF k
<1>2. InTurn(w) /\ \A j \in 1..Len(listeners[w]) : listeners[w][j].n \in Nat
  BY ListenerTypes DEF LoadsInv
<1>3. \A j \in 1..Len(listeners[w]) : j = k \/ (j < k /\ listeners[w][j].n < m)
                                         \/ (k < j /\ m < listeners[w][j].n)
  <2>1. \A j \in 1..Len(listeners[w]) : j = k \/ j < k \/ k < j
    BY <1>1
  <2> QED  BY <1>1, <1>2, <2>1 DEF InTurn
<1>4. m \in Nat
  BY <1>1, <1>2
<1>5. Waits(w, m)
  BY <1>1 DEF Waits, Waiting
<1>6. ASSUME NEW n, Waits(w, n) PROVE m <= n
  <2>1. PICK j \in 1..Len(listeners[w]) : ~listeners[w][j].raised /\ listeners[w][j].n = n
    BY <1>6 DEF Waits
  <2>2. k <= j
    BY <1>1, <2>1 DEF Waiting
  <2> QED  BY <1>1, <1>2, <1>3, <1>4, <2>1, <2>2
<1>7. ASSUME NEW n PROVE Waits(w, n)' <=> Waits(w, n) /\ n # m
  <2>1. CASE Waiting(w) = {k} /\ listeners'[w] = <<>>
    <3>1. ~Waits(w, n)'
      <4>1. \A j \in 1..Len(listeners'[w]) : FALSE
        BY <2>1
      <4> QED  BY <4>1, Zenon DEF Waits
    <3>2. ~(Waits(w, n) /\ n # m)
      BY <2>1 DEF Waits, Waiting
    <3> QED  BY <3>1, <3>2
  <2>2. CASE /\ Len(listeners'[w]) = Len(listeners[w])
             /\ listeners'[w][k].raised
             /\ \A j \in 1..Len(listeners[w]) : j # k => listeners'[w][j] = listeners[w][j]
    <3> HIDE DEF m
    <3>1. m = listeners[w][k].n
      BY DEF m
    <3>2. ASSUME Waits(w, n)' PROVE Waits(w, n) /\ n # m
      <4>1. PICK j \in 1..Len(listeners[w]) : ~listeners'[w][j].raised /\ listeners'[w][j].n = n
        BY <2>2, <3>2 DEF Waits
      <4>2. j # k /\ listeners'[w][j] = listeners[w][j]
        BY <2>2, <4>1
      <4>3. n # m
        BY <1>2, <1>3, <1>4, <4>1, <4>2
      <4> QED  BY <4>1, <4>2, <4>3 DEF Waits
    <3>3. ASSUME Waits(w, n), n # m PROVE Waits(w, n)'
      <4>1. PICK j \in 1..Len(listeners[w]) : ~listeners[w][j].raised /\ listeners[w][j].n = n
        BY <3>3 DEF Waits
      <4>2. j # k
        BY <3>1, <3>3, <4>1
      <4> QED  BY <2>2, <4>1, <4>2 DEF Waits
    <3> QED  BY <3>2, <3>3
  <2> QED  BY <1>1, <2>1, <2>2
<1> HIDE DEF m
<1>8. ASSUME NEW u \in Users, NEW n PROVE Waits(u, n)' <=> Waits(u, n) /\ ~(u = w /\ n = m)
  <2>1. CASE u = w
    BY <1>7, <2>1
  <2>2. CASE u # w
    BY <1>1, <2>2 DEF Waits
  <2> QED  BY <2>1, <2>2
<1>9. [n |-> m, user |-> w] \in Unanswered
  BY <1>5, UnansweredAre
<1>10. \A s \in Unanswered : s.user = w => m <= s.n
  BY <1>6, UnansweredAre
<1>11. Unanswered' = Unanswered \ {[n |-> m, user |-> w]}
  BY <1>8, UnansweredAre, UnansweredAreThen
<1> QED  BY <1>9, <1>10, <1>11 DEF m, k

\* A listener that goes has been answered.
LEMMA WaitingOfRemove ==
    ASSUME Types, NEW read \in Reads, RemoveListener(read),
           \A j \in 1..Len(listeners[read.user]) :
              listeners[read.user][j].n = read.n => listeners[read.user][j].raised
    PROVE  UNCHANGED Unanswered
<1> DEFINE u == read.user
<1>1. u \in Users /\ Len(listeners[u]) \in Nat
  <2>1. u \in Users
    BY DEF Reads
  <2> QED  BY <2>1, ListenerTypes
<1>2. /\ \A w \in Users : w # u => listeners'[w] = listeners[w]
      /\ \/ listeners'[u] = listeners[u]
         \/ \E k \in 1..Len(listeners[u]) :
               /\ listeners[u][k].n = read.n
               /\ Len(listeners'[u]) = Len(listeners[u]) - 1
               /\ \A j \in 1..(Len(listeners[u]) - 1) :
                     listeners'[u][j] = IF j < k THEN listeners[u][j] ELSE listeners[u][j + 1]
  BY RemoveFacts
<1>3. \A j \in 1..Len(listeners[u]) : listeners[u][j].n = read.n => listeners[u][j].raised
  OBVIOUS
<1> HIDE DEF u
<1>4. ASSUME NEW k \in 1..Len(listeners[u]), listeners[u][k].raised,
             Len(listeners'[u]) = Len(listeners[u]) - 1,
             \A j \in 1..(Len(listeners[u]) - 1) :
                listeners'[u][j] = IF j < k THEN listeners[u][j] ELSE listeners[u][j + 1],
             NEW n
      PROVE  Waits(u, n)' <=> Waits(u, n)
  <2>1. ASSUME NEW j \in 1..Len(listeners'[u])
        PROVE  \E i \in 1..Len(listeners[u]) : listeners'[u][j] = listeners[u][i]
    <3>1. CASE j < k
      BY <1>1, <1>4, <3>1
    <3>2. CASE ~(j < k)
      <4>1. j + 1 \in 1..Len(listeners[u]) /\ listeners'[u][j] = listeners[u][j + 1]
        BY <1>1, <1>4, <3>2
      <4> QED  BY <4>1
    <3> QED  BY <3>1, <3>2
  <2>2. ASSUME NEW i \in 1..Len(listeners[u]), i # k
        PROVE  \E j \in 1..Len(listeners'[u]) : listeners'[u][j] = listeners[u][i]
    <3>1. CASE i < k
      <4>1. i \in 1..Len(listeners'[u]) /\ listeners'[u][i] = listeners[u][i]
        BY <1>1, <1>4, <3>1
      <4> QED  BY <4>1
    <3>2. CASE k < i
      <4>1. i - 1 \in 1..Len(listeners'[u]) /\ ~(i - 1 < k) /\ (i - 1) + 1 = i
        BY <1>1, <1>4, <3>2
      <4>2. listeners'[u][i - 1] = listeners[u][i]
        BY <1>4, <4>1
      <4> QED  BY <4>1, <4>2
    <3> QED  BY <2>2, <3>1, <3>2
  <2>3. ASSUME Waits(u, n)' PROVE Waits(u, n)
    BY <2>1, <2>3 DEF Waits
  <2>4. ASSUME Waits(u, n) PROVE Waits(u, n)'
    <3>1. PICK i \in 1..Len(listeners[u]) : ~listeners[u][i].raised /\ listeners[u][i].n = n
      BY <2>4 DEF Waits
    <3>2. i # k
      BY <1>4, <3>1
    <3> QED  BY <2>2, <3>1, <3>2 DEF Waits
  <2> QED  BY <2>3, <2>4
<1>5. \A n : Waits(u, n)' <=> Waits(u, n)
  <2>1. CASE listeners'[u] = listeners[u]
    BY <2>1 DEF Waits
  <2>2. CASE listeners'[u] # listeners[u]
    BY <1>2, <1>3, <1>4, <2>2
  <2> QED  BY <2>1, <2>2
<1>6. \A w \in Users : \A n : Waits(w, n)' <=> Waits(w, n)
  <2>1. ASSUME NEW w \in Users, w # u PROVE \A n : Waits(w, n)' <=> Waits(w, n)
    BY <1>2, <2>1 DEF Waits
  <2> QED  BY <1>5, <2>1
<1> QED  BY <1>6, WaitingStay

\* A query that fails with nobody waiting is answered to nobody.
LEMMA WaitingOfError ==
    ASSUME Types, NEW u \in Users, TargetError(u)
    PROVE  UNCHANGED Unanswered
<1>1. CASE Waiting(u) # {}
  <2>1. UNCHANGED listeners
    BY <1>1 DEF TargetError
  <2> QED  BY <2>1, WaitingStay DEF Waits
<1>2. CASE Waiting(u) = {}
  <2>1. listeners' = [listeners EXCEPT ![u] = <<>>] /\ listeners \in [Users -> Seq(Listeners)]
    BY <1>2 DEF TargetError, Types
  <2>2. /\ \A w \in Users : w # u => listeners'[w] = listeners[w]
        /\ \A k \in 1..Len(listeners'[u]) : FALSE
    BY <2>1
  <2>3. \A n : ~Waits(u, n)
    BY <1>2 DEF Waits, Waiting
  <2>4. \A n : ~Waits(u, n)'
    BY <2>2, Zenon DEF Waits
  <2>5. \A w \in Users : \A n : Waits(w, n)' <=> Waits(w, n)
    <3>1. ASSUME NEW w \in Users, w # u PROVE \A n : Waits(w, n)' <=> Waits(w, n)
      BY <2>2, <3>1 DEF Waits
    <3> QED  BY <2>3, <2>4, <3>1
  <2> QED  BY <2>5, WaitingStay
<1> QED  BY <1>1, <1>2

-----------------------------------------------------------------------------
(* The answers of the contract *)

LEMMA AnswersStay ==
    ASSUME UNCHANGED mainQueue
    PROVE  UNCHANGED AnswersRaised
    BY DEF AnswersRaised

\* A closure is enqueued.
LEMMA AnswersGrow ==
    ASSUME Types, Types', NEW c, mainQueue' = Append(mainQueue, c)
    PROVE  /\ c \in Closures
           /\ IsAnswer(c) => AnswersRaised' = Append(AnswersRaised, AnswerOf(c))
           /\ ~IsAnswer(c) => UNCHANGED AnswersRaised
<1>1. mainQueue \in Seq(Closures) /\ mainQueue' \in Seq(Closures)
  BY DEF Types
<1>2. c \in Closures
  <2>1. Len(mainQueue) \in Nat /\ Len(mainQueue') = Len(mainQueue) + 1
        /\ mainQueue'[Len(mainQueue) + 1] = c
    BY <1>1, AppendAny
  <2>2. Len(mainQueue) + 1 \in 1..Len(mainQueue')
    BY <2>1
  <2> QED  BY <1>1, <2>1, <2>2
<1>3. AnswersRaised = AnswersOf(mainQueue) /\ AnswersRaised' = AnswersOf(mainQueue')
  BY DEF AnswersRaised, AnswersOf
<1> QED  BY <1>1, <1>2, <1>3, AnswersOfAppend

\* The oldest closure runs.
LEMMA AnswersShrink ==
    ASSUME Types, mainQueue # <<>>, mainQueue' = Tail(mainQueue)
    PROVE  IF IsAnswer(Head(mainQueue))
           THEN /\ AnswersRaised # <<>> /\ AnswersRaised' = Tail(AnswersRaised)
                /\ Head(AnswersRaised) = AnswerOf(Head(mainQueue))
           ELSE UNCHANGED AnswersRaised
<1>1. mainQueue \in Seq(Closures)
  BY DEF Types
<1>2. AnswersRaised = AnswersOf(mainQueue) /\ AnswersRaised' = AnswersOf(mainQueue')
  BY DEF AnswersRaised, AnswersOf
<1> QED  BY <1>1, <1>2, AnswersOfTail

-----------------------------------------------------------------------------
(* Each action is a step of the contract *)

\* What the contract is silent about.
LEMMA RemoteStep ==
    ASSUME CInv, CInv', [Next]_vars,
           UNCHANGED <<user, loads, AddsUnanswered, Unanswered, AnswersRaised>>
    PROVE  Contract!CollectionNext
<1>1. Contract!DocumentsChange
  BY AnyChange
<1>2. UNCHANGED <<user, AddsUnanswered, <<Unanswered, AnswersRaised>>, loads>>
  OBVIOUS
<1>3. Contract!RemoteChange
  BY <1>1, <1>2 DEF Contract!RemoteChange, Contract!reads
<1> QED  BY <1>3 DEF Contract!CollectionNext

\* The streams, the server, the clock and the network.
LEMMA QuietSteps ==
    ASSUME CInv, CInv', [Next]_vars,
           \/ WriteStreamOpens \/ ServerCommits \/ WriteStreamCloses
           \/ WatchStreamOpens \/ WatchStreamCloses \/ OnlineStateTimeout \/ WatchMessage
           \/ WatchSnapshot \/ ConnectivityChange
           \/ \E u \in Users : ServerSendsSnapshot(u)
           \/ \E u \in Users, id \in NoteIds, text \in Texts : OtherDevice(u, id, text)
    PROVE  Contract!CollectionNext
<1>1. UNCHANGED <<user, loads, callbacks, mainQueue, listeners>>
  BY DEF WriteStreamOpens, ServerCommits, WriteStreamCloses, WatchStreamOpens,
         WatchStreamCloses, OnlineStateTimeout, WatchMessage, WatchSnapshot,
         ConnectivityChange, ServerSendsSnapshot, OtherDevice, calls, localData, reading
<1>2. UNCHANGED <<user, loads>>
  BY <1>1
<1>3. UNCHANGED AddsUnanswered /\ UNCHANGED AnswersRaised
  BY <1>1, AddsStay, AnswersStay
<1>4. UNCHANGED Unanswered
  BY <1>1 DEF Unanswered, Waiting
<1> QED  BY <1>2, <1>3, <1>4, RemoteStep

LEMMA TargetErrorStep ==
    ASSUME CInv, CInv', [Next]_vars, NEW u \in Users, TargetError(u)
    PROVE  Contract!CollectionNext
<1>1. UNCHANGED <<user, loads, callbacks, mainQueue>> /\ Types
  BY DEF TargetError, calls, localData, CInv, IInv
<1>2. UNCHANGED AddsUnanswered /\ UNCHANGED AnswersRaised /\ UNCHANGED Unanswered
  BY <1>1, AddsStay, AnswersStay, WaitingOfError
<1> QED  BY <1>1, <1>2, RemoteStep

\* The oldest batch is acknowledged or given up.
LEMMA NotifyStep ==
    ASSUME CInv, CInv', [Next]_vars, MutationResult \/ WriteRefused
    PROVE  Contract!CollectionNext
<1>1. Types /\ Types' /\ StreamsFit /\ AddsInv
  BY DEF CInv, IInv, ResultsInv
<1>2. UNCHANGED <<user, loads, listeners>>
  BY DEF MutationResult, WriteRefused, calls, reading
<1>3. UNCHANGED AddsUnanswered
  BY <1>1, AddsOfNotified
<1>4. UNCHANGED Unanswered
  BY <1>2 DEF Unanswered, Waiting
<1>5. UNCHANGED AnswersRaised
  <2>1. PICK batch, ok : NotifyUser(batch, ok)
    BY DEF MutationResult, WriteRefused
  <2>2. CASE mainQueue' = mainQueue
    BY <2>2, AnswersStay
  <2>3. CASE mainQueue' = Append(mainQueue, Written(batch, ok))
    <3>1. ~IsAnswer(Written(batch, ok))
      BY DEF IsAnswer, Written
    <3> QED  BY <1>1, <2>3, <3>1, AnswersGrow
  <2> QED  BY <2>1, <2>2, <2>3 DEF NotifyUser, Written
<1> QED  BY <1>2, <1>3, <1>4, <1>5, RemoteStep

\* The calls that write.
LEMMA CallStep ==
    ASSUME CInv, CInv', IsCall
    PROVE  Contract!CollectionNext
<1>1. Types /\ Types' /\ IInv /\ OwnerInv
  BY DEF CInv, IInv
<1>2. UNCHANGED <<user, loads, mainQueue, cache, listeners>>
  BY DEF IsCall, SetData, UpdateData, DeleteDocument, WriteMutations, reading
<1>3. UNCHANGED Unanswered /\ UNCHANGED AnswersRaised
  BY <1>2, AnswersStay DEF Unanswered, Waiting
<1>4. ASSUME NEW id \in NoteIds, NEW text \in Details, SetData(id, text)
      PROVE  Contract!Calls
  <2> DEFINE batch == Batch(id, "set", text)
  <2>1. batch \in Batches /\ Calls(batch)
    BY <1>1, <1>4, CallFacts
  <2>2. batch.id = id /\ \A t : mutated(t, batch) = text
    BY DEF Batch, mutated
  <2> HIDE DEF batch
  <2>3. Store' = [Store EXCEPT ![user] = [Store[user] EXCEPT ![id] = text]]
    BY <1>2, <2>1, <2>2, StoreOfUserCall
  <2>4. AddsUnanswered' = AddsUnanswered \cup {id}
    BY <1>4, AddsOfSetData
  <2>5. user # NoUser /\ owner[id] = NoUser /\ owner' = [owner EXCEPT ![id] = user]
    BY <1>4 DEF SetData, FreshId
  <2>6. Contract!Add(id, text)
    BY <2>3, <2>4, <2>5 DEF Contract!Add, Contract!FreshId, Contract!setData, Store
  <2> QED  BY <1>2, <1>3, <2>6 DEF Contract!Calls
<1>5. ASSUME NEW id \in NoteIds, NEW text \in Details, UpdateData(id, text)
      PROVE  Contract!Calls
  <2> DEFINE batch == Batch(id, "update", text)
  <2>1. batch \in Batches /\ Calls(batch)
    BY <1>1, <1>5, CallFacts
  <2>2. batch.id = id /\ \A t : mutated(t, batch) = IF t = Absent THEN Absent ELSE text
    BY DEF Batch, mutated
  <2> HIDE DEF batch
  <2>3. Store' = [Store EXCEPT ![user] =
                    [Store[user] EXCEPT ![id] = IF @ = Absent THEN Absent ELSE text]]
    BY <1>2, <2>1, <2>2, StoreOfUserCall
  <2>4. user # NoUser /\ UNCHANGED owner /\ UNCHANGED AddsUnanswered
    BY <1>2, <1>5, AddsStay DEF UpdateData
  <2>5. Contract!Update(id, text)
    BY <2>3, <2>4 DEF Contract!Update, Contract!updateData, Store
  <2> QED  BY <1>2, <1>3, <2>5 DEF Contract!Calls
<1>6. ASSUME NEW id \in NoteIds, DeleteDocument(id)
      PROVE  Contract!Calls
  <2> DEFINE batch == Batch(id, "delete", Absent)
  <2>1. batch \in Batches /\ Calls(batch)
    BY <1>1, <1>6, CallFacts
  <2>2. batch.id = id /\ \A t : mutated(t, batch) = Absent
    BY DEF Batch, mutated
  <2> HIDE DEF batch
  <2>3. Store' = [Store EXCEPT ![user] = [Store[user] EXCEPT ![id] = Absent]]
    BY <1>2, <2>1, <2>2, StoreOfUserCall
  <2>4. user # NoUser /\ UNCHANGED owner /\ UNCHANGED AddsUnanswered
    BY <1>2, <1>6, AddsStay DEF DeleteDocument
  <2>5. Contract!Delete(id)
    BY <2>3, <2>4 DEF Contract!Delete, Store
  <2> QED  BY <1>2, <1>3, <2>5 DEF Contract!Calls
<1>7. Contract!Calls
  BY <1>4, <1>5, <1>6 DEF IsCall
<1> QED  BY <1>7 DEF Contract!CollectionNext

LEMMA ReadCallStep ==
    ASSUME CInv, GetDocuments
    PROVE  Contract!CollectionNext
<1>1. Types
  BY DEF CInv, IInv
<1>2. /\ UNCHANGED <<user, owner, mainQueue, engineUser, queue, cache, held, callbacks>>
      /\ user # NoUser /\ loads < MaxLoads /\ loads' = loads + 1
  BY DEF GetDocuments, localData
<1>3. UNCHANGED Store /\ UNCHANGED AddsUnanswered /\ UNCHANGED AnswersRaised
  BY <1>2, StoreKept, AddsStay, AnswersStay
<1>4. Unanswered' = Unanswered \cup {[n |-> loads + 1, user |-> user]}
  BY <1>1, WaitingOfRead
<1>5. Contract!getDocuments
  BY <1>2, <1>4 DEF Contract!getDocuments
<1>6. UNCHANGED Contract!firestore
  BY <1>2, <1>3 DEF Contract!firestore, Store
<1>7. Contract!Calls
  BY <1>2, <1>3, <1>5, <1>6 DEF Contract!Calls
<1> QED  BY <1>7 DEF Contract!CollectionNext

LEMMA RaiseStep ==
    ASSUME CInv, CInv', NEW w \in Users, RaiseEvent(w)
    PROVE  Contract!CollectionNext
<1> DEFINE r == [n |-> listeners[w][nextListener(w)].n, user |-> w]
           ok == views[w] # "failed"
           a == [kind |-> "answer", ok |-> ok, read |-> r,
                 docs |-> IF ok THEN Shown(w) ELSE NoDocs]
<1>1. Types /\ Types' /\ LoadsInv
  BY DEF CInv, IInv
<1>2. /\ UNCHANGED <<user, owner, loads, engineUser, queue, cache, held, callbacks>>
      /\ mainQueue' = Append(mainQueue, a)
  BY DEF RaiseEvent, calls, localData
<1>3. /\ r \in Unanswered
      /\ \A s \in Unanswered : s.user = w => r.n <= s.n
      /\ Unanswered' = Unanswered \ {r}
  BY <1>1, WaitingOfRaise
<1>4. r.user = w
  OBVIOUS
<1>5. a.kind = "answer" /\ AnswerOf(a) = [read |-> r, ok |-> ok,
                                          docs |-> IF ok THEN Shown(w) ELSE NoDocs]
  BY DEF AnswerOf
<1> HIDE DEF a, r
<1>6. UNCHANGED AddsUnanswered
  <2>1. a.kind # "written"
    BY <1>5
  <2> QED  BY <1>1, <1>2, <2>1, AddsOfOther
<1>7. AnswersRaised' = Append(AnswersRaised, AnswerOf(a))
  BY <1>1, <1>2, <1>5, AnswersGrow DEF IsAnswer
<1>8. UNCHANGED Store
  BY <1>2, StoreKept
<1>9. UNCHANGED <<user, Contract!firestore, loads>>
  BY <1>2, <1>6, <1>8 DEF Contract!firestore, Store
<1>10. Contract!Ready(r) /\ Unanswered' = Contract!detached(r)
  BY <1>3, <1>4 DEF Contract!Ready, Contract!detached
<1>11. CASE ok
  <2>1. AnswerOf(a) = [read |-> r, ok |-> TRUE, docs |-> Store[r.user]]
    BY <1>4, <1>5, <1>11 DEF Store
  <2>2. Contract!RaiseSnapshot(r)
    BY <1>7, <1>9, <1>10, <2>1 DEF Contract!RaiseSnapshot, Store
  <2> QED  BY <1>3, <2>2 DEF Contract!CollectionNext
<1>12. CASE ~ok
  <2>1. AnswerOf(a) = [read |-> r, ok |-> FALSE, docs |-> NoDocs]
    BY <1>5, <1>12
  <2>2. Contract!RaiseError(r)
    BY <1>7, <1>9, <1>10, <2>1 DEF Contract!RaiseError, Contract!NoDocs, NoDocs
  <2> QED  BY <1>3, <2>2 DEF Contract!CollectionNext
<1> QED  BY <1>11, <1>12

\* A closure runs on the main thread.
LEMMA ClosureStep ==
    ASSUME CInv, CInv', [Next]_vars, MainQueueRuns
    PROVE  Contract!CollectionNext
<1> DEFINE c == Head(mainQueue)
<1>1. Types /\ Types' /\ LoadsInv /\ AddsInv
  BY DEF CInv, IInv
<1>2. /\ mainQueue # <<>> /\ mainQueue' = Tail(mainQueue)
      /\ UNCHANGED <<user, owner, loads, callbacks>>
  BY DEF MainQueueRuns, TakeAnswer, TakeWritten, TakeCredential, calls, localData
<1>3. IF c.kind = "written" THEN /\ c.id \in AddsUnanswered
                                 /\ AddsUnanswered' = AddsUnanswered \ {c.id}
                            ELSE AddsUnanswered' = AddsUnanswered
  BY <1>1, <1>2, AddsOfTail
<1>4. IF IsAnswer(c) THEN /\ AnswersRaised # <<>> /\ AnswersRaised' = Tail(AnswersRaised)
                          /\ Head(AnswersRaised) = AnswerOf(c)
                     ELSE UNCHANGED AnswersRaised
  BY <1>1, <1>2, AnswersShrink
<1>5. c \in Closures /\ 1 \in 1..Len(mainQueue) /\ c = mainQueue[1]
  <2>1. mainQueue \in Seq(Closures)
    BY <1>1 DEF Types
  <2> QED  BY <1>2, <2>1, TailFacts
<1>6. CASE TakeAnswer
  <2>1. /\ c.kind = "answer" /\ RemoveListener(c.read)
        /\ UNCHANGED <<engineUser, queue, cache>>
    BY <1>6 DEF TakeAnswer, localData
  <2>2. c.read \in Reads
    BY <1>5, <2>1 DEF Closures
  <2>3. UNCHANGED Unanswered
    <3>1. Answered(c)
      BY <1>5 DEF LoadsInv, CInv
    <3>2. \A j \in 1..Len(listeners[c.read.user]) :
             listeners[c.read.user][j].n = c.read.n => listeners[c.read.user][j].raised
      BY <2>1, <3>1 DEF Answered
    <3> QED  BY <1>1, <2>1, <2>2, <3>2, WaitingOfRemove
  <2>4. PICK u \in Users : u = c.read.user
    BY <2>2 DEF Reads
  <2>5. UNCHANGED held \/ held' = [held EXCEPT ![u] = NoDocs]
    BY <2>1, <2>4 DEF RemoveListener
  <2>6. /\ Contract!TextsChange(u) /\ Head(AnswersRaised).read.user = u
        /\ AnswersRaised # <<>> /\ AnswersRaised' = Tail(AnswersRaised)
    <3>1. Contract!TextsChange(u)
      BY <2>1, <2>5, TextsOfUser
    <3> QED  BY <1>4, <2>1, <2>4, <3>1 DEF IsAnswer, AnswerOf
  <2>7. Contract!TakeAnswer
    BY <1>2, <1>3, <2>1, <2>3, <2>6 DEF Contract!TakeAnswer
  <2> QED  BY <2>7 DEF Contract!CollectionNext
<1>7. CASE TakeWritten
  <2>1. c.kind = "written" /\ UNCHANGED <<engineUser, queue, cache, held, listeners>>
    BY <1>7 DEF TakeWritten, localData, reading
  <2>2. c.id \in NoteIds
    BY <1>1, <1>5, <2>1, WrittenTypes
  <2>3. UNCHANGED Store /\ UNCHANGED Unanswered
    BY <2>1, StoreKept DEF Unanswered, Waiting
  <2>4. UNCHANGED AnswersRaised
    BY <1>4, <2>1 DEF IsAnswer
  <2>5. Contract!AddAnswered(c.id)
    BY <1>2, <1>3, <2>1, <2>3 DEF Contract!AddAnswered, Store
  <2>6. Contract!Calls
    BY <1>2, <2>2, <2>3, <2>4, <2>5 DEF Contract!Calls
  <2> QED  BY <2>6 DEF Contract!CollectionNext
<1>8. CASE TakeCredential
  <2>1. c.kind = "credential" /\ UNCHANGED listeners
    BY <1>8 DEF TakeCredential, reading
  <2>2. UNCHANGED Unanswered
    BY <2>1 DEF Unanswered, Waiting
  <2>3. UNCHANGED AddsUnanswered /\ UNCHANGED AnswersRaised
    BY <1>3, <1>4, <2>1 DEF IsAnswer
  <2> QED  BY <1>2, <2>2, <2>3, RemoteStep
<1> QED  BY <1>6, <1>7, <1>8 DEF MainQueueRuns

LEMMA CredentialStep ==
    ASSUME CInv, CInv', NEW u \in Accounts, CredentialChange(u)
    PROVE  Contract!CollectionNext
<1> DEFINE c == [kind |-> "credential", user |-> u]
<1>1. Types /\ Types'
  BY DEF CInv, IInv
<1>2. /\ user' = u /\ mainQueue' = Append(mainQueue, c)
      /\ UNCHANGED <<loads, owner, engineUser, queue, cache, held, callbacks, listeners>>
  BY DEF CredentialChange, localData, reading
<1>3. c.kind = "credential"
  OBVIOUS
<1> HIDE DEF c
<1>4. UNCHANGED AddsUnanswered
  BY <1>1, <1>2, <1>3, AddsOfOther
<1>5. UNCHANGED AnswersRaised
  BY <1>1, <1>2, <1>3, AnswersGrow DEF IsAnswer
<1>6. UNCHANGED Store /\ UNCHANGED Unanswered
  BY <1>2, StoreKept DEF Unanswered, Waiting
<1>7. Contract!UserChanges(u)
  BY <1>2, <1>4, <1>5, <1>6 DEF Contract!UserChanges, Contract!firestore, Contract!reads, Store
<1> QED  BY <1>7 DEF Contract!CollectionNext, Accounts

LEMMA EndStep ==
    ASSUME CInv, CInv', [Next]_vars, Terminate
    PROVE  Contract!CollectionNext
<1>1. /\ UNCHANGED <<user, loads>>
      /\ mainQueue' = <<>> /\ callbacks' = {} /\ listeners' = [u \in Users |-> <<>>]
  BY DEF Terminate, calls
<1>2. AnswersRaised' = <<>>
  <2>1. AnswersRaised' = AnswersOf(mainQueue')
    BY DEF AnswersRaised, AnswersOf
  <2> QED  BY <1>1, <2>1, AnswersOfEmpty
<1>3. AddsUnanswered' = {}
  <2>1. \A k \in 1..Len(mainQueue') : FALSE
    BY <1>1
  <2>2. \A x : ~Adding(x)'
    BY <1>1, <2>1, Zenon DEF Adding
  <2>3. Types'
    BY DEF CInv, IInv
  <2> QED  BY <2>2, <2>3, AddsAreThen
<1>4. Unanswered' = {}
  <2>1. \A u \in Users : \A k \in 1..Len(listeners'[u]) : FALSE
    BY <1>1
  <2>2. \A u \in Users : \A n : ~Waits(u, n)'
    BY <2>1, Zenon DEF Waits
  <2> QED  BY <2>2, UnansweredAreThen
<1>5. Contract!DocumentsChange
  BY AnyChange
<1>6. Contract!ProcessEnds
  BY <1>1, <1>2, <1>3, <1>4, <1>5 DEF Contract!ProcessEnds
<1> QED  BY <1>6 DEF Contract!CollectionNext

-----------------------------------------------------------------------------
(* The theorem *)

LEMMA ContractInit == Init => Contract!CollectionInit
<1> SUFFICES ASSUME Init PROVE Contract!CollectionInit
  OBVIOUS
<1>1. OwnedInv /\ Types
  <2>1. IInv /\ OwnerInv
    BY InitIInv, OwnerInit
  <2> QED  BY <2>1, LocalViewOwned DEF IInv
<1>2. owner = [i \in NoteIds |-> NoUser] /\ user \in Accounts /\ loads = 0
  BY DEF Init
<1>3. Store = [u \in Users |-> [i \in NoteIds |-> Absent]]
  <2>1. \A u \in Users : LocalView(u) \in Docs
    BY <1>1, LocalViewType
  <2>2. \A u \in Users, id \in NoteIds : LocalView(u)[id] = Absent
    BY <1>1, <1>2, NoUserAssumption DEF OwnedInv
  <2>3. \A u \in Users, id \in NoteIds : held[u][id] = Absent
    BY DEF Init, NoTexts, NoDocs
  <2>4. \A u \in Users : Shown(u) = [i \in NoteIds |-> Absent]
    BY <2>1, <2>2, <2>3 DEF Shown
  <2> QED  BY <2>4 DEF Store
<1>4. AnswersRaised = <<>>
  <2>1. mainQueue = <<>>
    BY DEF Init
  <2> QED  BY <2>1, AnswersOfEmpty DEF AnswersRaised, AnswersOf
<1>5. AddsUnanswered = {}
  <2>1. callbacks = {} /\ \A k \in 1..Len(mainQueue) : FALSE
    BY DEF Init
  <2>2. \A x : ~Adding(x)
    BY <2>1, Zenon DEF Adding
  <2> QED  BY <1>1, <2>2, AddsAre
<1>6. Unanswered = {}
  <2>1. \A u \in Users : \A k \in 1..Len(listeners[u]) : FALSE
    BY DEF Init
  <2>2. \A u \in Users : \A n : ~Waits(u, n)
    BY <2>1, Zenon DEF Waits
  <2> QED  BY <2>2, UnansweredAre
<1> QED
  BY <1>2, <1>3, <1>4, <1>5, <1>6 DEF Contract!CollectionInit, Contract!NoDocs, Store, Accounts

LEMMA ContractStep == CInv /\ CInv' /\ [Next]_vars => [Contract!CollectionNext]_(Contract!collection)
<1> SUFFICES ASSUME CInv, CInv', [Next]_vars
             PROVE  Contract!CollectionNext \/ UNCHANGED Contract!collection
  OBVIOUS
<1>1. CASE UNCHANGED vars
  <2>1. UNCHANGED <<user, loads, callbacks, mainQueue, listeners>>
    BY <1>1 DEF vars, calls, localData, reading
  <2>2. UNCHANGED <<user, loads>>
    BY <2>1
  <2>3. UNCHANGED AddsUnanswered /\ UNCHANGED AnswersRaised
    BY <2>1, AddsStay, AnswersStay
  <2>4. UNCHANGED Unanswered
    BY <2>1 DEF Unanswered, Waiting
  <2> QED  BY <2>2, <2>3, <2>4, RemoteStep
<1>2. CASE IsCall
  BY <1>2, CallStep
<1>3. CASE \/ WriteStreamOpens \/ ServerCommits \/ WriteStreamCloses
           \/ WatchStreamOpens \/ WatchStreamCloses \/ OnlineStateTimeout \/ WatchMessage
           \/ WatchSnapshot \/ ConnectivityChange
           \/ \E u \in Users : ServerSendsSnapshot(u)
           \/ \E u \in Users, id \in NoteIds, text \in Texts : OtherDevice(u, id, text)
  BY <1>3, QuietSteps
<1>4. CASE MutationResult \/ WriteRefused
  BY <1>4, NotifyStep
<1>5. CASE GetDocuments
  BY <1>5, ReadCallStep
<1>6. ASSUME NEW u \in Users, TargetError(u) PROVE Contract!CollectionNext
  BY <1>6, TargetErrorStep
<1>7. ASSUME NEW u \in Users, RaiseEvent(u) PROVE Contract!CollectionNext
  BY <1>7, RaiseStep
<1>8. CASE MainQueueRuns
  BY <1>8, ClosureStep
<1>9. ASSUME NEW u \in Accounts, CredentialChange(u) PROVE Contract!CollectionNext
  BY <1>9, CredentialStep
<1>10. CASE Terminate
  BY <1>10, EndStep
<1> QED
  BY <1>1, <1>2, <1>3, <1>4, <1>5, <1>6, <1>7, <1>8, <1>9, <1>10 DEF Next, IsCall

\* Firestore keeps the contract NoteList is written against: a call of the user shows
\* in its documents at once, every read is answered once, in order and with what its
\* View shows at that moment (ComputeDocumentChanges, ShouldWaitForSyncedDocument),
\* every setData is answered once, and no UUID changes its account, for any number of
\* accounts, notes, calls, commits and changes of user.
THEOREM KeepsTheContract == Spec => ImplementsContract
<1>1. Spec => Contract!CollectionSpec
  BY ContractInit, CInvariance, ContractStep, PTL DEF Spec, Contract!CollectionSpec
<1> QED  BY <1>1 DEF ImplementsContract

=============================================================================
