----------------------------- MODULE StreamProofs -----------------------------
(* Proofs about conversations and the answers that are streamed into them,   *)
(* for any numbers of messages, sessions, cancellations and requests.        *)
EXTENDS MCAgentStream, SequenceTheorems, FiniteSetTheorems,
        WellFoundedInduction, TLAPS

(* ----------------------------- conversations ----------------------------- *)

Chore ==
  [kind : {"upsert"}, of : Sayings, low : BOOLEAN, running : BOOLEAN]
    \union [kind : {"delete"}, of : {First}, low : BOOLEAN, running : BOOLEAN]

SayingRow == [state : {"none", "open", "settled", "removed"}, text : BOOLEAN,
              follows : Sayings \union {First}]

\* What a request has read.
TalkerTyped ==
  \A h \in Talkers :
    /\ talker[h].at = "say" => talker[h].posted \in BOOLEAN
                               /\ talker[h].follows \in Sayings \union {First}
    /\ talker[h].at = "restore" => talker[h].read \subseteq Sayings
                                   /\ IsFiniteSet(talker[h].read)

TalkTyped ==
  /\ talk \in [removed : BOOLEAN, title : {"none", "given", "made"}]
  /\ saying \in [Sayings -> SayingRow]
  /\ DOMAIN talker = Talkers /\ TalkerTyped
  /\ recall \in [mode : {"none", "tasks", "direct"}, rest : SUBSET Sayings]
  /\ chores \in Seq(Chore)
  /\ found \subseteq Sayings
  /\ named \in BOOLEAN
  /\ amiss \in [lost : SUBSET Sayings, left : SUBSET Sayings, crossed : BOOLEAN]
  /\ IsFiniteSet(Standing)

\* A set becomes a sequence of all its elements.
LEMMA SetAsSeq ==
  ASSUME NEW S, IsFiniteSet(S)
  PROVE  /\ SetToSeq(S) \in Seq(S)
         /\ \A x \in S : \E i \in DOMAIN SetToSeq(S) : SetToSeq(S)[i] = x
<1>1. PICK n \in Nat : n = Cardinality(S)
  BY FS_CardinalityType
<1>2. ExistsBijection(1..n, S)
  BY <1>1, FS_CardinalityType
<1>3. PICK f : f = SetToSeq(S)
  OBVIOUS
<1>4. \E g \in [1..n -> S] : IsInjective(g)
  BY <1>2 DEF ExistsBijection, Bijection, Injection
<1>5. f \in [1..n -> S] /\ IsInjective(f)
  BY <1>1, <1>3, <1>4 DEF SetToSeq
<1>6. f \in Injection(1..n, S)
  BY <1>5 DEF Injection
<1>7. Cardinality(1..n) = Cardinality(S)
  BY <1>1, FS_Interval
<1>8. f \in Surjection(1..n, S)
  BY <1>6, <1>7, FS_Injection
<1>9. \A x \in S : \E i \in 1..n : f[i] = x
  BY <1>8 DEF Surjection
<1>10. f \in Seq(S) /\ DOMAIN f = 1..n
  BY <1>5
<1> QED BY <1>3, <1>9, <1>10

LEMMA RemovedAt ==
  ASSUME NEW S, NEW c \in Seq(S), NEW i \in DOMAIN c
  PROVE  /\ RemoveAt(c, i) \in Seq(S)
         /\ DOMAIN RemoveAt(c, i) = 1..(Len(c) - 1)
         /\ \A k \in 1..(Len(c) - 1) :
              RemoveAt(c, i)[k] = IF k < i THEN c[k] ELSE c[k + 1]
<1>1. PICK n \in Nat : n = Len(c)
  OBVIOUS
<1>2. i \in 1..n /\ DOMAIN c = 1..n
  BY <1>1
<1>3. PICK a : a = SubSeq(c, 1, i - 1)
  OBVIOUS
<1>4. PICK b : b = SubSeq(c, i + 1, n)
  OBVIOUS
<1>5. a \in Seq(S) /\ Len(a) = i - 1 /\ \A k \in 1..(i - 1) : a[k] = c[k]
  BY <1>1, <1>2, <1>3
<1>6. b \in Seq(S) /\ Len(b) = n - i /\ \A k \in 1..(n - i) : b[k] = c[k + i]
  BY <1>1, <1>2, <1>4, SMTT(20)
<1>7. RemoveAt(c, i) = a \o b
  BY <1>1, <1>3, <1>4 DEF RemoveAt
<1>8. a \o b \in Seq(S) /\ Len(a \o b) = n - 1
  <2>1. a \o b \in Seq(S) /\ Len(a \o b) = Len(a) + Len(b)
    <3>1. a \in Seq(S) /\ b \in Seq(S)
      BY <1>5, <1>6
    <3> QED BY <3>1, ConcatProperties, Zenon
  <2>2. (i - 1) + (n - i) = n - 1
    BY <1>2
  <2> QED BY <1>5, <1>6, <2>1, <2>2
<1>9. ASSUME NEW k \in 1..(n - 1) PROVE (a \o b)[k] = IF k < i THEN c[k] ELSE c[k + 1]
  <2>1. CASE k < i
    <3>1. k \in 1..Len(a)
      BY <1>2, <1>5, <2>1
    <3>2. (a \o b)[k] = a[k]
      BY <1>5, <1>6, <3>1
    <3> QED BY <1>2, <1>5, <2>1, <3>1, <3>2
  <2>2. CASE ~(k < i)
    <3>1. k - (i - 1) \in 1..(n - i)
      BY <1>2, <2>2
    <3>2. (a \o b)[k] = b[k - (i - 1)]
      BY <1>2, <1>5, <1>6, <3>1, <2>2
    <3>3. b[k - (i - 1)] = c[(k - (i - 1)) + i]
      BY <1>6, <3>1
    <3>4. (k - (i - 1)) + i = k + 1
      BY <1>2
    <3> QED BY <2>2, <3>2, <3>3, <3>4
  <2> QED BY <2>1, <2>2
<1> QED BY <1>1, <1>7, <1>8, <1>9

\* What the index will hold once the tasks of c have been performed in order.
Pure(c) == \A j \in DOMAIN c : c[j].kind = "upsert"
Awaits(c, m) == \E i \in DOMAIN c : /\ c[i].kind = "upsert" /\ c[i].of = m
                                   /\ \A j \in DOMAIN c : j > i => c[j].kind = "upsert"
Future(c, f, m) == Awaits(c, m) \/ (Pure(c) /\ m \in f)

\* What runs has not passed, and will not be passed by, a task that forgets.
Ordered(c) ==
  \A i \in DOMAIN c : \A j \in DOMAIN c :
    j < i /\ c[i].running => c[i].kind = "upsert" /\ c[j].kind = "upsert"

LEMMA Appended ==
  ASSUME NEW c \in Seq(Chore), NEW new \in Seq(Chore),
         \A i \in DOMAIN new : ~new[i].running
  PROVE  /\ Ordered(c) => Ordered(c \o new)
         /\ Pure(new) => \A f, m : Future(c \o new, f, m) <=>
                                    Future(c, f, m) \/ \E i \in DOMAIN new : new[i].of = m
         /\ new # <<>> /\ new[Len(new)].kind = "delete" =>
              \A f, m : ~Future(c \o new, f, m)
<1>1. PICK d : d = c \o new
  OBVIOUS
<1>2. PICK n \in Nat : n = Len(c) /\ DOMAIN c = 1..n
  OBVIOUS
<1>3. PICK k \in Nat : k = Len(new) /\ DOMAIN new = 1..k
  OBVIOUS
<1>4. d \in Seq(Chore) /\ Len(d) = n + k /\ DOMAIN d = 1..(n + k)
  BY <1>1, <1>2, <1>3
<1>5. \A i \in 1..n : d[i] = c[i]
  BY <1>1, <1>2, <1>3
<1>6. \A i \in 1..k : d[n + i] = new[i]
  BY <1>1, <1>2, <1>3
<1>7. ASSUME NEW i \in 1..(n + k), i > n PROVE i - n \in 1..k /\ d[i] = new[i - n]
  <2>1. i - n \in 1..k /\ n + (i - n) = i
    BY <1>7
  <2> QED BY <1>6, <2>1
<1>8. ASSUME Ordered(c) PROVE Ordered(d)
  <2> SUFFICES ASSUME NEW i \in 1..(n + k), NEW j \in 1..(n + k), j < i, d[i].running
               PROVE  d[i].kind = "upsert" /\ d[j].kind = "upsert"
    BY <1>4 DEF Ordered
  <2>1. ~(i > n)
    BY <1>3, <1>7
  <2>2. i \in 1..n /\ j \in 1..n
    BY <2>1
  <2> QED BY <1>2, <1>5, <1>8, <2>2 DEF Ordered
<1>9. ASSUME Pure(new), NEW f, NEW m
      PROVE  Future(d, f, m) <=> Future(c, f, m) \/ \E i \in 1..k : new[i].of = m
  <2>1. Pure(d) <=> Pure(c)
    <3>1. ASSUME Pure(c), NEW j \in 1..(n + k) PROVE d[j].kind = "upsert"
      <4>1. CASE j > n
        BY <1>3, <1>7, <1>9, <4>1 DEF Pure
      <4>2. CASE ~(j > n)
        <5>1. j \in 1..n
          BY <4>2
        <5> QED BY <1>2, <1>5, <3>1, <5>1 DEF Pure
      <4> QED BY <4>1, <4>2
    <3>2. ASSUME Pure(d), NEW j \in 1..n PROVE c[j].kind = "upsert"
      <4>1. j \in 1..(n + k)
        OBVIOUS
      <4> QED BY <1>4, <1>5, <3>2, <4>1 DEF Pure
    <3> QED BY <1>2, <1>4, <3>1, <3>2 DEF Pure
  <2>2. ASSUME Awaits(c, m) PROVE Awaits(d, m)
    <3>1. PICK i \in 1..n : /\ c[i].kind = "upsert" /\ c[i].of = m
                            /\ \A j \in 1..n : j > i => c[j].kind = "upsert"
      BY <1>2, <2>2 DEF Awaits
    <3>2. i \in 1..(n + k) /\ d[i] = c[i]
      BY <1>5, <3>1
    <3>3. ASSUME NEW j \in 1..(n + k), j > i PROVE d[j].kind = "upsert"
      <4>1. CASE j > n
        BY <1>3, <1>7, <1>9, <4>1 DEF Pure
      <4>2. CASE ~(j > n)
        <5>1. j \in 1..n
          BY <4>2
        <5> QED BY <1>5, <3>1, <3>3, <5>1
      <4> QED BY <4>1, <4>2
    <3> QED BY <1>4, <3>1, <3>2, <3>3 DEF Awaits
  <2>3. ASSUME NEW i \in 1..k, new[i].of = m PROVE Awaits(d, m)
    <3>1. n + i \in 1..(n + k) /\ d[n + i] = new[i]
      BY <1>6
    <3>2. new[i].kind = "upsert"
      BY <1>3, <1>9 DEF Pure
    <3>3. ASSUME NEW j \in 1..(n + k), j > n + i PROVE d[j].kind = "upsert"
      <4>1. j > n
        BY <3>3
      <4> QED BY <1>3, <1>7, <1>9, <4>1 DEF Pure
    <3> QED BY <1>4, <2>3, <3>1, <3>2, <3>3 DEF Awaits
  <2>4. ASSUME Awaits(d, m) PROVE Awaits(c, m) \/ \E i \in 1..k : new[i].of = m
    <3>1. PICK i \in 1..(n + k) : /\ d[i].kind = "upsert" /\ d[i].of = m
                                  /\ \A j \in 1..(n + k) : j > i => d[j].kind = "upsert"
      BY <1>4, <2>4 DEF Awaits
    <3>2. CASE i > n
      BY <1>7, <3>1, <3>2
    <3>3. CASE ~(i > n)
      <4>1. i \in 1..n /\ d[i] = c[i]
        BY <1>5, <3>3
      <4>2. ASSUME NEW j \in 1..n, j > i PROVE c[j].kind = "upsert"
        BY <1>5, <3>1, <4>2
      <4> QED BY <1>2, <3>1, <4>1, <4>2 DEF Awaits
    <3> QED BY <3>2, <3>3
  <2> QED BY <2>1, <2>2, <2>3, <2>4 DEF Future
<1>10. ASSUME new # <<>>, new[k].kind = "delete", NEW f, NEW m PROVE ~Future(d, f, m)
  <2>1. k \in 1..k
    BY <1>3, <1>10
  <2>2. n + k \in 1..(n + k) /\ d[n + k].kind = "delete"
    BY <1>6, <1>10, <2>1
  <2>3. ~Pure(d)
    BY <1>4, <2>2 DEF Pure
  <2>4. ASSUME Awaits(d, m) PROVE FALSE
    <3>1. PICK i \in 1..(n + k) : /\ d[i].kind = "upsert"
                                  /\ \A j \in 1..(n + k) : j > i => d[j].kind = "upsert"
      BY <1>4, <2>4 DEF Awaits
    <3>2. ~(n + k > i)
      BY <2>2, <3>1
    <3>3. i = n + k
      BY <3>2
    <3> QED BY <2>2, <3>1, <3>3
  <2> QED BY <2>3, <2>4 DEF Future
<1> QED BY <1>1, <1>3, <1>8, <1>9, <1>10

LEMMA Removed ==
  ASSUME NEW c \in Seq(Chore), NEW i \in DOMAIN c, Ordered(c), c[i].running, NEW f, NEW m
  PROVE  /\ Ordered(RemoveAt(c, i))
         /\ c[i].kind = "upsert" =>
              /\ Future(RemoveAt(c, i), f \union {c[i].of}, m) <=> Future(c, f, m)
              /\ Future(RemoveAt(c, i), f, m) => Future(c, f, m)
              /\ Future(c, f, m) => Future(RemoveAt(c, i), f, m) \/ m = c[i].of
         /\ c[i].kind = "delete" =>
              /\ Future(RemoveAt(c, i), {}, m) <=> Future(c, f, m)
              /\ Future(c, f, m) => Future(RemoveAt(c, i), f, m)
<1>1. PICK d : d = RemoveAt(c, i)
  OBVIOUS
<1>2. PICK n \in Nat : n = Len(c) /\ DOMAIN c = 1..n
  OBVIOUS
<1>3. /\ d \in Seq(Chore) /\ DOMAIN d = 1..(n - 1)
      /\ \A k \in 1..(n - 1) : d[k] = IF k < i THEN c[k] ELSE c[k + 1]
  BY <1>1, <1>2, RemovedAt
<1>4. i \in 1..n /\ c[i] \in Chore /\ c[i].kind \in {"upsert", "delete"}
  <2>1. i \in 1..n
    BY <1>2
  <2>2. c[i] \in Chore
    BY <1>2, <2>1
  <2> QED BY <2>1, <2>2 DEF Chore
<1>5. \A k \in 1..(n - 1) : (k < i => d[k] = c[k]) /\ (k >= i => d[k] = c[k + 1])
  BY <1>3, <1>4
\* Where an element of c has gone.
<1>6. ASSUME NEW k \in 1..n, k # i
      PROVE  \E q \in 1..(n - 1) : /\ d[q] = c[k]
                                   /\ (k < i => q = k) /\ (k > i => q = k - 1)
  <2>1. CASE k < i
    <3>1. k \in 1..(n - 1)
      BY <1>4, <2>1
    <3> QED BY <1>4, <1>5, <2>1, <3>1
  <2>2. CASE k > i
    <3>1. k - 1 \in 1..(n - 1) /\ k - 1 >= i /\ (k - 1) + 1 = k
      BY <1>4, <2>2
    <3> QED BY <1>4, <1>5, <2>2, <3>1
  <2> QED BY <1>4, <1>6, <2>1, <2>2
\* Where one of d came from.
<1>7. ASSUME NEW q \in 1..(n - 1)
      PROVE  \E k \in 1..n : /\ k # i /\ d[q] = c[k]
                             /\ (q < i => k = q) /\ (q >= i => k = q + 1)
  <2>1. CASE q < i
    <3>1. q \in 1..n /\ q # i
      BY <1>4, <2>1
    <3> QED BY <1>4, <1>5, <2>1, <3>1
  <2>2. CASE q >= i
    <3>1. q + 1 \in 1..n /\ q + 1 # i
      BY <1>4, <2>2
    <3> QED BY <1>4, <1>5, <2>2, <3>1
  <2> QED BY <1>4, <2>1, <2>2
<1>8. Ordered(d)
  <2> SUFFICES ASSUME NEW p \in 1..(n - 1), NEW q \in 1..(n - 1), q < p, d[p].running
               PROVE  d[p].kind = "upsert" /\ d[q].kind = "upsert"
    BY <1>3 DEF Ordered
  <2>1. PICK k \in 1..n : /\ k # i /\ d[p] = c[k]
                          /\ (p < i => k = p) /\ (p >= i => k = p + 1)
    BY <1>7
  <2>2. PICK l \in 1..n : /\ l # i /\ d[q] = c[l]
                          /\ (q < i => l = q) /\ (q >= i => l = q + 1)
    BY <1>7
  <2>3. l < k
    BY <1>4, <2>1, <2>2
  <2> QED BY <1>2, <2>1, <2>2, <2>3 DEF Ordered
<1>9. ASSUME c[i].kind = "upsert" PROVE \A j \in 1..n : j < i => c[j].kind = "upsert"
  BY <1>2, <1>4 DEF Ordered
<1>10. ASSUME c[i].kind = "delete" PROVE \A j \in 1..n : ~(j < i)
  BY <1>2, <1>4, <1>10 DEF Ordered
\* Who is awaited is awaited still, but for the task that is taken.
<1>11. ASSUME Awaits(d, m) PROVE Awaits(c, m)
  <2>1. PICK q \in 1..(n - 1) : /\ d[q].kind = "upsert" /\ d[q].of = m
                                /\ \A p \in 1..(n - 1) : p > q => d[p].kind = "upsert"
    BY <1>3, <1>11 DEF Awaits
  <2>2. PICK k \in 1..n : /\ k # i /\ d[q] = c[k]
                          /\ (q < i => k = q) /\ (q >= i => k = q + 1)
    BY <1>7
  <2>3. ASSUME NEW j \in 1..n, j > k PROVE c[j].kind = "upsert"
    <3>1. CASE j # i
      <4>1. PICK p \in 1..(n - 1) : /\ d[p] = c[j]
                                    /\ (j < i => p = j) /\ (j > i => p = j - 1)
        BY <1>6, <3>1
      <4>2. p > q
        BY <1>4, <2>2, <2>3, <3>1, <4>1
      <4> QED BY <2>1, <4>1, <4>2
    <3>2. CASE j = i
      <4>1. c[i].kind # "delete"
        BY <1>10, <2>3, <3>2
      <4> QED BY <1>4, <3>2, <4>1
    <3> QED BY <3>1, <3>2
  <2> QED BY <1>2, <2>1, <2>2, <2>3 DEF Awaits
<1>12. ASSUME Awaits(c, m) PROVE Awaits(d, m) \/ (c[i].kind = "upsert" /\ m = c[i].of /\ Pure(d))
  <2>1. PICK k \in 1..n : /\ c[k].kind = "upsert" /\ c[k].of = m
                          /\ \A j \in 1..n : j > k => c[j].kind = "upsert"
    BY <1>2, <1>12 DEF Awaits
  <2>2. CASE k # i
    <3>1. PICK q \in 1..(n - 1) : /\ d[q] = c[k]
                                  /\ (k < i => q = k) /\ (k > i => q = k - 1)
      BY <1>6, <2>2
    <3>2. ASSUME NEW p \in 1..(n - 1), p > q PROVE d[p].kind = "upsert"
      <4>1. PICK j \in 1..n : /\ j # i /\ d[p] = c[j]
                              /\ (p < i => j = p) /\ (p >= i => j = p + 1)
        BY <1>7
      <4>2. j > k
        BY <1>4, <2>2, <3>1, <3>2, <4>1
      <4> QED BY <2>1, <4>1, <4>2
    <3> QED BY <1>3, <2>1, <3>1, <3>2 DEF Awaits
  <2>3. CASE k = i
    <3>1. ASSUME NEW p \in 1..(n - 1) PROVE d[p].kind = "upsert"
      <4>1. PICK j \in 1..n : j # i /\ d[p] = c[j]
        BY <1>7
      <4>2. CASE j < i
        BY <1>9, <2>1, <2>3, <4>1, <4>2
      <4>3. CASE j > i
        BY <2>1, <2>3, <4>1, <4>3
      <4> QED BY <1>4, <4>1, <4>2, <4>3
    <3>2. Pure(d)
      BY <1>3, <3>1 DEF Pure
    <3> QED BY <2>1, <2>3, <3>2
  <2> QED BY <2>2, <2>3
<1>13. ASSUME Pure(c) PROVE Pure(d)
  BY <1>2, <1>3, <1>7, <1>13 DEF Pure
<1>14. ASSUME Pure(d), c[i].kind = "upsert" PROVE Pure(c)
  <2>1. ASSUME NEW j \in 1..n PROVE c[j].kind = "upsert"
    <3>1. CASE j # i
      <4>1. PICK p \in 1..(n - 1) : d[p] = c[j]
        BY <1>6, <3>1
      <4> QED BY <1>3, <1>14, <4>1 DEF Pure
    <3> QED BY <1>14, <3>1
  <2> QED BY <1>2, <2>1 DEF Pure
\* The task itself, if it is the last word, is of what is awaited.
<1>15. ASSUME c[i].kind = "upsert", Pure(d) PROVE Awaits(c, c[i].of)
  <2>1. Pure(c)
    BY <1>14, <1>15
  <2>2. \A j \in 1..n : j > i => c[j].kind = "upsert"
    BY <1>2, <2>1 DEF Pure
  <2> QED BY <1>2, <1>4, <1>15, <2>2 DEF Awaits
<1>16. ASSUME c[i].kind = "upsert"
       PROVE  /\ Future(d, f \union {c[i].of}, m) <=> Future(c, f, m)
              /\ Future(d, f, m) => Future(c, f, m)
              /\ Future(c, f, m) => Future(d, f, m) \/ m = c[i].of
  BY <1>11, <1>12, <1>13, <1>14, <1>15, <1>16 DEF Future
<1>17. ASSUME c[i].kind = "delete"
       PROVE  /\ Future(d, {}, m) <=> Future(c, f, m)
              /\ Future(c, f, m) => Future(d, f, m)
  <2>1. ~Pure(c)
    BY <1>2, <1>4, <1>17 DEF Pure
  <2> QED BY <1>11, <1>12, <1>17, <2>1 DEF Future
<1> QED BY <1>1, <1>8, <1>16, <1>17

\* What becomes of the tasks when upserts are emitted, and when a conversation
\* is to be forgotten.
LEMMA Handed ==
  ASSUME chores \in Seq(Chore), NEW S \in SUBSET Sayings, IsFiniteSet(S),
         NEW low \in BOOLEAN, HandUpserts(S, low)
  PROVE  /\ chores' \in Seq(Chore)
         /\ Ordered(chores) => Ordered(chores')
         /\ \A f, m : Future(chores', f, m) <=> Future(chores, f, m) \/ m \in S
<1>1. PICK g : g = SetToSeq(S)
  OBVIOUS
<1>2. g \in Seq(S) /\ \A x \in S : \E i \in DOMAIN g : g[i] = x
  BY <1>1, SetAsSeq
<1>3. PICK k \in Nat : k = Len(g) /\ DOMAIN g = 1..k
  BY <1>2
<1>4. PICK new : new = [i \in 1..k |-> Indexing(g[i], low)]
  OBVIOUS
<1>5. chores' = chores \o new
  BY <1>1, <1>3, <1>4 DEF HandUpserts, Hand
<1>6. ASSUME NEW i \in 1..k
      PROVE  /\ new[i] \in Chore /\ ~new[i].running
             /\ new[i].kind = "upsert" /\ new[i].of = g[i] /\ g[i] \in S
  <2>1. g[i] \in S
    BY <1>2, <1>3
  <2>2. new[i] = Indexing(g[i], low)
    BY <1>4
  <2> QED BY <2>1, <2>2 DEF Indexing, Chore
<1>7. new \in Seq(Chore) /\ DOMAIN new = 1..k
  BY <1>4, <1>6
<1>8. Pure(new) /\ \A i \in DOMAIN new : ~new[i].running
  BY <1>6, <1>7 DEF Pure
<1>9. \A m : (\E i \in DOMAIN new : new[i].of = m) <=> m \in S
  BY <1>2, <1>3, <1>6, <1>7
<1>10. chores \o new \in Seq(Chore)
  BY <1>7, ConcatProperties, Zenon
<1>11. /\ Ordered(chores) => Ordered(chores \o new)
       /\ \A f, m : Future(chores \o new, f, m) <=>
                    Future(chores, f, m) \/ \E i \in DOMAIN new : new[i].of = m
  BY <1>7, <1>8, Appended, Zenon
<1> QED BY <1>5, <1>9, <1>10, <1>11

LEMMA Forgotten ==
  ASSUME chores \in Seq(Chore), Hand(<<Forgetting>>)
  PROVE  /\ chores' \in Seq(Chore)
         /\ Ordered(chores) => Ordered(chores')
         /\ \A f, m : ~Future(chores', f, m)
<1>1. PICK new : new = <<Forgetting>>
  OBVIOUS
<1>2. Forgetting \in Chore /\ ~Forgetting.running /\ Forgetting.kind = "delete"
  BY DEF Forgetting, Chore
<1>3. /\ new \in Seq(Chore) /\ new # <<>> /\ Len(new) = 1 /\ DOMAIN new = {1}
      /\ new[1] = Forgetting
  BY <1>1, <1>2
<1>4. \A i \in DOMAIN new : ~new[i].running
  BY <1>2, <1>3
<1>5. new[Len(new)].kind = "delete"
  BY <1>2, <1>3
<1>6. /\ Ordered(chores) => Ordered(chores \o new)
      /\ \A f, m : ~Future(chores \o new, f, m)
  BY <1>3, <1>4, <1>5, Appended, Zenon
<1>7. chores \o new \in Seq(Chore)
  BY <1>3, ConcatProperties, Zenon
<1> QED BY <1>1, <1>6, <1>7 DEF Hand

\* A request that begins, and one that is over.
LEMMA Begins ==
  ASSUME TalkTyped, NEW h \in Talkers, NEW q, Begun(h, q)
  PROVE  /\ DOMAIN talker' = Talkers /\ talker'[h] = q
         /\ \A g \in Talkers : g # h => talker'[g] = talker[g]
BY DEF TalkTyped, Begun

LEMMA Replies ==
  ASSUME TalkTyped, NEW h \in Talkers, Reply(h)
  PROVE  /\ DOMAIN talker' = Talkers /\ talker'[h] = Silent
         /\ \A g \in Talkers : g # h => talker'[g] = talker[g]
BY DEF TalkTyped, Reply

LEMMA TalkersKept ==
  ASSUME TalkerTyped, NEW h \in Talkers, DOMAIN talker' = Talkers,
         talker'[h].at \notin {"say", "restore"},
         \A g \in Talkers : g # h => talker'[g] = talker[g]
  PROVE  TalkerTyped'
<1>1. ASSUME NEW g \in Talkers
      PROVE  /\ talker'[g].at = "say" => talker'[g].posted \in BOOLEAN
                                         /\ talker'[g].follows \in Sayings \union {First}
             /\ talker'[g].at = "restore" => talker'[g].read \subseteq Sayings
                                             /\ IsFiniteSet(talker'[g].read)
  <2>1. CASE g = h
    BY <2>1
  <2>2. CASE g # h
    BY <2>2 DEF TalkerTyped
  <2> QED BY <2>1, <2>2
<1> QED BY <1>1 DEF TalkerTyped

\* The messages there are stay finitely many, and so do those with a text.
LEMMA SpokenFinite ==
  ASSUME TalkTyped
  PROVE  Spoken \subseteq Standing /\ Spoken \subseteq Sayings /\ IsFiniteSet(Spoken)
<1>1. Spoken \subseteq Standing /\ Spoken \subseteq Sayings
  BY DEF Spoken, Standing
<1> QED BY <1>1, FS_Subset DEF TalkTyped

LEMMA BehindTyped ==
  ASSUME NEW S \in SUBSET Sayings PROVE Behind(S) \in SUBSET Sayings
BY DEF Behind

\* Messages and their text keep their types.
LEMMA TalkTypeStep == TalkTyped /\ [TalkNext]_talkVars => TalkTyped'
<1> SUFFICES ASSUME TalkTyped, [TalkNext]_talkVars PROVE TalkTyped'
  OBVIOUS
<1> USE DEF SayingRow
<1>1. ASSUME NEW h \in Talkers, NEW p \in Sayings \union {First}, NEW posted \in BOOLEAN,
             BeginSay(h, p, posted)
      PROVE  TalkTyped'
  <2>1. PICK q : q = [at |-> "say", follows |-> p, posted |-> posted]
    OBVIOUS
  <2>2. Begun(h, q)
    BY <1>1, <2>1 DEF BeginSay
  <2>3. /\ DOMAIN talker' = Talkers /\ talker'[h] = q
        /\ \A g \in Talkers : g # h => talker'[g] = talker[g]
    BY <2>2, Begins
  <2>4. TalkerTyped'
    <3>1. ASSUME NEW g \in Talkers
          PROVE  /\ talker'[g].at = "say" => talker'[g].posted \in BOOLEAN
                                             /\ talker'[g].follows \in Sayings \union {First}
                 /\ talker'[g].at = "restore" => talker'[g].read \subseteq Sayings
                                                 /\ IsFiniteSet(talker'[g].read)
      <4>1. CASE g = h
        BY <2>1, <2>3, <4>1
      <4>2. CASE g # h
        BY <2>3, <4>2 DEF TalkTyped, TalkerTyped
      <4> QED BY <4>1, <4>2
    <3> QED BY <3>1 DEF TalkerTyped
  <2> QED BY <1>1, <2>3, <2>4 DEF TalkTyped, BeginSay, Standing
<1>2. ASSUME NEW h \in Talkers, NEW m \in Sayings, Say(h, m) PROVE TalkTyped'
  <2>1. PICK posted : posted = talker[h].posted
    OBVIOUS
  <2>2. PICK follows : follows = talker[h].follows
    OBVIOUS
  <2>3. posted \in BOOLEAN /\ follows \in Sayings \union {First}
    BY <1>2, <2>1, <2>2 DEF Say, TalkTyped, TalkerTyped
  <2>4. PICK row : row = [state |-> IF posted THEN "settled" ELSE "open",
                          text |-> posted, follows |-> follows]
    OBVIOUS
  <2>5. row \in SayingRow
    BY <2>3, <2>4
  <2>6. PICK S : S = IF posted THEN {m} ELSE {}
    OBVIOUS
  <2>7. /\ saying' = [saying EXCEPT ![m] = row]
        /\ HandUpserts(S, FALSE)
        /\ amiss' = IF posted THEN [amiss EXCEPT !.left = @ \union Behind({m})] ELSE amiss
        /\ Reply(h) /\ UNCHANGED <<talk, recall, talks, found, named>>
    BY <1>2, <2>1, <2>2, <2>4, <2>6 DEF Say
  <2>8. S \in SUBSET Sayings /\ IsFiniteSet(S)
    BY <2>6, FS_Singleton, FS_EmptySet
  <2>9. chores' \in Seq(Chore)
    BY <2>7, <2>8, Handed DEF TalkTyped
  <2>10. TalkerTyped' /\ DOMAIN talker' = Talkers
    BY <2>7, Replies, TalkersKept DEF TalkTyped, Silent
  <2>11. saying' \in [Sayings -> SayingRow]
    BY <2>5, <2>7 DEF TalkTyped
  <2>12. Standing' \subseteq Standing \union {m}
    BY <2>7 DEF Standing, TalkTyped
  <2>13. IsFiniteSet(Standing')
    <3>1. IsFiniteSet(Standing \union {m})
      BY FS_AddElement DEF TalkTyped
    <3> QED BY <2>12, <3>1, FS_Subset
  <2>14. amiss' \in [lost : SUBSET Sayings, left : SUBSET Sayings, crossed : BOOLEAN]
    BY <2>7, BehindTyped DEF TalkTyped
  <2> QED BY <2>7, <2>9, <2>10, <2>11, <2>13, <2>14 DEF TalkTyped
<1>3. ASSUME NEW m \in Sayings, Speak(m) PROVE TalkTyped'
  <2>1. saying' \in [Sayings -> SayingRow]
    <3>1. PICK row : row = [saying[m] EXCEPT !.text = TRUE]
      OBVIOUS
    <3>2. saying[m] \in SayingRow
      BY DEF TalkTyped
    <3>3. row \in SayingRow
      BY <3>1, <3>2
    <3>4. saying' = [saying EXCEPT ![m] = row]
      BY <1>3, <3>1 DEF Speak
    <3> QED BY <3>3, <3>4 DEF TalkTyped
  <2>2. Standing' = Standing
    BY <1>3 DEF Speak, Standing, TalkTyped
  <2> QED BY <1>3, <2>1, <2>2 DEF Speak, TalkTyped, TalkerTyped
<1>4. ASSUME NEW m \in Sayings, Settle(m) PROVE TalkTyped'
  <2>1. PICK S : S = Heard(m)
    OBVIOUS
  <2>2. S \in SUBSET Sayings /\ IsFiniteSet(S)
    BY <2>1, FS_Singleton, FS_EmptySet DEF Heard
  <2>3. chores' \in Seq(Chore)
    BY <1>4, <2>1, <2>2, Handed DEF TalkTyped, Settle
  <2>4. saying' \in [Sayings -> SayingRow]
    <3>1. PICK row : row = [saying[m] EXCEPT !.state = "settled"]
      OBVIOUS
    <3>2. saying[m] \in SayingRow
      BY DEF TalkTyped
    <3>3. row \in SayingRow
      BY <3>1, <3>2 DEF SayingRow
    <3>4. saying' = [saying EXCEPT ![m] = row]
      BY <1>4, <3>1 DEF Settle
    <3> QED BY <3>3, <3>4 DEF TalkTyped
  <2>5. Standing' = Standing
    BY <1>4 DEF Settle, Standing, TalkTyped
  <2>6. amiss' \in [lost : SUBSET Sayings, left : SUBSET Sayings, crossed : BOOLEAN]
    BY <1>4, <2>1, <2>2, BehindTyped DEF TalkTyped, Settle
  <2> QED BY <1>4, <2>3, <2>4, <2>5, <2>6 DEF Settle, TalkTyped, TalkerTyped
<1>5. ASSUME NEW m \in Sayings, RemoveSaying(m) PROVE TalkTyped'
  <2>1. saying' \in [Sayings -> SayingRow]
    BY <1>5 DEF RemoveSaying, TalkTyped
  <2>2. Standing' \subseteq Standing
    BY <1>5 DEF RemoveSaying, Standing, TalkTyped
  <2>3. IsFiniteSet(Standing')
    BY <2>2, FS_Subset DEF TalkTyped
  <2> QED BY <1>5, <2>1, <2>3 DEF RemoveSaying, TalkTyped, TalkerTyped
<1>6. ASSUME NEW h \in Talkers, NEW q, q.at \in {"remove", "title", "make"}, BeginTalk(h, q)
      PROVE  TalkTyped'
  <2>1. /\ DOMAIN talker' = Talkers /\ talker'[h] = q
        /\ \A g \in Talkers : g # h => talker'[g] = talker[g]
    BY <1>6, Begins DEF BeginTalk
  <2>2. TalkerTyped'
    BY <1>6, <2>1, TalkersKept DEF TalkTyped
  <2> QED BY <1>6, <2>1, <2>2 DEF BeginTalk, TalkTyped, Standing
<1>7. ASSUME NEW h \in Talkers, BeginReturn(h) PROVE TalkTyped'
  <2>1. PICK q : q = [at |-> "restore", read |-> Spoken]
    OBVIOUS
  <2>2. /\ DOMAIN talker' = Talkers /\ talker'[h] = q
        /\ \A g \in Talkers : g # h => talker'[g] = talker[g]
    BY <1>7, <2>1, Begins DEF BeginTalk, BeginReturn
  <2>3. TalkerTyped'
    <3>1. ASSUME NEW g \in Talkers
          PROVE  /\ talker'[g].at = "say" => talker'[g].posted \in BOOLEAN
                                             /\ talker'[g].follows \in Sayings \union {First}
                 /\ talker'[g].at = "restore" => talker'[g].read \subseteq Sayings
                                                 /\ IsFiniteSet(talker'[g].read)
      <4>1. CASE g = h
        BY <2>1, <2>2, <4>1, SpokenFinite
      <4>2. CASE g # h
        BY <2>2, <4>2 DEF TalkTyped, TalkerTyped
      <4> QED BY <4>1, <4>2
    <3> QED BY <3>1 DEF TalkerTyped
  <2> QED BY <1>7, <2>2, <2>3 DEF BeginReturn, BeginTalk, TalkTyped, Standing
<1>8. ASSUME NEW h \in Talkers, RemoveTalk(h) PROVE TalkTyped'
  <2>1. chores' \in Seq(Chore)
    BY <1>8, Forgotten DEF TalkTyped, RemoveTalk
  <2>2. TalkerTyped' /\ DOMAIN talker' = Talkers
    BY <1>8, Replies, TalkersKept DEF TalkTyped, Silent, RemoveTalk
  <2> QED BY <1>8, <2>1, <2>2 DEF TalkTyped, RemoveTalk, Standing
<1>9. ASSUME NEW h \in Talkers, ReturnTalk(h) PROVE TalkTyped'
  <2>1. PICK S : S = talker[h].read
    OBVIOUS
  <2>2. S \in SUBSET Sayings /\ IsFiniteSet(S)
    BY <1>9, <2>1 DEF TalkTyped, TalkerTyped, ReturnTalk
  <2>3. chores' \in Seq(Chore)
    BY <1>9, <2>1, <2>2, Handed DEF TalkTyped, ReturnTalk
  <2>4. TalkerTyped' /\ DOMAIN talker' = Talkers
    BY <1>9, Replies, TalkersKept DEF TalkTyped, Silent, ReturnTalk
  <2>5. amiss' \in [lost : SUBSET Sayings, left : SUBSET Sayings, crossed : BOOLEAN]
    BY <1>9, SpokenFinite DEF TalkTyped, ReturnTalk
  <2> QED BY <1>9, <2>3, <2>4, <2>5 DEF TalkTyped, ReturnTalk, Standing
<1>10. ASSUME NEW h \in Talkers, GiveTitle(h) PROVE TalkTyped'
  <2>1. TalkerTyped' /\ DOMAIN talker' = Talkers
    BY <1>10, Replies, TalkersKept DEF TalkTyped, Silent, GiveTitle
  <2> QED BY <1>10, <2>1 DEF TalkTyped, GiveTitle, Standing
<1>11. ASSUME NEW h \in Talkers, MakeTitle(h) PROVE TalkTyped'
  <2>1. TalkerTyped' /\ DOMAIN talker' = Talkers
    BY <1>11, Replies, TalkersKept DEF TalkTyped, Silent, MakeTitle
  <2> QED BY <1>11, <2>1 DEF TalkTyped, MakeTitle, Standing
<1>12. ASSUME NEW mode \in {"tasks", "direct"}, BeginRecall(mode) PROVE TalkTyped'
  BY <1>12, SpokenFinite DEF TalkTyped, BeginRecall, TalkerTyped, Standing
<1>13. ASSUME NEW m \in Sayings, Recall(m) PROVE TalkTyped'
  <2>1. recall' \in [mode : {"none", "tasks", "direct"}, rest : SUBSET Sayings]
    BY <1>13 DEF TalkTyped, Recall, NoRecall
  <2>2. amiss' \in [lost : SUBSET Sayings, left : SUBSET Sayings, crossed : BOOLEAN]
    BY <1>13, BehindTyped DEF TalkTyped, Recall
  <2>3. {m} \in SUBSET Sayings /\ IsFiniteSet({m})
    BY FS_Singleton
  <2>4. chores' \in Seq(Chore) /\ found' \subseteq Sayings
    <3>1. CASE recall.mode = "tasks"
      BY <1>13, <2>3, <3>1, Handed DEF TalkTyped, Recall
    <3>2. CASE recall.mode # "tasks"
      BY <1>13, <3>2 DEF TalkTyped, Recall
    <3> QED BY <3>1, <3>2
  <2> QED BY <1>13, <2>1, <2>2, <2>4 DEF TalkTyped, Recall, TalkerTyped, Standing
<1>14. ASSUME NEW i \in DOMAIN chores, StartChore(i) PROVE TalkTyped'
  <2>1. PICK e : e = [chores[i] EXCEPT !.running = TRUE]
    OBVIOUS
  <2>2. chores[i] \in Chore
    BY DEF TalkTyped
  <2>3. e \in Chore
    BY <2>1, <2>2 DEF Chore
  <2>4. chores' = [chores EXCEPT ![i] = e]
    BY <1>14, <2>1 DEF StartChore
  <2>5. chores' \in Seq(Chore)
    BY <2>3, <2>4 DEF TalkTyped
  <2>6. amiss' \in [lost : SUBSET Sayings, left : SUBSET Sayings, crossed : BOOLEAN]
    BY <1>14 DEF TalkTyped, StartChore
  <2> QED BY <1>14, <2>5, <2>6 DEF TalkTyped, StartChore, TalkerTyped, Standing
<1>15. ASSUME NEW i \in DOMAIN chores, DoChore(i) PROVE TalkTyped'
  <2>1. chores[i] \in Chore
    BY DEF TalkTyped
  <2>2. chores' \in Seq(Chore)
    BY <1>15, RemovedAt DEF TalkTyped, DoChore
  <2>3. found' \subseteq Sayings
    BY <1>15, <2>1 DEF TalkTyped, DoChore, Chore
  <2> QED BY <1>15, <2>2, <2>3 DEF TalkTyped, DoChore, TalkerTyped, Standing
<1>16. ASSUME NEW i \in DOMAIN chores, FailChore(i) PROVE TalkTyped'
  <2>1. chores[i] \in Chore
    BY DEF TalkTyped
  <2>2. chores' \in Seq(Chore)
    BY <1>16, RemovedAt DEF TalkTyped, FailChore
  <2>3. amiss' \in [lost : SUBSET Sayings, left : SUBSET Sayings, crossed : BOOLEAN]
    BY <1>16, <2>1 DEF TalkTyped, FailChore, Chore
  <2> QED BY <1>16, <2>2, <2>3 DEF TalkTyped, FailChore, TalkerTyped, Standing
<1>17. CASE UNCHANGED talkVars
  BY <1>17 DEF talkVars, TalkTyped, TalkerTyped, Standing
<1>18. ASSUME NEW h \in Talkers, BeginRemoval(h) \/ BeginTitle(h) \/ BeginMake(h)
       PROVE  TalkTyped'
  BY <1>6, <1>18 DEF BeginRemoval, BeginTitle, BeginMake
<1> QED BY <1>1, <1>2, <1>3, <1>4, <1>5, <1>7, <1>8, <1>9, <1>10, <1>11, <1>12, <1>13,
           <1>14, <1>15, <1>16, <1>17, <1>18 DEF TalkNext

\* What may be in the index when no task for it is left.
Alright(m) == m \in amiss.left \/ (~talk.removed /\ m \in Standing)

Foretold(m) == Future(chores, found, m)

\* What a refresh or a return has read is there, or has gone since; and the
\* index will hold what it should, unless tasks were performed out of order.
ReadSound ==
  /\ recall.rest \subseteq Standing \union amiss.left
  /\ \A h \in Talkers : talker[h].at = "restore" =>
       talker[h].read \subseteq Standing \union amiss.left

NothingAmiss == \A m : Foretold(m) => Alright(m)
NothingMissed ==
  ~talk.removed => \A m \in Spoken : saying[m].state = "settled" =>
                     m \in amiss.lost \/ Foretold(m)

IndexInv ==
  /\ ReadSound
  /\ ~amiss.crossed => Ordered(chores) /\ NothingAmiss /\ NothingMissed

\* A title that is being made was asked for when there was none.
TitleInv ==
  /\ TitleKept
  /\ \A h \in Talkers : talker[h].at = "make" => talker[h].named = FALSE

\* A step that only begins or ends a request.
LEMMA ReadersKept ==
  ASSUME ReadSound, NEW h \in Talkers, talker'[h].at # "restore",
         \A g \in Talkers : g # h => talker'[g] = talker[g],
         recall' = recall, Standing \subseteq Standing' \union amiss'.left,
         amiss.left \subseteq amiss'.left
  PROVE  ReadSound'
<1>1. recall'.rest \subseteq Standing' \union amiss'.left
  BY DEF ReadSound
<1>2. ASSUME NEW g \in Talkers, talker'[g].at = "restore"
      PROVE  talker'[g].read \subseteq Standing' \union amiss'.left
  <2>1. talker'[g] = talker[g]
    BY <1>2
  <2> QED BY <1>2, <2>1 DEF ReadSound
<1> QED BY <1>1, <1>2 DEF ReadSound

LEMMA ReadersStay ==
  ASSUME ReadSound, talker' = talker, recall'.rest \subseteq recall.rest,
         Standing \subseteq Standing' \union amiss'.left,
         amiss.left \subseteq amiss'.left
  PROVE  ReadSound'
BY DEF ReadSound

\* A step that leaves the index and its tasks alone, and what it is to hold.
LEMMA IndexKept ==
  ASSUME ~amiss.crossed => Ordered(chores) /\ NothingAmiss /\ NothingMissed,
         chores' = chores, found' = found, amiss' = amiss,
         talk'.removed = talk.removed, saying' = saying
  PROVE  ~amiss'.crossed => (Ordered(chores) /\ NothingAmiss /\ NothingMissed)'
BY DEF NothingAmiss, NothingMissed, Alright, Foretold, Standing, Spoken

\* What a removed or settled message leaves of who is standing.
LEMMA IndexStep == TalkTyped /\ IndexInv /\ [TalkNext]_talkVars => IndexInv'
<1> SUFFICES ASSUME TalkTyped, IndexInv, [TalkNext]_talkVars PROVE IndexInv'
  OBVIOUS
<1>0. ReadSound /\ (~amiss.crossed => Ordered(chores) /\ NothingAmiss /\ NothingMissed)
  BY DEF IndexInv
<1>1. ASSUME NEW h \in Talkers, NEW q, q.at # "restore", Begun(h, q),
             UNCHANGED <<talk, saying, recall, chores, found, named, amiss>>
      PROVE  IndexInv'
  <2>1. /\ talker'[h] = q
        /\ \A g \in Talkers : g # h => talker'[g] = talker[g]
    BY <1>1, Begins
  <2>2. Standing' = Standing
    BY <1>1 DEF Standing
  <2>3. ReadSound'
    BY <1>0, <1>1, <2>1, <2>2, ReadersKept
  <2> QED BY <1>0, <1>1, <2>3, IndexKept DEF IndexInv
<1>2. ASSUME NEW h \in Talkers, NEW p \in Sayings \union {First}, NEW posted \in BOOLEAN,
             BeginSay(h, p, posted)
      PROVE  IndexInv'
  <2>1. PICK q : q = [at |-> "say", follows |-> p, posted |-> posted]
    OBVIOUS
  <2>2. q.at # "restore"
    BY <2>1
  <2> QED BY <1>1, <1>2, <2>1, <2>2 DEF BeginSay
<1>3. ASSUME NEW h \in Talkers, NEW q, q.at # "restore", BeginTalk(h, q) PROVE IndexInv'
  BY <1>1, <1>3 DEF BeginTalk
<1>4. ASSUME NEW h \in Talkers, BeginRemoval(h) \/ BeginTitle(h) \/ BeginMake(h)
      PROVE  IndexInv'
  BY <1>3, <1>4 DEF BeginRemoval, BeginTitle, BeginMake
<1>5. ASSUME NEW h \in Talkers, BeginReturn(h) PROVE IndexInv'
  <2>1. PICK q : q = [at |-> "restore", read |-> Spoken]
    OBVIOUS
  <2>2. /\ talker'[h] = q
        /\ \A g \in Talkers : g # h => talker'[g] = talker[g]
    BY <1>5, <2>1, Begins DEF BeginTalk, BeginReturn
  <2>3. UNCHANGED <<talk, saying, recall, chores, found, named, amiss>>
    BY <1>5 DEF BeginTalk, BeginReturn
  <2>4. Standing' = Standing
    BY <2>3 DEF Standing
  <2>5. ASSUME NEW g \in Talkers, talker'[g].at = "restore"
        PROVE  talker'[g].read \subseteq Standing \union amiss.left
    <3>1. CASE g = h
      BY <2>1, <2>2, <3>1, SpokenFinite
    <3>2. CASE g # h
      BY <1>0, <2>2, <2>5, <3>2 DEF ReadSound
    <3> QED BY <3>1, <3>2
  <2>6. ReadSound'
    BY <1>0, <2>3, <2>4, <2>5 DEF ReadSound
  <2> QED BY <1>0, <2>3, <2>6, IndexKept DEF IndexInv
<1>6. ASSUME NEW h \in Talkers, NEW m \in Sayings, Say(h, m) PROVE IndexInv'
  <2>1. PICK posted : posted = talker[h].posted
    OBVIOUS
  <2>2. PICK follows : follows = talker[h].follows
    OBVIOUS
  <2>3. posted \in BOOLEAN
    BY <1>6, <2>1 DEF Say, TalkTyped, TalkerTyped
  <2>4. PICK row : row = [state |-> IF posted THEN "settled" ELSE "open",
                          text |-> posted, follows |-> follows]
    OBVIOUS
  <2>5. PICK S : S = IF posted THEN {m} ELSE {}
    OBVIOUS
  <2>6. /\ saying' = [saying EXCEPT ![m] = row] /\ saying[m].state = "none"
        /\ HandUpserts(S, FALSE)
        /\ amiss' = IF posted THEN [amiss EXCEPT !.left = @ \union Behind({m})] ELSE amiss
        /\ Reply(h) /\ UNCHANGED <<talk, recall, talks, found, named>>
    BY <1>6, <2>1, <2>2, <2>4, <2>5 DEF Say
  <2>7. S \in SUBSET Sayings /\ IsFiniteSet(S)
    BY <2>5, FS_Singleton, FS_EmptySet
  <2>8. /\ Ordered(chores) => Ordered(chores')
        /\ \A f, n : Future(chores', f, n) <=> Future(chores, f, n) \/ n \in S
    BY <2>6, <2>7, Handed DEF TalkTyped
  <2>9. Standing' = Standing \union {m} /\ m \notin Standing
    BY <2>4, <2>6 DEF Standing, TalkTyped
  <2>10. Spoken' = Spoken \union S
    BY <2>3, <2>4, <2>5, <2>6, <2>9 DEF Spoken, Standing, TalkTyped
  <2>11. /\ amiss'.crossed = amiss.crossed /\ amiss'.lost = amiss.lost
         /\ amiss.left \subseteq amiss'.left
         /\ talk.removed => S \subseteq amiss'.left
    BY <2>5, <2>6 DEF TalkTyped, Behind
  <2>12. ReadSound'
    <3>1. talker'[h].at # "restore" /\ \A g \in Talkers : g # h => talker'[g] = talker[g]
      BY <2>6, Replies DEF Silent
    <3> QED BY <1>0, <2>6, <2>9, <2>11, <3>1, ReadersKept
  <2>13. ASSUME ~amiss'.crossed PROVE (Ordered(chores) /\ NothingAmiss /\ NothingMissed)'
    <3>1. ASSUME NEW n, Future(chores', found', n)
          PROVE  n \in amiss'.left \/ (~talk'.removed /\ n \in Standing')
      <4>1. CASE n \in S
        BY <2>5, <2>6, <2>9, <2>11, <4>1
      <4>2. CASE n \notin S
        <5>1. Foretold(n)
          BY <2>6, <2>8, <3>1, <4>2 DEF Foretold
        <5>2. n \in amiss.left \/ (~talk.removed /\ n \in Standing)
          BY <1>0, <2>11, <2>13, <5>1 DEF NothingAmiss, Alright
        <5> QED BY <2>6, <2>9, <2>11, <5>2
      <4> QED BY <4>1, <4>2
    <3>2. ASSUME ~talk'.removed, NEW n \in Spoken', saying'[n].state = "settled"
          PROVE  n \in amiss'.lost \/ Future(chores', found', n)
      <4>1. CASE n \in S
        BY <2>8, <4>1
      <4>2. CASE n \notin S
        <5>1. n \in Spoken /\ n # m
          BY <2>9, <2>10, <3>2, <4>2, SpokenFinite
        <5>2. saying[n].state = "settled" /\ ~talk.removed
          BY <2>6, <3>2, <5>1 DEF TalkTyped
        <5>3. n \in amiss.lost \/ Foretold(n)
          BY <1>0, <2>11, <2>13, <5>1, <5>2 DEF NothingMissed
        <5> QED BY <2>6, <2>8, <2>11, <5>3 DEF Foretold
      <4> QED BY <4>1, <4>2
    <3>3. Ordered(chores')
      BY <1>0, <2>8, <2>11, <2>13
    <3> QED BY <3>1, <3>2, <3>3 DEF NothingAmiss, NothingMissed, Alright, Foretold
  <2> QED BY <2>12, <2>13 DEF IndexInv
<1>7. ASSUME NEW m \in Sayings, Speak(m) PROVE IndexInv'
  <2>1. PICK row : row = [saying[m] EXCEPT !.text = TRUE]
    OBVIOUS
  <2>2. saying' = [saying EXCEPT ![m] = row] /\ saying[m].state = "open"
    BY <1>7, <2>1 DEF Speak
  <2>3. row.state = "open"
    BY <2>1, <2>2 DEF TalkTyped, SayingRow
  <2>4. Standing' = Standing
    BY <2>2, <2>3 DEF Standing, TalkTyped
  <2>5. UNCHANGED <<talk, talker, recall, chores, found, amiss>>
    BY <1>7 DEF Speak
  <2>6. ReadSound'
    BY <1>0, <2>4, <2>5 DEF ReadSound
  <2>7. ASSUME ~amiss'.crossed PROVE (Ordered(chores) /\ NothingAmiss /\ NothingMissed)'
    <3>1. NothingAmiss'
      BY <1>0, <2>4, <2>5, <2>7 DEF NothingAmiss, Alright, Foretold
    <3>2. ASSUME ~talk'.removed, NEW n \in Spoken', saying'[n].state = "settled"
          PROVE  n \in amiss'.lost \/ Future(chores', found', n)
      <4>1. n \in Sayings /\ n # m
        BY <2>2, <2>3, <3>2 DEF TalkTyped, Spoken, Standing
      <4>2. saying[n].state = "settled" /\ n \in Spoken
        BY <2>2, <3>2, <4>1 DEF TalkTyped, Spoken, Standing
      <4> QED BY <1>0, <2>5, <2>7, <3>2, <4>2 DEF NothingMissed, Foretold
    <3> QED BY <1>0, <2>5, <2>7, <3>1, <3>2 DEF NothingMissed, Foretold
  <2> QED BY <2>6, <2>7 DEF IndexInv
<1>8. ASSUME NEW m \in Sayings, Settle(m) PROVE IndexInv'
  <2>1. PICK S : S = Heard(m)
    OBVIOUS
  <2>2. S \in SUBSET Sayings /\ IsFiniteSet(S)
    BY <2>1, FS_Singleton, FS_EmptySet DEF Heard
  <2>3. PICK row : row = [saying[m] EXCEPT !.state = "settled"]
    OBVIOUS
  <2>4. /\ saying' = [saying EXCEPT ![m] = row] /\ saying[m].state = "open"
        /\ HandUpserts(S, FALSE)
        /\ amiss' = [amiss EXCEPT !.left = @ \union Behind(S)]
        /\ UNCHANGED <<talk, talker, recall, talks, found, named>>
    BY <1>8, <2>1, <2>3 DEF Settle
  <2>5. row.state = "settled" /\ row.text = saying[m].text
    BY <2>3 DEF TalkTyped, SayingRow
  <2>6. Standing' = Standing /\ Spoken' = Spoken
    BY <2>4, <2>5 DEF Standing, Spoken, TalkTyped
  <2>7. m \in Standing /\ (m \in Spoken <=> m \in S)
    BY <2>1, <2>4 DEF Standing, Spoken, Heard
  <2>8. /\ Ordered(chores) => Ordered(chores')
        /\ \A f, n : Future(chores', f, n) <=> Future(chores, f, n) \/ n \in S
    BY <2>2, <2>4, Handed DEF TalkTyped
  <2>9. /\ amiss'.crossed = amiss.crossed /\ amiss'.lost = amiss.lost
        /\ amiss.left \subseteq amiss'.left
        /\ talk.removed => S \subseteq amiss'.left
    BY <2>4 DEF TalkTyped, Behind
  <2>10. S \subseteq {m}
    BY <2>1 DEF Heard
  <2>11. ReadSound'
    BY <1>0, <2>4, <2>6, <2>9, ReadersStay
  <2>12. ASSUME ~amiss'.crossed PROVE (Ordered(chores) /\ NothingAmiss /\ NothingMissed)'
    <3>1. ASSUME NEW n, Future(chores', found', n)
          PROVE  n \in amiss'.left \/ (~talk'.removed /\ n \in Standing')
      <4>1. CASE n \in S
        BY <2>4, <2>6, <2>7, <2>9, <2>10, <4>1
      <4>2. CASE n \notin S
        <5>1. Foretold(n)
          BY <2>4, <2>8, <3>1, <4>2 DEF Foretold
        <5>2. n \in amiss.left \/ (~talk.removed /\ n \in Standing)
          BY <1>0, <2>9, <2>12, <5>1 DEF NothingAmiss, Alright
        <5> QED BY <2>4, <2>6, <2>9, <5>2
      <4> QED BY <4>1, <4>2
    <3>2. ASSUME ~talk'.removed, NEW n \in Spoken', saying'[n].state = "settled"
          PROVE  n \in amiss'.lost \/ Future(chores', found', n)
      <4>1. CASE n \in S
        BY <2>8, <4>1
      <4>2. CASE n \notin S
        <5>1. n \in Spoken /\ n # m /\ n \in Sayings
          BY <2>6, <2>7, <3>2, <4>2, SpokenFinite
        <5>2. saying[n].state = "settled" /\ ~talk.removed
          BY <2>4, <3>2, <5>1 DEF TalkTyped
        <5>3. n \in amiss.lost \/ Foretold(n)
          BY <1>0, <2>9, <2>12, <5>1, <5>2 DEF NothingMissed
        <5> QED BY <2>4, <2>8, <2>9, <5>3 DEF Foretold
      <4> QED BY <4>1, <4>2
    <3>3. Ordered(chores')
      BY <1>0, <2>8, <2>9, <2>12
    <3> QED BY <3>1, <3>2, <3>3 DEF NothingAmiss, NothingMissed, Alright, Foretold
  <2> QED BY <2>11, <2>12 DEF IndexInv
<1>9. ASSUME NEW m \in Sayings, RemoveSaying(m) PROVE IndexInv'
  <2>1. PICK row : row = [saying[m] EXCEPT !.state = "removed"]
    OBVIOUS
  <2>2. saying' = [saying EXCEPT ![m] = row] /\ amiss' = [amiss EXCEPT !.left = @ \union {m}]
        /\ UNCHANGED <<talk, talker, recall, chores, talks, found, named>>
    BY <1>9, <2>1 DEF RemoveSaying
  <2>3. row.state = "removed"
    BY <2>1 DEF TalkTyped, SayingRow
  <2>4. Standing \subseteq Standing' \union {m}
    BY <2>2, <2>3 DEF Standing, TalkTyped
  <2>5. /\ amiss'.crossed = amiss.crossed /\ amiss'.lost = amiss.lost
        /\ amiss.left \subseteq amiss'.left /\ m \in amiss'.left
    BY <2>2 DEF TalkTyped
  <2>6. ReadSound'
    BY <1>0, <2>2, <2>4, <2>5, ReadersStay
  <2>7. ASSUME ~amiss'.crossed PROVE (Ordered(chores) /\ NothingAmiss /\ NothingMissed)'
    <3>1. NothingAmiss'
      BY <1>0, <2>2, <2>4, <2>5, <2>7 DEF NothingAmiss, Alright, Foretold
    <3>2. ASSUME ~talk'.removed, NEW n \in Spoken', saying'[n].state = "settled"
          PROVE  n \in amiss'.lost \/ Future(chores', found', n)
      <4>1. n \in Sayings /\ n # m
        BY <2>2, <2>3, <3>2 DEF TalkTyped, Spoken, Standing
      <4>2. saying[n].state = "settled" /\ n \in Spoken
        BY <2>2, <3>2, <4>1 DEF TalkTyped, Spoken, Standing
      <4> QED BY <1>0, <2>2, <2>5, <2>7, <3>2, <4>2 DEF NothingMissed, Foretold
    <3> QED BY <1>0, <2>2, <2>5, <2>7, <3>1, <3>2 DEF NothingMissed, Foretold
  <2> QED BY <2>6, <2>7 DEF IndexInv
<1>10. ASSUME NEW h \in Talkers, RemoveTalk(h) PROVE IndexInv'
  <2>1. talk'.removed = TRUE
    BY <1>10 DEF RemoveTalk, TalkTyped
  <2>2. /\ Ordered(chores) => Ordered(chores')
        /\ \A f, m : ~Future(chores', f, m)
    BY <1>10, Forgotten DEF TalkTyped, RemoveTalk
  <2>3. ReadSound'
    <3>1. talker'[h].at # "restore" /\ \A g \in Talkers : g # h => talker'[g] = talker[g]
      BY <1>10, Replies DEF Silent, RemoveTalk
    <3>2. Standing' = Standing /\ recall' = recall /\ amiss' = amiss
      BY <1>10 DEF RemoveTalk, Standing
    <3> QED BY <1>0, <3>1, <3>2, ReadersKept
  <2>4. amiss' = amiss
    BY <1>10 DEF RemoveTalk
  <2> QED BY <1>0, <2>1, <2>2, <2>3, <2>4 DEF IndexInv, NothingAmiss, NothingMissed, Foretold
<1>11. ASSUME NEW h \in Talkers, ReturnTalk(h) PROVE IndexInv'
  <2>1. PICK S : S = talker[h].read
    OBVIOUS
  <2>2. S \in SUBSET Sayings /\ IsFiniteSet(S) /\ S \subseteq Standing \union amiss.left
    BY <1>0, <1>11, <2>1 DEF TalkTyped, TalkerTyped, ReturnTalk, ReadSound
  <2>3. /\ HandUpserts(S, FALSE) /\ Reply(h) /\ talk'.removed = FALSE
        /\ amiss' = IF talk.removed THEN [amiss EXCEPT !.lost = @ \union (Spoken \ S)] ELSE amiss
        /\ UNCHANGED <<saying, recall, talks, found, named>>
    BY <1>11, <2>1 DEF ReturnTalk, TalkTyped
  <2>4. /\ Ordered(chores) => Ordered(chores')
        /\ \A f, n : Future(chores', f, n) <=> Future(chores, f, n) \/ n \in S
    BY <2>2, <2>3, Handed DEF TalkTyped
  <2>5. /\ amiss'.crossed = amiss.crossed /\ amiss.lost \subseteq amiss'.lost
        /\ amiss'.left = amiss.left
        /\ talk.removed => Spoken \ S \subseteq amiss'.lost
    BY <2>3 DEF TalkTyped
  <2>6. Standing' = Standing /\ Spoken' = Spoken
    BY <2>3 DEF Standing, Spoken
  <2>7. ReadSound'
    <3>1. talker'[h].at # "restore" /\ \A g \in Talkers : g # h => talker'[g] = talker[g]
      BY <2>3, Replies DEF Silent
    <3> QED BY <1>0, <2>3, <2>5, <2>6, <3>1, ReadersKept
  <2>8. ASSUME ~amiss'.crossed PROVE (Ordered(chores) /\ NothingAmiss /\ NothingMissed)'
    <3>1. ASSUME NEW n, Future(chores', found', n)
          PROVE  n \in amiss'.left \/ (~talk'.removed /\ n \in Standing')
      <4>1. CASE n \in S
        BY <2>2, <2>3, <2>5, <2>6, <4>1
      <4>2. CASE n \notin S
        <5>1. Foretold(n)
          BY <2>3, <2>4, <3>1, <4>2 DEF Foretold
        <5>2. n \in amiss.left \/ (~talk.removed /\ n \in Standing)
          BY <1>0, <2>5, <2>8, <5>1 DEF NothingAmiss, Alright
        <5> QED BY <2>3, <2>5, <2>6, <5>2
      <4> QED BY <4>1, <4>2
    <3>2. ASSUME NEW n \in Spoken', saying'[n].state = "settled"
          PROVE  n \in amiss'.lost \/ Future(chores', found', n)
      <4>1. CASE n \in S
        BY <2>4, <4>1
      <4>2. CASE n \notin S /\ talk.removed
        BY <2>5, <2>6, <3>2, <4>2
      <4>3. CASE ~talk.removed
        <5>1. n \in amiss.lost \/ Foretold(n)
          BY <1>0, <2>3, <2>5, <2>6, <2>8, <3>2, <4>3 DEF NothingMissed
        <5> QED BY <2>3, <2>4, <2>5, <5>1 DEF Foretold
      <4> QED BY <4>1, <4>2, <4>3
    <3>3. Ordered(chores')
      BY <1>0, <2>4, <2>5, <2>8
    <3> QED BY <3>1, <3>2, <3>3 DEF NothingAmiss, NothingMissed, Alright, Foretold
  <2> QED BY <2>7, <2>8 DEF IndexInv
<1>12. ASSUME NEW h \in Talkers, GiveTitle(h) \/ MakeTitle(h) PROVE IndexInv'
  <2>1. talk'.removed = talk.removed
    BY <1>12 DEF GiveTitle, MakeTitle, TalkTyped
  <2>2. Reply(h) /\ UNCHANGED <<saying, recall, chores, found, amiss>>
    BY <1>12 DEF GiveTitle, MakeTitle
  <2>3. talker'[h].at # "restore" /\ \A g \in Talkers : g # h => talker'[g] = talker[g]
    BY <2>2, Replies DEF Silent
  <2>4. Standing' = Standing
    BY <2>2 DEF Standing
  <2>5. ReadSound'
    BY <1>0, <2>2, <2>3, <2>4, ReadersKept
  <2> QED BY <1>0, <2>1, <2>2, <2>5, IndexKept DEF IndexInv
<1>13. ASSUME NEW mode \in {"tasks", "direct"}, BeginRecall(mode) PROVE IndexInv'
  <2>1. recall' = [mode |-> mode, rest |-> Spoken]
        /\ UNCHANGED <<talk, saying, talker, chores, found, named, amiss>>
    BY <1>13 DEF BeginRecall
  <2>2. Standing' = Standing
    BY <2>1 DEF Standing
  <2>3. ReadSound'
    BY <1>0, <2>1, <2>2, SpokenFinite DEF ReadSound
  <2> QED BY <1>0, <2>1, <2>3, IndexKept DEF IndexInv
<1>14. ASSUME NEW m \in Sayings, Recall(m) PROVE IndexInv'
  <2>1. /\ m \in recall.rest /\ recall'.rest \subseteq recall.rest
        /\ amiss' = [amiss EXCEPT !.left = @ \union Behind({m})]
        /\ UNCHANGED <<talk, saying, talker, talks, named>>
    BY <1>14 DEF Recall, NoRecall, TalkTyped
  <2>2. /\ amiss'.crossed = amiss.crossed /\ amiss'.lost = amiss.lost
        /\ amiss.left \subseteq amiss'.left /\ (talk.removed => m \in amiss'.left)
    BY <2>1 DEF TalkTyped, Behind
  <2>3. Standing' = Standing /\ Spoken' = Spoken
    BY <2>1 DEF Standing, Spoken
  <2>4. m \in amiss'.left \/ (~talk.removed /\ m \in Standing)
    BY <1>0, <2>1, <2>2 DEF ReadSound
  <2>5. ReadSound'
    BY <1>0, <2>1, <2>2, <2>3, ReadersStay
  <2>6. /\ Ordered(chores) => Ordered(chores')
        /\ \A n : Future(chores', found', n) => Foretold(n) \/ n = m
        /\ \A n : Foretold(n) => Future(chores', found', n)
    <3>1. CASE recall.mode = "tasks"
      <4>1. {m} \in SUBSET Sayings /\ IsFiniteSet({m})
        BY FS_Singleton
      <4>2. HandUpserts({m}, TRUE) /\ found' = found
        BY <1>14, <3>1 DEF Recall
      <4>3. /\ Ordered(chores) => Ordered(chores')
            /\ \A f, n : Future(chores', f, n) <=> Future(chores, f, n) \/ n \in {m}
        BY <4>1, <4>2, Handed DEF TalkTyped
      <4> QED BY <4>2, <4>3 DEF Foretold
    <3>2. CASE recall.mode # "tasks"
      <4>1. found' \in {found, found \union {m}} /\ chores' = chores
        BY <1>14, <3>2 DEF Recall
      <4> QED BY <4>1 DEF Foretold, Future
    <3> QED BY <3>1, <3>2
  <2>7. ASSUME ~amiss'.crossed PROVE (Ordered(chores) /\ NothingAmiss /\ NothingMissed)'
    <3>1. ASSUME NEW n, Future(chores', found', n)
          PROVE  n \in amiss'.left \/ (~talk'.removed /\ n \in Standing')
      <4>1. CASE n = m
        BY <2>1, <2>3, <2>4, <4>1
      <4>2. CASE Foretold(n)
        BY <1>0, <2>1, <2>2, <2>3, <2>7, <4>2 DEF NothingAmiss, Alright
      <4> QED BY <2>6, <3>1, <4>1, <4>2
    <3>2. ASSUME ~talk'.removed, NEW n \in Spoken', saying'[n].state = "settled"
          PROVE  n \in amiss'.lost \/ Future(chores', found', n)
      <4>1. n \in amiss.lost \/ Foretold(n)
        BY <1>0, <2>1, <2>2, <2>3, <2>7, <3>2 DEF NothingMissed
      <4> QED BY <2>2, <2>6, <4>1
    <3>3. Ordered(chores')
      BY <1>0, <2>2, <2>6, <2>7
    <3> QED BY <3>1, <3>2, <3>3 DEF NothingAmiss, NothingMissed, Alright, Foretold
  <2> QED BY <2>5, <2>7 DEF IndexInv
<1>15. ASSUME NEW i \in DOMAIN chores, StartChore(i) PROVE IndexInv'
  <2>1. PICK e : e = [chores[i] EXCEPT !.running = TRUE]
    OBVIOUS
  <2>2. chores[i] \in Chore
    BY DEF TalkTyped
  <2>3. e.kind = chores[i].kind /\ e.of = chores[i].of
    BY <2>1, <2>2 DEF Chore
  <2>4. chores' = [chores EXCEPT ![i] = e]
        /\ UNCHANGED <<talk, saying, talker, recall, talks, found, named>>
    BY <1>15, <2>1 DEF StartChore
  <2>5. /\ DOMAIN chores' = DOMAIN chores
        /\ \A j \in DOMAIN chores : chores'[j].kind = chores[j].kind /\ chores'[j].of = chores[j].of
        /\ \A j \in DOMAIN chores : j # i => chores'[j] = chores[j]
    BY <2>3, <2>4 DEF TalkTyped
  <2>6. \A n : Future(chores', found, n) <=> Future(chores, found, n)
    BY <2>5 DEF Future, Pure, Awaits
  <2>7. amiss'.left = amiss.left /\ amiss'.lost = amiss.lost
    BY <1>15 DEF StartChore, TalkTyped
  <2>8. Standing' = Standing /\ Spoken' = Spoken
    BY <2>4 DEF Standing, Spoken
  <2>9. ASSUME ~amiss'.crossed
        PROVE  /\ ~amiss.crossed
               /\ \A j \in DOMAIN chores : j < i => "delete" \notin {chores[i].kind, chores[j].kind}
    BY <1>15, <2>9 DEF StartChore, TalkTyped
  <2>10. ASSUME ~amiss'.crossed PROVE Ordered(chores')
    <3> SUFFICES ASSUME NEW k \in DOMAIN chores, NEW j \in DOMAIN chores, j < k,
                        chores'[k].running
                 PROVE  chores'[k].kind = "upsert" /\ chores'[j].kind = "upsert"
      BY <2>5 DEF Ordered
    <3>1. chores[j] \in Chore /\ chores[k] \in Chore
      BY DEF TalkTyped
    <3>2. CASE k = i
      <4>1. "delete" \notin {chores[k].kind, chores[j].kind}
        BY <2>9, <2>10, <3>2
      <4> QED BY <2>5, <3>1, <4>1 DEF Chore
    <3>3. CASE k # i
      BY <1>0, <2>5, <2>9, <2>10, <3>3 DEF Ordered
    <3> QED BY <3>2, <3>3
  <2>11. ReadSound'
    BY <1>0, <2>4, <2>7, <2>8 DEF ReadSound
  <2> QED BY <1>0, <2>4, <2>6, <2>7, <2>8, <2>9, <2>10, <2>11
          DEF IndexInv, NothingAmiss, NothingMissed, Alright, Foretold
<1>16. ASSUME NEW i \in DOMAIN chores, DoChore(i) PROVE IndexInv'
  <2>1. /\ chores[i].running /\ chores' = RemoveAt(chores, i)
        /\ found' = IF chores[i].kind = "upsert" THEN found \union {chores[i].of} ELSE {}
        /\ UNCHANGED <<talk, saying, talker, recall, talks, named, amiss>>
    BY <1>16 DEF DoChore
  <2>2. Standing' = Standing /\ Spoken' = Spoken
    BY <2>1 DEF Standing, Spoken
  <2>3. chores \in Seq(Chore) /\ chores[i].kind \in {"upsert", "delete"}
    <3>1. chores[i] \in Chore
      BY DEF TalkTyped
    <3> QED BY <3>1 DEF TalkTyped, Chore
  <2>4. ASSUME ~amiss.crossed, NEW n
        PROVE  Ordered(chores') /\ (Future(chores', found', n) <=> Future(chores, found, n))
    BY <1>0, <2>1, <2>3, <2>4, Removed
  <2>5. ASSUME ~amiss.crossed PROVE Ordered(chores')
    BY <2>4, <2>5
  <2>6. ReadSound'
    BY <1>0, <2>1, <2>2 DEF ReadSound
  <2> QED BY <1>0, <2>1, <2>2, <2>4, <2>5, <2>6
          DEF IndexInv, NothingAmiss, NothingMissed, Alright, Foretold
<1>17. ASSUME NEW i \in DOMAIN chores, FailChore(i) PROVE IndexInv'
  <2>1. /\ chores[i].running /\ chores' = RemoveAt(chores, i)
        /\ UNCHANGED <<talk, saying, talker, recall, talks, found, named>>
    BY <1>17 DEF FailChore
  <2>2. Standing' = Standing /\ Spoken' = Spoken
    BY <2>1 DEF Standing, Spoken
  <2>3. chores \in Seq(Chore) /\ chores[i].kind \in {"upsert", "delete"} /\ chores[i] \in Chore
    <3>1. chores[i] \in Chore
      BY DEF TalkTyped
    <3> QED BY <3>1 DEF TalkTyped, Chore
  <2>4. /\ amiss'.crossed = amiss.crossed
        /\ chores[i].kind = "upsert" => /\ amiss'.left = amiss.left
                                        /\ amiss'.lost = amiss.lost \union {chores[i].of}
        /\ chores[i].kind = "delete" => amiss'.left = Sayings /\ amiss'.lost = amiss.lost
    BY <1>17, <2>3 DEF FailChore, TalkTyped
  <2>5. amiss.left \subseteq amiss'.left /\ amiss.lost \subseteq amiss'.lost
    BY <2>3, <2>4 DEF TalkTyped
  <2>6. ReadSound'
    BY <1>0, <2>1, <2>2, <2>5 DEF ReadSound
  <2>7. ASSUME ~amiss'.crossed PROVE (Ordered(chores) /\ NothingAmiss /\ NothingMissed)'
    <3>1. Ordered(chores) /\ ~amiss.crossed
      BY <1>0, <2>4, <2>7
    <3>2. Ordered(chores')
      BY <2>1, <2>3, <3>1, Removed
    <3>3. ASSUME NEW n, Future(chores', found', n)
          PROVE  n \in amiss'.left \/ (~talk'.removed /\ n \in Standing')
      <4>1. CASE chores[i].kind = "upsert"
        <5>1. Foretold(n)
          BY <2>1, <2>3, <3>1, <3>3, <4>1, Removed DEF Foretold
        <5> QED BY <1>0, <2>1, <2>2, <2>5, <3>1, <5>1 DEF NothingAmiss, Alright
      <4>2. CASE chores[i].kind = "delete"
        <5>1. chores' \in Seq(Chore)
          BY <2>1, <2>3, RemovedAt
        <5>2. n \in Sayings
          <6>1. CASE n \in found'
            BY <2>1, <6>1 DEF TalkTyped
          <6>2. CASE Awaits(chores', n)
            <7>1. PICK k \in DOMAIN chores' : chores'[k].kind = "upsert" /\ chores'[k].of = n
              BY <6>2 DEF Awaits
            <7>2. chores'[k] \in Chore
              BY <5>1
            <7> QED BY <7>1, <7>2 DEF Chore
          <6> QED BY <3>3, <6>1, <6>2 DEF Future
        <5> QED BY <2>4, <4>2, <5>2
      <4> QED BY <2>3, <4>1, <4>2
    <3>4. ASSUME ~talk'.removed, NEW n \in Spoken', saying'[n].state = "settled"
          PROVE  n \in amiss'.lost \/ Future(chores', found', n)
      <4>1. n \in amiss.lost \/ Foretold(n)
        BY <1>0, <2>1, <2>2, <3>1, <3>4 DEF NothingMissed
      <4>2. CASE n \in amiss.lost
        BY <2>5, <4>2
      <4>3. CASE Foretold(n)
        BY <2>1, <2>3, <2>4, <3>1, <4>3, Removed DEF Foretold
      <4> QED BY <4>1, <4>2, <4>3
    <3> QED BY <3>2, <3>3, <3>4 DEF NothingAmiss, NothingMissed, Alright, Foretold
  <2> QED BY <2>6, <2>7 DEF IndexInv
<1>18. CASE UNCHANGED talkVars
  BY <1>0, <1>18 DEF talkVars, IndexInv, ReadSound, NothingAmiss, NothingMissed, Alright, Foretold,
                     Standing, Spoken
<1> QED BY <1>2, <1>4, <1>5, <1>6, <1>7, <1>8, <1>9, <1>10, <1>11, <1>12, <1>13,
           <1>14, <1>15, <1>16, <1>17, <1>18 DEF TalkNext

\* While a title is being made the user may give one, which is then named, or
\* another may be made, which names none.
LEMMA TitleStep == TalkTyped /\ TitleInv /\ [TalkNext]_talkVars => TitleInv'
<1> SUFFICES ASSUME TalkTyped, TitleInv, [TalkNext]_talkVars PROVE TitleInv'
  OBVIOUS
<1>1. ASSUME NEW h \in Talkers, NEW q, q.at = "make" => q.named = FALSE, Begun(h, q),
             UNCHANGED <<talk, named>>
      PROVE  TitleInv'
  <2>1. /\ talker'[h] = q
        /\ \A g \in Talkers : g # h => talker'[g] = talker[g]
    BY <1>1, Begins
  <2>2. ASSUME NEW g \in Talkers, talker'[g].at = "make" PROVE talker'[g].named = FALSE
    <3>1. CASE g = h
      BY <1>1, <2>1, <2>2, <3>1
    <3>2. CASE g # h
      BY <2>1, <2>2, <3>2 DEF TitleInv
    <3> QED BY <3>1, <3>2
  <2> QED BY <1>1, <2>2 DEF TitleInv, TitleKept
<1>2. ASSUME NEW h \in Talkers, Reply(h), named' => talk'.title = "given" PROVE TitleInv'
  <2>1. /\ talker'[h].at # "make"
        /\ \A g \in Talkers : g # h => talker'[g] = talker[g]
    BY <1>2, Replies DEF Silent
  <2>2. ASSUME NEW g \in Talkers, talker'[g].at = "make" PROVE talker'[g].named = FALSE
    BY <2>1, <2>2 DEF TitleInv
  <2> QED BY <1>2, <2>2 DEF TitleInv, TitleKept
<1>3. ASSUME UNCHANGED <<talk, talker, named>> PROVE TitleInv'
  BY <1>3 DEF TitleInv, TitleKept
<1>4. ASSUME NEW h \in Talkers, NEW p \in Sayings \union {First}, NEW posted \in BOOLEAN,
             BeginSay(h, p, posted)
      PROVE  TitleInv'
  <2>1. PICK q : q = [at |-> "say", follows |-> p, posted |-> posted]
    OBVIOUS
  <2> QED BY <1>1, <1>4, <2>1 DEF BeginSay
<1>5. ASSUME NEW h \in Talkers, BeginRemoval(h) \/ BeginReturn(h) \/ BeginTitle(h)
      PROVE  TitleInv'
  <2>1. PICK q : q.at # "make" /\ BeginTalk(h, q)
    <3>1. CASE BeginRemoval(h)
      BY <3>1 DEF BeginRemoval
    <3>2. CASE BeginReturn(h)
      <4>1. PICK q : q = [at |-> "restore", read |-> Spoken]
        OBVIOUS
      <4> QED BY <3>2, <4>1 DEF BeginReturn
    <3>3. CASE BeginTitle(h)
      BY <3>3 DEF BeginTitle
    <3> QED BY <1>5, <3>1, <3>2, <3>3
  <2> QED BY <1>1, <2>1 DEF BeginTalk
<1>6. ASSUME NEW h \in Talkers, BeginMake(h) PROVE TitleInv'
  <2>1. PICK q : q = [at |-> "make", named |-> named]
    OBVIOUS
  <2>2. talk.title = "none" /\ BeginTalk(h, q)
    BY <1>6, <2>1 DEF BeginMake, Untitled
  <2>3. named = FALSE
    BY <2>2 DEF TitleInv, TitleKept, TalkTyped
  <2> QED BY <1>1, <2>1, <2>2, <2>3 DEF BeginTalk
<1>7. ASSUME NEW h \in Talkers, NEW m \in Sayings, Say(h, m) PROVE TitleInv'
  <2>1. Reply(h) /\ UNCHANGED <<talk, named>>
    BY <1>7 DEF Say
  <2> QED BY <1>2, <2>1 DEF TitleInv, TitleKept
<1>8. ASSUME NEW h \in Talkers, RemoveTalk(h) \/ ReturnTalk(h) PROVE TitleInv'
  <2>1. Reply(h) /\ named' = named /\ talk'.title = talk.title
    BY <1>8 DEF RemoveTalk, ReturnTalk, TalkTyped
  <2> QED BY <1>2, <2>1 DEF TitleInv, TitleKept
<1>9. ASSUME NEW h \in Talkers, GiveTitle(h) PROVE TitleInv'
  <2>1. Reply(h) /\ talk'.title = "given"
    BY <1>9 DEF GiveTitle, TalkTyped
  <2> QED BY <1>2, <2>1
<1>10. ASSUME NEW h \in Talkers, MakeTitle(h) PROVE TitleInv'
  <2>1. Reply(h) /\ named' = (named /\ talker[h].named) /\ talker[h].at = "make"
    BY <1>10 DEF MakeTitle
  <2>2. ~named'
    BY <2>1 DEF TitleInv
  <2> QED BY <1>2, <2>1, <2>2
<1>11. ASSUME NEW m \in Sayings, Speak(m) \/ Settle(m) \/ RemoveSaying(m) \/ Recall(m)
       PROVE  TitleInv'
  BY <1>3, <1>11 DEF Speak, Settle, RemoveSaying, Recall
<1>12. ASSUME NEW mode \in {"tasks", "direct"}, BeginRecall(mode) PROVE TitleInv'
  BY <1>3, <1>12 DEF BeginRecall
<1>13. ASSUME NEW i \in DOMAIN chores, StartChore(i) \/ DoChore(i) \/ FailChore(i)
       PROVE  TitleInv'
  BY <1>3, <1>13 DEF StartChore, DoChore, FailChore
<1>14. CASE UNCHANGED talkVars
  BY <1>3, <1>14 DEF talkVars
<1> QED BY <1>4, <1>5, <1>6, <1>7, <1>8, <1>9, <1>10, <1>11, <1>12, <1>13, <1>14 DEF TalkNext

\* With no task left, the index of messages holds the settled messages of a
\* conversation that is there and nothing of one that is removed, but for what
\* tasks performed out of order, late writes and a return that had not read
\* it have done; and the title the user gave stays, unless one was being made.
THEOREM ConversationAlwaysKept == TalkSpec => []ConversationKept
<1>1. TalkInit => TalkTyped /\ IndexInv /\ TitleInv
  <2> SUFFICES ASSUME TalkInit PROVE TalkTyped /\ IndexInv /\ TitleInv
    OBVIOUS
  <2>1. Standing = {} /\ Spoken = {}
    BY DEF TalkInit, Standing, Spoken
  <2>2. IsFiniteSet(Standing)
    BY <2>1, FS_EmptySet
  <2>3. \A h \in Talkers : talker[h].at = "rest"
    BY DEF TalkInit, Silent
  <2>4. TalkTyped
    <3>1. saying \in [Sayings -> SayingRow]
      BY DEF TalkInit, SayingRow
    <3>2. chores \in Seq(Chore) /\ found \subseteq Sayings /\ named \in BOOLEAN
      <4>1. <<>> \in Seq(Chore)
        OBVIOUS
      <4>2. chores = <<>> /\ found = {} /\ named = FALSE
        BY DEF TalkInit
      <4> QED BY <4>1, <4>2
    <3>3. TalkerTyped /\ DOMAIN talker = Talkers
      BY <2>3 DEF TalkInit, TalkerTyped
    <3>4. talk \in [removed : BOOLEAN, title : {"none", "given", "made"}]
      BY DEF TalkInit
    <3>5. recall \in [mode : {"none", "tasks", "direct"}, rest : SUBSET Sayings]
      BY DEF TalkInit, NoRecall
    <3>6. amiss \in [lost : SUBSET Sayings, left : SUBSET Sayings, crossed : BOOLEAN]
      BY DEF TalkInit
    <3> QED BY <2>2, <3>1, <3>2, <3>3, <3>4, <3>5, <3>6 DEF TalkTyped
  <2>5. DOMAIN chores = {} /\ found = {}
    BY DEF TalkInit
  <2>6. \A m : ~Foretold(m)
    BY <2>5 DEF Foretold, Future, Awaits
  <2>7. Ordered(chores)
    BY <2>5 DEF Ordered
  <2>8. ReadSound
    BY <2>3 DEF ReadSound, TalkInit, NoRecall
  <2>9. IndexInv
    BY <2>1, <2>6, <2>7, <2>8 DEF IndexInv, NothingAmiss, NothingMissed
  <2>10. TitleInv
    BY <2>3 DEF TitleInv, TitleKept, TalkInit
  <2> QED BY <2>4, <2>9, <2>10
<1>2. TalkTyped /\ IndexInv /\ TitleInv /\ [TalkNext]_talkVars => (TalkTyped /\ IndexInv /\ TitleInv)'
  BY TalkTypeStep, IndexStep, TitleStep
<1>3. TalkTyped /\ IndexInv /\ TitleInv => ConversationKept
  <2> SUFFICES ASSUME TalkTyped, IndexInv, TitleInv, chores = <<>>, ~amiss.crossed
               PROVE  MessagesIndexed
    BY DEF ConversationKept, TitleInv, MessagesIndexed
  <2>1. \A m : Foretold(m) <=> m \in found
    BY DEF Foretold, Future, Pure, Awaits
  <2>2. \A m \in found : Alright(m)
    BY <2>1 DEF IndexInv, NothingAmiss
  <2>3. ~talk.removed => \A m \in Spoken : saying[m].state = "settled" => m \in amiss.lost \/ m \in found
    BY <2>1 DEF IndexInv, NothingMissed
  <2> QED BY <2>2, <2>3 DEF MessagesIndexed, Alright, TalkTyped
<1> QED BY <1>1, <1>2, <1>3, PTL DEF TalkSpec

(* -------------------------------- answers -------------------------------- *)

RowSet == [status : Open \union Settled, text : Nat, given : Nat, of : Nat, lapse : BOOLEAN]
SnapSet == RowSet \union {NoRow}
StopSet == [at : {"none", "find", "save", "publish"}, msg : Nat, snap : SnapSet]
Places == {"open", "mark", "subscribe", "read", "store", "save", "publish", "over"}
SessSet ==
  [server : Servers, at : Places,
   chunk : Kinds \union {"none"}, event : Nat, msg : Nat, snap : SnapSet, sent : Seq(Nat),
   aborted : BOOLEAN, finished : BOOLEAN, clean : BOOLEAN, stop : StopSet,
   alone : BOOLEAN, covered : BOOLEAN]
CancelSet ==
  [at : {"idle"}] \union [at : {"look", "save", "publish", "done"}, server : Servers,
                          msg : Nat, snap : SnapSet]
LogSet == [id : Nat, of : Nat, kind : Kinds \union {"none", "stopped"}]

StreamTyped ==
  /\ rows \in Seq(RowSet)
  /\ sess \in Seq(SessSet)
  /\ active \in BOOLEAN /\ flag \in BOOLEAN
  /\ seq \in Nat
  /\ log \in Seq(LogSet)
  /\ cancels \in [Cancels -> CancelSet]

\* What a session works on is its own, in the rows R.
Aimed(x, s, R) ==
  /\ x.msg # 0 => /\ x.msg \in 1..Len(R) /\ R[x.msg].of = s
                  /\ R[x.msg].status # "success"
  /\ x.chunk = "none" => x.msg = 0
  /\ x.at \in {"open", "mark", "subscribe", "over"} => x.chunk = "none"
  /\ x.at = "store" => x.chunk \in {"bos", "delta", "eos", "error"} /\ (x.chunk = "bos" <=> x.msg = 0)
  /\ x.at = "save" => /\ x.chunk \in {"delta", "eos", "error"} /\ x.msg # 0
                      /\ x.snap \in RowSet /\ x.snap.of = s

\* What a stop or a cancellation has read is of the message it is to settle.
Read(y, R) ==
  y.at = "save" => y.msg \in 1..Len(R) /\ y.snap \in RowSet /\ y.snap.of = R[y.msg].of

Pointed ==
  /\ \A s \in Sessions : Aimed(sess[s], s, rows) /\ Read(sess[s].stop, rows)
  /\ \A c \in Cancels : Read(cancels[c], rows)
  /\ \A m \in Messages : rows[m].of \in Sessions

StreamInv == StreamTyped /\ Pointed

\* The parts of a session that its steps leave alone.
SameCourse(x, y) ==
  y.chunk = x.chunk /\ y.event = x.event /\ y.msg = x.msg /\ y.snap = x.snap /\ y.sent = x.sent
SameFate(x, y) ==
  /\ y.aborted = x.aborted /\ y.finished = x.finished /\ y.clean = x.clean
  /\ y.stop = x.stop /\ y.covered = x.covered
SameEver(x, y) == y.server = x.server /\ y.alone = x.alone

\* One session becomes y.
Becomes(s, y) ==
  /\ y \in SessSet /\ SameEver(sess[s], y)
  /\ sess' \in Seq(SessSet) /\ Len(sess') = Len(sess)
  /\ sess'[s] = y /\ \A r \in Sessions : r # s => sess'[r] = sess[r]

\* Facts of one session, and of one row.
LEMMA Becoming ==
  ASSUME sess \in Seq(SessSet), NEW s \in Sessions, NEW y \in SessSet, SameEver(sess[s], y),
         sess' = [sess EXCEPT ![s] = y]
  PROVE  Becomes(s, y)
<1>1. PICK n \in Nat : n = Len(sess) /\ DOMAIN sess = 1..n /\ Sessions = 1..n
  BY DEF Sessions
<1>2. sess' \in Seq(SessSet) /\ Len(sess') = n
  BY <1>1
<1> QED BY <1>1, <1>2 DEF Becomes

LEMMA SessTyped ==
  ASSUME sess \in Seq(SessSet), NEW s \in Sessions PROVE sess[s] \in SessSet
BY DEF Sessions

LEMMA RowTyped ==
  ASSUME rows \in Seq(RowSet), NEW m \in Messages PROVE rows[m] \in RowSet
BY DEF Messages

\* One row becomes w.
RowBecomes(m, w) ==
  /\ w \in RowSet
  /\ rows' \in Seq(RowSet) /\ Len(rows') = Len(rows)
  /\ rows'[m] = w /\ \A n \in Messages : n # m => rows'[n] = rows[n]

LEMMA RowBecoming ==
  ASSUME rows \in Seq(RowSet), NEW m \in Messages, NEW w \in RowSet,
         rows' = [rows EXCEPT ![m] = w]
  PROVE  RowBecomes(m, w)
<1>1. PICK n \in Nat : n = Len(rows) /\ DOMAIN rows = 1..n /\ Messages = 1..n
  BY DEF Messages
<1>2. rows' \in Seq(RowSet) /\ Len(rows') = n
  BY <1>1
<1> QED BY <1>1, <1>2 DEF RowBecomes

\* A row that is saved as it was read and then changed.
LEMMA Saving ==
  ASSUME rows \in Seq(RowSet), NEW m \in Messages, NEW row \in RowSet, rows' = Saved(m, row)
  PROVE  \E w \in RowSet : /\ RowBecomes(m, w)
                           /\ w.status = row.status /\ w.text = row.text /\ w.of = row.of
                           /\ w.given = rows[m].given /\ w.lapse = rows[m].lapse
<1>1. PICK g : g = rows[m].given
  OBVIOUS
<1>2. PICK l : l = rows[m].lapse
  OBVIOUS
<1>3. g \in Nat /\ l \in BOOLEAN
  BY <1>1, <1>2, RowTyped DEF RowSet
<1>4. PICK w : w = [row EXCEPT !.given = g, !.lapse = l]
  OBVIOUS
<1>5. /\ w \in RowSet /\ w.status = row.status /\ w.text = row.text /\ w.of = row.of
      /\ w.given = g /\ w.lapse = l
  BY <1>3, <1>4 DEF RowSet
<1>6. rows' = [rows EXCEPT ![m] = w]
  BY <1>1, <1>2, <1>4 DEF Saved
<1> QED BY <1>1, <1>2, <1>5, <1>6, RowBecoming

\* The abort of a session, and the message a stop finds.
LEMMA Stops ==
  ASSUME NEW x \in SessSet
  PROVE  /\ Stopping(x) \in SessSet
         /\ SameCourse(x, Stopping(x)) /\ SameEver(x, Stopping(x))
         /\ Stopping(x).at = x.at /\ Stopping(x).finished = x.finished
         /\ Stopping(x).clean = x.clean /\ Stopping(x).covered = x.covered
         /\ x.finished \/ x.aborted => Stopping(x) = x
         /\ ~(x.finished \/ x.aborted) =>
              /\ Stopping(x).aborted = TRUE /\ Stopping(x).stop.at = "find"
<1>1. CASE x.finished \/ x.aborted
  BY <1>1 DEF Stopping, SameCourse, SameEver
<1>2. CASE ~(x.finished \/ x.aborted)
  <2>1. PICK p : p = [x.stop EXCEPT !.at = "find"]
    OBVIOUS
  <2>2. p \in StopSet /\ p.at = "find"
    BY <2>1 DEF SessSet, StopSet
  <2>3. PICK y : y = [x EXCEPT !.aborted = TRUE, !.stop = p]
    OBVIOUS
  <2>4. Stopping(x) = y
    BY <1>2, <2>1, <2>3 DEF Stopping
  <2>5. y \in SessSet /\ y.aborted = TRUE /\ y.stop = p
    BY <2>2, <2>3 DEF SessSet
  <2>6. /\ y.at = x.at /\ y.finished = x.finished /\ y.clean = x.clean /\ y.covered = x.covered
        /\ SameCourse(x, y) /\ SameEver(x, y)
    BY <2>3 DEF SessSet, SameCourse, SameEver
  <2> QED BY <1>2, <2>2, <2>4, <2>5, <2>6
<1> QED BY <1>1, <1>2

\* A set of numbers has a least element.
LEMMA Smallest ==
  ASSUME NEW T, T \subseteq Nat, T # {}
  PROVE  \E x \in T : \A y \in T : x <= y
<1>1. IsWellFoundedOn(OpToRel(<, Nat), Nat)
  BY NatLessThanWellFounded
<1>2. PICK R : R = OpToRel(<, Nat)
  OBVIOUS
<1>3. ASSUME NEW x \in Nat, NEW y \in Nat, y < x PROVE <<y, x>> \in R
  BY <1>2, <1>3 DEF OpToRel
<1>4. PICK x \in T : \A y \in T : ~(<<y, x>> \in R)
  BY <1>1, <1>2, WFMin
<1>5. ASSUME NEW y \in T PROVE x <= y
  <2>1. x \in Nat /\ y \in Nat /\ ~(y < x)
    BY <1>3, <1>4
  <2> QED BY <2>1
<1> QED BY <1>5

\* The message a stop finds is the last one that is open.
LEMMA LatestFound ==
  ASSUME rows \in Seq(RowSet)
  PROVE  /\ LatestOpen = 0 => \A n \in Messages : rows[n].status \notin Open
         /\ LatestOpen # 0 => /\ LatestOpen \in Messages /\ rows[LatestOpen].status \in Open
                              /\ \A n \in Messages : rows[n].status \in Open => n <= LatestOpen
<1>1. PICK k \in Nat : k = Len(rows) /\ Messages = 1..k
  BY DEF Messages
<1>2. PICK T : T = {m \in Messages : rows[m].status \in Open}
  OBVIOUS
<1>3. CASE T = {}
  BY <1>2, <1>3 DEF LatestOpen
<1>4. CASE T # {}
  <2>1. PICK U : U = {k - m : m \in T}
    OBVIOUS
  <2>2. U \subseteq Nat /\ U # {}
    BY <1>1, <1>2, <1>4, <2>1
  <2>3. PICK u \in U : \A v \in U : u <= v
    BY <2>2, Smallest
  <2>4. PICK m \in T : u = k - m
    BY <2>1, <2>3
  <2>5. ASSUME NEW n \in T PROVE n <= m
    <3>1. k - n \in U
      BY <2>1
    <3>2. k - m <= k - n
      BY <2>3, <2>4, <3>1
    <3> QED BY <1>1, <1>2, <3>2
  <2>6. LatestOpen \in T /\ \A n \in T : n <= LatestOpen
    BY <1>2, <1>4, <2>4, <2>5 DEF LatestOpen
  <2> QED BY <1>1, <1>2, <2>6
<1> QED BY <1>3, <1>4

\* A session goes on.
LEMMA Advances ==
  ASSUME StreamTyped, NEW s \in Sessions, NEW a \in Places,
         sess' = [sess EXCEPT ![s].at = a]
  PROVE  \E y :
           /\ Becomes(s, y) /\ y.at = a /\ SameCourse(sess[s], y)
           /\ SameFate(sess[s], y)
<1>1. PICK x : x = sess[s]
  OBVIOUS
<1>2. x \in SessSet
  BY <1>1, SessTyped DEF StreamTyped
<1>3. PICK y : y = [x EXCEPT !.at = a]
  OBVIOUS
<1>4. y \in SessSet /\ SameEver(x, y)
  BY <1>2, <1>3 DEF SessSet, SameEver
<1>5. /\ y.at = a /\ SameCourse(x, y) /\ SameFate(x, y)
  BY <1>2, <1>3 DEF SessSet, SameCourse, SameFate
<1>6. sess' = [sess EXCEPT ![s] = y]
  BY <1>1, <1>3
<1> QED BY <1>1, <1>4, <1>5, <1>6, Becoming DEF StreamTyped

\* A chunk is accepted.
Taken(s, a, k) == [sess EXCEPT ![s].at = a, ![s].chunk = k, ![s].event = seq + 1]

LEMMA Receives ==
  ASSUME StreamTyped, NEW s \in Sessions, NEW k \in Kinds, NEW a \in Places,
         sess' = Taken(s, a, k)
  PROVE  \E y :
           /\ Becomes(s, y) /\ y.at = a /\ y.chunk = k /\ y.event = seq + 1
           /\ y.msg = sess[s].msg /\ y.snap = sess[s].snap
           /\ y.sent = sess[s].sent /\ SameFate(sess[s], y)
<1>1. PICK x : x = sess[s]
  OBVIOUS
<1>2. x \in SessSet
  BY <1>1, SessTyped DEF StreamTyped
<1>3. PICK y : y = [x EXCEPT !.at = a, !.chunk = k, !.event = seq + 1]
  OBVIOUS
<1>4. seq + 1 \in Nat
  BY DEF StreamTyped
<1>5. y \in SessSet /\ SameEver(x, y)
  BY <1>2, <1>3, <1>4 DEF SessSet, SameEver
<1>6. /\ y.at = a /\ y.chunk = k /\ y.event = seq + 1 /\ y.msg = x.msg
      /\ y.snap = x.snap /\ y.sent = x.sent /\ SameFate(x, y)
  BY <1>2, <1>3 DEF SessSet, SameCourse, SameFate
<1>7. sess' = [sess EXCEPT ![s] = y]
  BY <1>1, <1>3 DEF Taken
<1> QED BY <1>1, <1>5, <1>6, <1>7, Becoming DEF StreamTyped

\* A message is inserted.
LEMMA Inserts ==
  ASSUME StreamTyped, NEW s \in Sessions, Insert(s)
  PROVE  \E y :
           /\ Becomes(s, y) /\ y.at = "publish" /\ y.msg = Len(rows) + 1
           /\ y.chunk = sess[s].chunk /\ y.event = sess[s].event
           /\ y.snap = sess[s].snap /\ y.sent = sess[s].sent
           /\ SameFate(sess[s], y)
<1>1. PICK x : x = sess[s]
  OBVIOUS
<1>2. x \in SessSet
  BY <1>1, SessTyped DEF StreamTyped
<1>3. PICK y : y = [x EXCEPT !.at = "publish", !.msg = Len(rows) + 1]
  OBVIOUS
<1>4. Len(rows) + 1 \in Nat
  BY DEF StreamTyped
<1>5. y \in SessSet /\ SameEver(x, y)
  BY <1>2, <1>3, <1>4 DEF SessSet, SameEver, Places
<1>6. /\ y.at = "publish" /\ y.msg = Len(rows) + 1 /\ y.chunk = x.chunk
      /\ y.event = x.event /\ y.snap = x.snap /\ y.sent = x.sent
      /\ SameFate(x, y)
  BY <1>2, <1>3 DEF SessSet, SameCourse, SameFate
<1>7. sess' = [sess EXCEPT ![s] = y]
  BY <1>1, <1>3 DEF Insert
<1> QED BY <1>1, <1>5, <1>6, <1>7, Becoming DEF StreamTyped

\* A message is read.
LEMMA Loads ==
  ASSUME StreamTyped, NEW s \in Sessions, NEW row \in SnapSet,
         sess' = [sess EXCEPT ![s].at = "save", ![s].snap = row]
  PROVE  \E y :
           /\ Becomes(s, y) /\ y.at = "save" /\ y.snap = row
           /\ y.chunk = sess[s].chunk /\ y.event = sess[s].event
           /\ y.msg = sess[s].msg /\ y.sent = sess[s].sent
           /\ SameFate(sess[s], y)
<1>1. PICK x : x = sess[s]
  OBVIOUS
<1>2. x \in SessSet
  BY <1>1, SessTyped DEF StreamTyped
<1>3. PICK y : y = [x EXCEPT !.at = "save", !.snap = row]
  OBVIOUS
<1>4. y \in SessSet /\ SameEver(x, y)
  BY <1>2, <1>3 DEF SessSet, SameEver, Places
<1>5. /\ y.at = "save" /\ y.snap = row /\ y.chunk = x.chunk
      /\ y.event = x.event /\ y.msg = x.msg /\ y.sent = x.sent
      /\ SameFate(x, y)
  BY <1>2, <1>3 DEF SessSet, SameCourse, SameFate
<1>6. sess' = [sess EXCEPT ![s] = y]
  BY <1>1, <1>3
<1> QED BY <1>1, <1>4, <1>5, <1>6, Becoming DEF StreamTyped

\* A message is saved.
LEMMA Saves ==
  ASSUME StreamTyped, NEW s \in Sessions, NEW m \in Nat,
         sess' = [sess EXCEPT ![s].at = "publish", ![s].snap = NoRow, ![s].msg = m]
  PROVE  \E y :
           /\ Becomes(s, y) /\ y.at = "publish" /\ y.snap = NoRow /\ y.msg = m
           /\ y.chunk = sess[s].chunk /\ y.event = sess[s].event
           /\ y.sent = sess[s].sent /\ SameFate(sess[s], y)
<1>1. PICK x : x = sess[s]
  OBVIOUS
<1>2. x \in SessSet
  BY <1>1, SessTyped DEF StreamTyped
<1>3. PICK y : y = [x EXCEPT !.at = "publish", !.snap = NoRow, !.msg = m]
  OBVIOUS
<1>4. y \in SessSet /\ SameEver(x, y)
  BY <1>2, <1>3 DEF SessSet, SameEver, SnapSet, Places
<1>5. /\ y.at = "publish" /\ y.snap = NoRow /\ y.msg = m /\ y.chunk = x.chunk
      /\ y.event = x.event /\ y.sent = x.sent /\ SameFate(x, y)
  BY <1>2, <1>3 DEF SessSet, SameCourse, SameFate
<1>6. sess' = [sess EXCEPT ![s] = y]
  BY <1>1, <1>3
<1> QED BY <1>1, <1>4, <1>5, <1>6, Becoming DEF StreamTyped

\* A chunk is published.
LEMMA Publishes ==
  ASSUME StreamTyped, NEW s \in Sessions, NEW e \in Seq(Nat),
         sess' = [sess EXCEPT ![s].at = "read", ![s].event = 0, ![s].sent = e]
  PROVE  \E y :
           /\ Becomes(s, y) /\ y.at = "read" /\ y.event = 0 /\ y.sent = e
           /\ y.chunk = sess[s].chunk /\ y.msg = sess[s].msg
           /\ y.snap = sess[s].snap /\ SameFate(sess[s], y)
<1>1. PICK x : x = sess[s]
  OBVIOUS
<1>2. x \in SessSet
  BY <1>1, SessTyped DEF StreamTyped
<1>3. PICK y : y = [x EXCEPT !.at = "read", !.event = 0, !.sent = e]
  OBVIOUS
<1>4. y \in SessSet /\ SameEver(x, y)
  BY <1>2, <1>3 DEF SessSet, SameEver, Places
<1>5. /\ y.at = "read" /\ y.event = 0 /\ y.sent = e /\ y.chunk = x.chunk
      /\ y.msg = x.msg /\ y.snap = x.snap /\ SameFate(x, y)
  BY <1>2, <1>3 DEF SessSet, SameCourse, SameFate
<1>6. sess' = [sess EXCEPT ![s] = y]
  BY <1>1, <1>3
<1> QED BY <1>1, <1>4, <1>5, <1>6, Becoming DEF StreamTyped

\* The stream ends, and the session with it.
LEMMA Ends ==
  ASSUME StreamTyped, NEW s \in Sessions, EndStream(s)
  PROVE  \E y :
           /\ Becomes(s, y) /\ y.at = "over" /\ y.chunk = "none" /\ y.msg = 0
           /\ y.sent = <<>> /\ y.finished = TRUE /\ y.covered = FALSE
           /\ y.event = sess[s].event /\ y.snap = sess[s].snap
           /\ y.aborted = sess[s].aborted /\ y.clean = sess[s].clean
           /\ y.stop = sess[s].stop
<1>1. PICK x : x = sess[s]
  OBVIOUS
<1>2. x \in SessSet
  BY <1>1, SessTyped DEF StreamTyped
<1>3. PICK y : y = [x EXCEPT !.at = "over", !.chunk = "none", !.msg = 0, !.sent = <<>>, !.finished = TRUE, !.covered = FALSE]
  OBVIOUS
<1>4. <<>> \in Seq(Nat)
  OBVIOUS
<1>5. y \in SessSet /\ SameEver(x, y)
  BY <1>2, <1>3, <1>4 DEF SessSet, SameEver, Places
<1>6. /\ y.at = "over" /\ y.chunk = "none" /\ y.msg = 0 /\ y.sent = <<>>
      /\ y.finished = TRUE /\ y.covered = FALSE /\ y.event = x.event
      /\ y.snap = x.snap /\ y.aborted = x.aborted /\ y.clean = x.clean
      /\ y.stop = x.stop
  BY <1>2, <1>3 DEF SessSet, SameCourse, SameFate
<1>7. sess' = [sess EXCEPT ![s] = y]
  BY <1>1, <1>3 DEF EndStream, Completed
<1> QED BY <1>1, <1>5, <1>6, <1>7, Becoming DEF StreamTyped

\* A reader gives up.
LEMMA Quits ==
  ASSUME StreamTyped, NEW s \in Sessions, Quit(s)
  PROVE  \E y :
           /\ Becomes(s, y) /\ y.at = "over" /\ y.chunk = "none" /\ y.msg = 0
           /\ y.event = sess[s].event /\ y.snap = sess[s].snap
           /\ y.sent = sess[s].sent /\ SameFate(sess[s], y)
<1>1. PICK x : x = sess[s]
  OBVIOUS
<1>2. x \in SessSet
  BY <1>1, SessTyped DEF StreamTyped
<1>3. PICK y : y = [x EXCEPT !.at = "over", !.chunk = "none", !.msg = 0]
  OBVIOUS
<1>4. y \in SessSet /\ SameEver(x, y)
  BY <1>2, <1>3 DEF SessSet, SameEver, Places
<1>5. /\ y.at = "over" /\ y.chunk = "none" /\ y.msg = 0 /\ y.event = x.event
      /\ y.snap = x.snap /\ y.sent = x.sent /\ SameFate(x, y)
  BY <1>2, <1>3 DEF SessSet, SameCourse, SameFate
<1>6. sess' = [sess EXCEPT ![s] = y]
  BY <1>1, <1>3 DEF Quit
<1> QED BY <1>1, <1>4, <1>5, <1>6, Becoming DEF StreamTyped

\* A session is cleaned up.
LEMMA Cleans ==
  ASSUME StreamTyped, NEW s \in Sessions, CleanUp(s)
  PROVE  \E y :
           /\ Becomes(s, y) /\ y.clean = TRUE /\ y.at = sess[s].at
           /\ SameCourse(sess[s], y) /\ y.aborted = sess[s].aborted
           /\ y.finished = sess[s].finished /\ y.stop = sess[s].stop
           /\ y.covered = sess[s].covered
<1>1. PICK x : x = sess[s]
  OBVIOUS
<1>2. x \in SessSet
  BY <1>1, SessTyped DEF StreamTyped
<1>3. PICK y : y = [x EXCEPT !.clean = TRUE]
  OBVIOUS
<1>4. y \in SessSet /\ SameEver(x, y)
  BY <1>2, <1>3 DEF SessSet, SameEver
<1>5. /\ y.clean = TRUE /\ y.at = x.at /\ SameCourse(x, y)
      /\ y.aborted = x.aborted /\ y.finished = x.finished /\ y.stop = x.stop
      /\ y.covered = x.covered
  BY <1>2, <1>3 DEF SessSet, SameCourse, SameFate
<1>6. sess' = [sess EXCEPT ![s] = y]
  BY <1>1, <1>3 DEF CleanUp
<1> QED BY <1>1, <1>4, <1>5, <1>6, Becoming DEF StreamTyped

\* A stop goes on.
LEMMA StopMoves ==
  ASSUME StreamTyped, NEW s \in Sessions, NEW p \in StopSet, sess' = [sess EXCEPT ![s].stop = p]
  PROVE  \E y :
           /\ Becomes(s, y) /\ y.stop = p /\ y.at = sess[s].at
           /\ SameCourse(sess[s], y) /\ y.aborted = sess[s].aborted
           /\ y.finished = sess[s].finished /\ y.clean = sess[s].clean
           /\ y.covered = sess[s].covered
<1>1. PICK x : x = sess[s]
  OBVIOUS
<1>2. x \in SessSet
  BY <1>1, SessTyped DEF StreamTyped
<1>3. PICK y : y = [x EXCEPT !.stop = p]
  OBVIOUS
<1>4. y \in SessSet /\ SameEver(x, y)
  BY <1>2, <1>3 DEF SessSet, SameEver
<1>5. /\ y.stop = p /\ y.at = x.at /\ SameCourse(x, y)
      /\ y.aborted = x.aborted /\ y.finished = x.finished /\ y.clean = x.clean
      /\ y.covered = x.covered
  BY <1>2, <1>3 DEF SessSet, SameCourse, SameFate
<1>6. sess' = [sess EXCEPT ![s] = y]
  BY <1>1, <1>3
<1> QED BY <1>1, <1>4, <1>5, <1>6, Becoming DEF StreamTyped

\* A stop ends, and the session with it.
LEMMA StopEnds ==
  ASSUME StreamTyped, NEW s \in Sessions, StopEnd(s)
  PROVE  \E y :
           /\ Becomes(s, y) /\ y.finished = TRUE /\ y.sent = <<>>
           /\ y.covered = FALSE /\ y.stop = NoStop /\ y.at = sess[s].at
           /\ y.chunk = sess[s].chunk /\ y.event = sess[s].event
           /\ y.msg = sess[s].msg /\ y.snap = sess[s].snap
           /\ y.aborted = sess[s].aborted /\ y.clean = sess[s].clean
<1>1. PICK x : x = sess[s]
  OBVIOUS
<1>2. x \in SessSet
  BY <1>1, SessTyped DEF StreamTyped
<1>3. PICK y : y = [x EXCEPT !.finished = TRUE, !.sent = <<>>, !.covered = FALSE, !.stop = NoStop]
  OBVIOUS
<1>4. <<>> \in Seq(Nat) /\ NoStop \in StopSet
  BY DEF StopSet, NoStop, SnapSet
<1>5. y \in SessSet /\ SameEver(x, y)
  BY <1>2, <1>3, <1>4 DEF SessSet, SameEver
<1>6. /\ y.finished = TRUE /\ y.sent = <<>> /\ y.covered = FALSE
      /\ y.stop = NoStop /\ y.at = x.at /\ y.chunk = x.chunk
      /\ y.event = x.event /\ y.msg = x.msg /\ y.snap = x.snap
      /\ y.aborted = x.aborted /\ y.clean = x.clean
  BY <1>2, <1>3 DEF SessSet, SameCourse, SameFate
<1>7. sess' = [sess EXCEPT ![s] = y]
  BY <1>1, <1>3 DEF StopEnd, Completed
<1> QED BY <1>1, <1>5, <1>6, <1>7, Becoming DEF StreamTyped

\* The rows grow: a row stays whose it was, and none but the session s marks
\* one successful.
Grow(s) ==
  /\ rows' \in Seq(RowSet) /\ Len(rows) <= Len(rows')
  /\ \A m \in Messages :
       /\ rows'[m].of = rows[m].of
       /\ rows[m].of # s /\ rows'[m].status = "success" => rows[m].status = "success"
  /\ \A m \in 1..Len(rows') : m \in Messages \/ rows'[m].of = s

\* What is aimed at, and what is read, outlives the growth of the rows.
LEMMA AimsKept ==
  ASSUME StreamInv, NEW s, Grow(s), NEW x, NEW r, Aimed(x, r, rows), r # s, x.msg \in Nat
  PROVE  Aimed(x, r, rows')
<1>1. ASSUME x.msg # 0
      PROVE  x.msg \in 1..Len(rows') /\ rows'[x.msg].of = r /\ rows'[x.msg].status # "success"
  <2>1. PICK m \in Messages : m = x.msg
    BY <1>1 DEF Aimed, Messages
  <2>2. rows[m].of = r /\ rows[m].status # "success"
    BY <1>1, <2>1 DEF Aimed
  <2>3. m \in 1..Len(rows')
    BY <2>1 DEF Grow, Messages, StreamInv, StreamTyped
  <2> QED BY <2>1, <2>2, <2>3 DEF Grow
<1> QED BY <1>1 DEF Aimed

LEMMA ReadsKept ==
  ASSUME StreamInv, NEW s, Grow(s), NEW y, Read(y, rows)
  PROVE  Read(y, rows')
<1> SUFFICES ASSUME y.at = "save"
             PROVE  y.msg \in 1..Len(rows') /\ y.snap \in RowSet /\ y.snap.of = rows'[y.msg].of
  BY DEF Read
<1>1. PICK m \in Messages : m = y.msg
  BY DEF Read, Messages
<1>2. y.snap \in RowSet /\ y.snap.of = rows[m].of
  BY <1>1 DEF Read
<1>3. m \in 1..Len(rows')
  BY DEF Grow, Messages, StreamInv, StreamTyped
<1> QED BY <1>1, <1>2, <1>3 DEF Grow

\* A step of the session s.
LEMMA SessionPoints ==
  ASSUME StreamInv, NEW s \in Sessions, NEW y, Becomes(s, y), Grow(s),
         Aimed(y, s, rows'), Read(y.stop, rows'), cancels' = cancels
  PROVE  Pointed'
<1>1. Sessions' = Sessions
  BY DEF Becomes, Sessions
<1>2. ASSUME NEW r \in Sessions PROVE Aimed(sess'[r], r, rows') /\ Read(sess'[r].stop, rows')
  <2>1. CASE r = s
    BY <2>1 DEF Becomes
  <2>2. CASE r # s
    <3>1. sess'[r] = sess[r]
      BY <2>2 DEF Becomes
    <3>2. Aimed(sess[r], r, rows) /\ Read(sess[r].stop, rows)
      BY DEF StreamInv, Pointed
    <3>3. sess[r].msg \in Nat
      BY SessTyped DEF StreamInv, StreamTyped, SessSet
    <3>4. Aimed(sess[r], r, rows')
      BY <2>2, <3>2, <3>3, AimsKept
    <3>5. Read(sess[r].stop, rows')
      BY <3>2, ReadsKept
    <3> QED BY <3>1, <3>4, <3>5
  <2> QED BY <2>1, <2>2
<1>3. ASSUME NEW c \in Cancels PROVE Read(cancels'[c], rows')
  BY ReadsKept DEF StreamInv, Pointed
<1>4. ASSUME NEW m \in 1..Len(rows') PROVE rows'[m].of \in Sessions
  BY DEF Grow, StreamInv, Pointed
<1> QED BY <1>1, <1>2, <1>3, <1>4 DEF Pointed, Messages

\* The rows stay as they are.
LEMMA RowsStay ==
  ASSUME StreamInv, rows' = rows, NEW s PROVE Grow(s)
BY DEF Grow, StreamInv, StreamTyped, Messages

\* A session step that leaves what the session works on alone.
LEMMA CourseKept ==
  ASSUME StreamInv, NEW s \in Sessions, NEW y, Becomes(s, y), SameCourse(sess[s], y),
         y.at = sess[s].at, rows' = rows, cancels' = cancels, Read(y.stop, rows)
  PROVE  Pointed'
<1>1. Aimed(y, s, rows)
  BY DEF StreamInv, Pointed, Aimed, SameCourse
<1> QED BY <1>1, RowsStay, SessionPoints

\* Another session begins, or sessions are marked as covered: the sessions
\* that were there keep what they work on.
LEMMA OthersPoint ==
  ASSUME StreamInv, rows' = rows, sess' \in Seq(SessSet), Len(sess) <= Len(sess'),
         \A r \in Sessions : /\ sess'[r].stop = sess[r].stop /\ sess'[r].at = sess[r].at
                             /\ SameCourse(sess[r], sess'[r]),
         \A r \in 1..Len(sess') : r \in Sessions \/ sess'[r] = Fresh(sess'[r].server),
         \A c \in Cancels : Read(cancels'[c], rows)
  PROVE  Pointed'
<1>1. ASSUME NEW r \in 1..Len(sess') PROVE Aimed(sess'[r], r, rows) /\ Read(sess'[r].stop, rows)
  <2>1. CASE r \in Sessions
    <3>1. Aimed(sess[r], r, rows) /\ Read(sess[r].stop, rows)
      BY <2>1 DEF StreamInv, Pointed
    <3> QED BY <2>1, <3>1 DEF Aimed, SameCourse
  <2>2. CASE r \notin Sessions
    <3>1. PICK v : v = sess'[r].server
      OBVIOUS
    <3>2. sess'[r] = Fresh(v)
      BY <2>2, <3>1
    <3>3. /\ Fresh(v).msg = 0 /\ Fresh(v).chunk = "none" /\ Fresh(v).at = "open"
          /\ Fresh(v).stop.at = "none"
      BY DEF Fresh, NoStop
    <3> QED BY <3>2, <3>3 DEF Aimed, Read
  <2> QED BY <2>1, <2>2
<1>2. \A m \in Messages : rows[m].of \in 1..Len(sess')
  BY DEF StreamInv, StreamTyped, Pointed, Sessions
<1> QED BY <1>1, <1>2 DEF Pointed, Messages, Sessions

\* The sessions after a start and after a cancellation.
LEMMA Starts ==
  ASSUME StreamTyped, NEW v \in Servers, StartSession(v)
  PROVE  /\ sess' \in Seq(SessSet) /\ Len(sess') = Len(sess) + 1
         /\ \A r \in Sessions :
              /\ SameCourse(sess[r], sess'[r]) /\ SameFate(sess[r], sess'[r])
              /\ sess'[r].server = sess[r].server /\ sess'[r].at = sess[r].at
              /\ sess'[r].alone = (sess[r].alone /\ Gone(r))
         /\ sess'[Len(sess) + 1] = Fresh(v)
<1>1. PICK n \in Nat : n = Len(sess) /\ Sessions = 1..n
  BY DEF StreamTyped, Sessions
<1>2. PICK old : old = [s \in Sessions |-> [sess[s] EXCEPT !.alone = @ /\ Gone(s)]]
  OBVIOUS
<1>3. ASSUME NEW r \in Sessions
      PROVE  /\ old[r] \in SessSet
             /\ SameCourse(sess[r], old[r]) /\ SameFate(sess[r], old[r])
             /\ old[r].server = sess[r].server /\ old[r].at = sess[r].at
             /\ old[r].alone = (sess[r].alone /\ Gone(r))
  <2>1. PICK x : x = sess[r]
    OBVIOUS
  <2>2. x \in SessSet
    BY <2>1, SessTyped DEF StreamTyped
  <2>3. PICK b : b = (x.alone /\ Gone(r))
    OBVIOUS
  <2>4. b \in BOOLEAN
    BY <2>3
  <2>5. PICK y : y = [x EXCEPT !.alone = b]
    OBVIOUS
  <2>6. y \in SessSet /\ y.alone = b
    BY <2>2, <2>4, <2>5 DEF SessSet
  <2>7. SameCourse(x, y) /\ SameFate(x, y) /\ y.server = x.server /\ y.at = x.at
    BY <2>2, <2>5 DEF SessSet, SameCourse, SameFate
  <2>8. old[r] = y
    BY <1>2, <2>1, <2>3, <2>5
  <2> QED BY <2>1, <2>3, <2>6, <2>7, <2>8
<1>4. old \in Seq(SessSet) /\ Len(old) = n
  <2>1. old = [r \in 1..n |-> old[r]]
    BY <1>1, <1>2
  <2>2. \A r \in 1..n : old[r] \in SessSet
    BY <1>1, <1>3
  <2> QED BY <2>1, <2>2
<1>5. PICK b : b = (\A s \in Sessions : Gone(s))
  OBVIOUS
<1>6. b \in BOOLEAN
  BY <1>5
<1>7. Fresh(v) \in SessSet
  <2>1. NoStop \in StopSet /\ <<>> \in Seq(Nat)
    BY DEF NoStop, StopSet, SnapSet
  <2>2. Fresh(v) = [server |-> v, at |-> "open", chunk |-> "none", event |-> 0, msg |-> 0,
                    snap |-> NoRow, sent |-> <<>>, aborted |-> FALSE, finished |-> FALSE,
                    clean |-> FALSE, stop |-> NoStop, alone |-> b, covered |-> FALSE]
    BY <1>5 DEF Fresh
  <2> QED BY <1>6, <2>1, <2>2 DEF SessSet, SnapSet, Places
<1>8. sess' = Append(old, Fresh(v))
  BY <1>2 DEF StartSession
<1>9. /\ sess' \in Seq(SessSet) /\ Len(sess') = n + 1 /\ sess'[n + 1] = Fresh(v)
      /\ \A r \in 1..n : sess'[r] = old[r]
  BY <1>4, <1>7, <1>8
<1> QED BY <1>1, <1>3, <1>9

\* A cancellation marks the sessions that listen.
LEMMA Covers ==
  ASSUME StreamTyped, NEW c \in Cancels, NEW v \in Servers, Cancel(c, v)
  PROVE  /\ sess' \in Seq(SessSet) /\ Len(sess') = Len(sess)
         /\ \A r \in Sessions :
              /\ SameCourse(sess[r], sess'[r]) /\ SameEver(sess[r], sess'[r])
              /\ sess'[r].at = sess[r].at /\ sess'[r].stop = sess[r].stop
              /\ sess'[r].aborted = sess[r].aborted /\ sess'[r].finished = sess[r].finished
              /\ sess'[r].clean = sess[r].clean
              /\ sess'[r].covered = (sess[r].covered \/ (r \in listening /\ ~sess[r].finished))
<1>1. PICK n \in Nat : n = Len(sess) /\ Sessions = 1..n
  BY DEF StreamTyped, Sessions
<1>2. ASSUME NEW r \in Sessions
      PROVE  /\ sess'[r] \in SessSet
             /\ SameCourse(sess[r], sess'[r]) /\ SameEver(sess[r], sess'[r])
             /\ sess'[r].at = sess[r].at /\ sess'[r].stop = sess[r].stop
             /\ sess'[r].aborted = sess[r].aborted /\ sess'[r].finished = sess[r].finished
             /\ sess'[r].clean = sess[r].clean
             /\ sess'[r].covered = (sess[r].covered \/ (r \in listening /\ ~sess[r].finished))
  <2>1. PICK x : x = sess[r]
    OBVIOUS
  <2>2. x \in SessSet
    BY <2>1, SessTyped DEF StreamTyped
  <2>3. PICK b : b = (x.covered \/ (r \in listening /\ ~x.finished))
    OBVIOUS
  <2>4. b \in BOOLEAN
    BY <2>3
  <2>5. PICK y : y = [x EXCEPT !.covered = b]
    OBVIOUS
  <2>6. y \in SessSet /\ y.covered = b
    BY <2>2, <2>4, <2>5 DEF SessSet
  <2>7. /\ SameCourse(x, y) /\ SameEver(x, y) /\ y.at = x.at /\ y.stop = x.stop
        /\ y.aborted = x.aborted /\ y.finished = x.finished /\ y.clean = x.clean
    BY <2>2, <2>5 DEF SessSet, SameCourse, SameEver
  <2>8. sess'[r] = y
    BY <2>1, <2>3, <2>5 DEF Cancel
  <2> QED BY <2>1, <2>3, <2>6, <2>7, <2>8
<1>3. DOMAIN sess' = 1..n
  BY <1>1 DEF Cancel
<1>4. sess' \in Seq(SessSet) /\ Len(sess') = n
  <2>1. sess' = [r \in 1..n |-> sess'[r]]
    BY <1>1 DEF Cancel
  <2>2. \A r \in 1..n : sess'[r] \in SessSet
    BY <1>1, <1>2
  <2> QED BY <1>3, <2>1, <2>2
<1> QED BY <1>1, <1>2, <1>4

\* A cancellation goes on.
LEMMA CancelTyped ==
  ASSUME StreamTyped, NEW c \in Cancels PROVE cancels[c] \in CancelSet
BY DEF StreamTyped

LEMMA CancelMoves ==
  ASSUME StreamTyped, NEW c \in Cancels, NEW q \in CancelSet, cancels' = [cancels EXCEPT ![c] = q]
  PROVE  /\ cancels' \in [Cancels -> CancelSet] /\ cancels'[c] = q
         /\ \A d \in Cancels : d # c => cancels'[d] = cancels[d]
BY DEF StreamTyped

\* A step of the cancellation c that leaves the sessions alone.
LEMMA CancellationPoints ==
  ASSUME StreamInv, NEW c \in Cancels, NEW s, Grow(s), s \notin Sessions, sess' = sess,
         Len(rows') = Len(rows), Read(cancels'[c], rows'),
         \A d \in Cancels : d # c => cancels'[d] = cancels[d]
  PROVE  Pointed'
<1>1. ASSUME NEW r \in Sessions PROVE Aimed(sess[r], r, rows') /\ Read(sess[r].stop, rows')
  <2>1. Aimed(sess[r], r, rows) /\ Read(sess[r].stop, rows)
    BY DEF StreamInv, Pointed
  <2>2. sess[r].msg \in Nat
    BY SessTyped DEF StreamInv, StreamTyped, SessSet
  <2> QED BY <2>1, <2>2, AimsKept, ReadsKept
<1>2. ASSUME NEW d \in Cancels PROVE Read(cancels'[d], rows')
  <2>1. CASE d = c
    BY <2>1
  <2>2. CASE d # c
    BY <2>2, ReadsKept DEF StreamInv, Pointed
  <2> QED BY <2>1, <2>2
<1>3. \A m \in 1..Len(rows') : rows'[m].of \in Sessions
  BY DEF Grow, StreamInv, Pointed, Messages
<1> QED BY <1>1, <1>2, <1>3 DEF Pointed, Messages, Sessions

(* What the steps do to the rows. *)

\* A row that stays whose it was.
LEMMA GrowOne ==
  ASSUME StreamInv, NEW s \in Sessions, NEW m \in Messages, NEW w, RowBecomes(m, w),
         w.of = rows[m].of,
         rows[m].of = s \/ w.status # "success" \/ rows[m].status = "success"
  PROVE  Grow(s)
<1>1. rows' \in Seq(RowSet) /\ Len(rows) <= Len(rows')
  BY DEF RowBecomes, StreamInv, StreamTyped
<1>2. ASSUME NEW n \in Messages
      PROVE  /\ rows'[n].of = rows[n].of
             /\ rows[n].of # s /\ rows'[n].status = "success" => rows[n].status = "success"
  BY DEF RowBecomes
<1>3. \A n \in 1..Len(rows') : n \in Messages
  BY DEF RowBecomes, Messages
<1> QED BY <1>1, <1>2, <1>3 DEF Grow

LEMMA SessAimed ==
  ASSUME StreamInv, NEW s \in Sessions
  PROVE  sess[s] \in SessSet /\ Aimed(sess[s], s, rows) /\ Read(sess[s].stop, rows)
BY SessTyped DEF StreamInv, StreamTyped, Pointed

\* A delta is counted when it is accepted.
LEMMA Gives ==
  ASSUME StreamInv, NEW s \in Sessions, Receive(s, "delta"), ~flag
  PROVE  /\ sess[s].msg \in Messages /\ rows[sess[s].msg].of = s
         /\ \E w : /\ RowBecomes(sess[s].msg, w)
                   /\ w.status = rows[sess[s].msg].status /\ w.text = rows[sess[s].msg].text
                   /\ w.of = s /\ w.lapse = rows[sess[s].msg].lapse
                   /\ w.given = rows[sess[s].msg].given + 1
<1>1. PICK m : m = sess[s].msg
  OBVIOUS
<1>2. m # 0 /\ rows' = [rows EXCEPT ![m].given = @ + 1]
  BY <1>1 DEF Receive, MaySend, Canceled
<1>3. m \in Messages /\ rows[m].of = s
  BY <1>1, <1>2, SessAimed DEF Aimed, Messages
<1>4. PICK r : r = rows[m]
  OBVIOUS
<1>5. r \in RowSet
  BY <1>3, <1>4, RowTyped DEF StreamInv, StreamTyped
<1>6. PICK w : w = [r EXCEPT !.given = r.given + 1]
  OBVIOUS
<1>7. /\ w \in RowSet /\ w.status = r.status /\ w.text = r.text /\ w.of = r.of
      /\ w.lapse = r.lapse /\ w.given = r.given + 1
  BY <1>5, <1>6 DEF RowSet
<1>8. rows' = [rows EXCEPT ![m] = w]
  BY <1>2, <1>4, <1>6
<1>9. RowBecomes(m, w)
  BY <1>3, <1>7, <1>8, RowBecoming DEF StreamInv, StreamTyped
<1> QED BY <1>1, <1>3, <1>4, <1>7, <1>9

\* A message that is inserted.
LEMMA InsertsRow ==
  ASSUME StreamInv, NEW s \in Sessions, Insert(s)
  PROVE  /\ rows' \in Seq(RowSet) /\ Len(rows') = Len(rows) + 1
         /\ \A n \in Messages : rows'[n] = rows[n]
         /\ \E w \in RowSet : /\ rows'[Len(rows) + 1] = w
                              /\ w.status = "pending" /\ w.text = 0 /\ w.given = 0
                              /\ w.of = s /\ w.lapse = sess[s].aborted
<1>1. PICK l : l = sess[s].aborted
  OBVIOUS
<1>2. l \in BOOLEAN
  BY <1>1, SessAimed DEF SessSet
<1>3. PICK w : w = [status |-> "pending", text |-> 0, given |-> 0, of |-> s, lapse |-> l]
  OBVIOUS
<1>4. w \in RowSet
  BY <1>2, <1>3 DEF RowSet, Open, Sessions
<1>5. rows' = Append(rows, w)
  BY <1>1, <1>3 DEF Insert
<1>6. rows \in Seq(RowSet)
  BY DEF StreamInv, StreamTyped
<1>7. rows' \in Seq(RowSet) /\ Len(rows') = Len(rows) + 1 /\ rows'[Len(rows) + 1] = w
  BY <1>4, <1>5, <1>6
<1>8. \A n \in Messages : rows'[n] = rows[n]
  BY <1>4, <1>5, <1>6 DEF Messages
<1> QED BY <1>1, <1>3, <1>4, <1>7, <1>8

LEMMA InsertGrows ==
  ASSUME StreamInv, NEW s \in Sessions, Insert(s) PROVE Grow(s)
<1>1. PICK w \in RowSet : rows'[Len(rows) + 1] = w /\ w.of = s
  BY InsertsRow
<1>2. ASSUME NEW n \in 1..Len(rows') PROVE n \in Messages \/ rows'[n].of = s
  <2>1. n \in 1..(Len(rows) + 1)
    BY InsertsRow
  <2>2. Len(rows) \in Nat
    BY DEF StreamInv, StreamTyped
  <2> QED BY <1>1, <2>1, <2>2 DEF Messages
<1>3. Len(rows) <= Len(rows')
  BY InsertsRow DEF StreamInv, StreamTyped
<1> QED BY <1>2, <1>3, InsertsRow DEF Grow

\* What a session saves.
LEMMA SavesRow ==
  ASSUME StreamInv, NEW s \in Sessions, Save(s)
  PROVE  /\ sess[s].msg \in Messages /\ rows[sess[s].msg].of = s
         /\ \E w : /\ RowBecomes(sess[s].msg, w)
                   /\ w.of = s /\ w.given = rows[sess[s].msg].given
                   /\ w.status = IF sess[s].chunk = "delta" THEN "streaming"
                                 ELSE IF sess[s].chunk = "eos" THEN "success" ELSE "failed"
                   /\ w.text = IF sess[s].chunk = "delta" THEN sess[s].snap.text + 1
                               ELSE sess[s].snap.text
                   /\ w.lapse = (rows[sess[s].msg].lapse
                                   \/ (/\ sess[s].snap.status \in Open
                                       /\ rows[sess[s].msg].status \in Settled
                                       /\ sess[s].chunk = "delta"))
<1>1. PICK x : x = sess[s]
  OBVIOUS
<1>2. PICK m : m = x.msg
  OBVIOUS
<1>3. PICK o : o = (x.snap.status \in Open /\ rows[m].status \in Settled /\ x.chunk = "delta")
  OBVIOUS
<1>4. /\ x.at = "save" /\ rows' = [Saved(m, Written(x)) EXCEPT ![m].lapse = @ \/ o]
  BY <1>1, <1>2, <1>3 DEF Save
<1>5. /\ m \in Messages /\ rows[m].of = s /\ x.snap \in RowSet /\ x.snap.of = s
      /\ x.chunk \in {"delta", "eos", "error"}
  BY <1>1, <1>2, <1>4, SessAimed DEF Aimed, Messages
<1>6. PICK p : p = x.snap
  OBVIOUS
<1>7. PICK d : d = Written(x)
  OBVIOUS
<1>8. /\ d \in RowSet /\ d.of = s
      /\ d.status = IF x.chunk = "delta" THEN "streaming"
                    ELSE IF x.chunk = "eos" THEN "success" ELSE "failed"
      /\ d.text = IF x.chunk = "delta" THEN p.text + 1 ELSE p.text
  <2>1. p \in RowSet /\ p.of = s
    BY <1>5, <1>6
  <2>2. CASE x.chunk = "delta"
    <3>1. PICK t : t = p.text + 1
      OBVIOUS
    <3>2. t \in Nat
      BY <2>1, <3>1 DEF RowSet
    <3>3. d = [p EXCEPT !.status = "streaming", !.text = t]
      BY <1>6, <1>7, <2>2, <3>1 DEF Written
    <3>4. d \in RowSet /\ d.of = s /\ d.status = "streaming" /\ d.text = t
      BY <2>1, <3>2, <3>3 DEF RowSet, Open
    <3> QED BY <2>2, <3>1, <3>4
  <2>3. CASE x.chunk = "eos"
    <3>1. d = [p EXCEPT !.status = "success"]
      BY <1>6, <1>7, <2>3 DEF Written
    <3> QED BY <2>1, <2>3, <3>1 DEF RowSet, Settled
  <2>4. CASE x.chunk = "error"
    <3>1. d = [p EXCEPT !.status = "failed"]
      BY <1>6, <1>7, <2>4 DEF Written
    <3> QED BY <2>1, <2>4, <3>1 DEF RowSet, Settled
  <2> QED BY <1>5, <2>2, <2>3, <2>4
<1>9. PICK g : g = rows[m].given
  OBVIOUS
<1>10. PICK l : l = rows[m].lapse
  OBVIOUS
<1>11. rows \in Seq(RowSet) /\ rows[m] \in RowSet
  BY <1>5, RowTyped DEF StreamInv, StreamTyped
<1>12. g \in Nat /\ l \in BOOLEAN /\ o \in BOOLEAN
  BY <1>3, <1>9, <1>10, <1>11 DEF RowSet
<1>13. PICK e : e = [d EXCEPT !.given = g, !.lapse = l]
  OBVIOUS
<1>14. /\ e \in RowSet /\ e.status = d.status /\ e.text = d.text /\ e.of = d.of
       /\ e.given = g /\ e.lapse = l
  BY <1>8, <1>12, <1>13 DEF RowSet
<1>15. PICK R : R = [rows EXCEPT ![m] = e]
  OBVIOUS
<1>16. Saved(m, Written(x)) = R
  BY <1>7, <1>9, <1>10, <1>13, <1>15 DEF Saved
<1>17. R[m] = e
  BY <1>5, <1>11, <1>15 DEF Messages
<1>18. PICK w : w = [e EXCEPT !.lapse = (l \/ o)]
  OBVIOUS
<1>19. /\ w \in RowSet /\ w.status = d.status /\ w.text = d.text /\ w.of = d.of
       /\ w.given = g /\ w.lapse = (l \/ o)
  BY <1>12, <1>14, <1>18 DEF RowSet
<1>20. rows' = [R EXCEPT ![m] = w]
  BY <1>4, <1>14, <1>16, <1>17, <1>18
<1>21. rows' = [rows EXCEPT ![m] = w]
  BY <1>15, <1>20
<1>22. RowBecomes(m, w)
  BY <1>5, <1>11, <1>19, <1>21, RowBecoming
<1> QED BY <1>1, <1>2, <1>3, <1>5, <1>6, <1>8, <1>9, <1>10, <1>19, <1>22

\* What a stop or a cancellation saves.
LEMMA Settles ==
  ASSUME StreamInv, NEW m \in Messages, NEW p \in RowSet, p.of = rows[m].of,
         rows' = Saved(m, [p EXCEPT !.status = "stopped"])
  PROVE  \E w : /\ RowBecomes(m, w)
                /\ w.status = "stopped" /\ w.text = p.text /\ w.of = rows[m].of
                /\ w.given = rows[m].given /\ w.lapse = rows[m].lapse
<1>1. PICK d : d = [p EXCEPT !.status = "stopped"]
  OBVIOUS
<1>2. d \in RowSet /\ d.status = "stopped" /\ d.text = p.text /\ d.of = p.of
  BY <1>1 DEF RowSet, Settled
<1>3. rows' = Saved(m, d)
  BY <1>1
<1>4. rows \in Seq(RowSet)
  BY DEF StreamInv, StreamTyped
<1>5. PICK w \in RowSet :
        /\ RowBecomes(m, w) /\ w.status = d.status /\ w.text = d.text /\ w.of = d.of
        /\ w.given = rows[m].given /\ w.lapse = rows[m].lapse
  BY <1>2, <1>3, <1>4, Saving
<1> QED BY <1>2, <1>5

\* What the end of a stream leaves of its message.
LEMMA EndsRow ==
  ASSUME StreamInv, NEW s \in Sessions, EndStream(s)
  PROVE  \/ /\ rows' = rows
            /\ \/ sess[s].msg = 0 \/ sess[s].aborted
               \/ rows[sess[s].msg].status \notin Open
         \/ /\ sess[s].msg \in Messages /\ rows[sess[s].msg].of = s
            /\ \E w : /\ RowBecomes(sess[s].msg, w)
                      /\ w.status = rows[sess[s].msg].status /\ w.text = rows[sess[s].msg].text
                      /\ w.of = s /\ w.given = rows[sess[s].msg].given /\ w.lapse = TRUE
<1>1. PICK m : m = sess[s].msg
  OBVIOUS
<1>2. CASE m # 0 /\ ~sess[s].aborted /\ rows[m].status \in Open
  <2>1. rows' = [rows EXCEPT ![m].lapse = TRUE]
    BY <1>1, <1>2 DEF EndStream
  <2>2. m \in Messages /\ rows[m].of = s
    BY <1>1, <1>2, SessAimed DEF Aimed, Messages
  <2>3. PICK r : r = rows[m]
    OBVIOUS
  <2>4. r \in RowSet
    BY <2>2, <2>3, RowTyped DEF StreamInv, StreamTyped
  <2>5. PICK w : w = [r EXCEPT !.lapse = TRUE]
    OBVIOUS
  <2>6. /\ w \in RowSet /\ w.status = r.status /\ w.text = r.text /\ w.of = r.of
        /\ w.given = r.given /\ w.lapse = TRUE
    BY <2>4, <2>5 DEF RowSet
  <2>7. rows' = [rows EXCEPT ![m] = w]
    BY <2>1, <2>3, <2>5
  <2>8. RowBecomes(m, w)
    BY <2>2, <2>6, <2>7, RowBecoming DEF StreamInv, StreamTyped
  <2> QED BY <1>1, <2>2, <2>3, <2>6, <2>8
<1>3. CASE ~(m # 0 /\ ~sess[s].aborted /\ rows[m].status \in Open)
  BY <1>1, <1>3 DEF EndStream
<1> QED BY <1>2, <1>3

\* An event that is logged.
LEMMA LogTyped ==
  ASSUME StreamTyped, NEW e \in LogSet, log' = Logged(e) PROVE log' \in Seq(LogSet)
<1>1. log \in Seq(LogSet)
  BY DEF StreamTyped
<1>2. Append(log, e) \in Seq(LogSet)
  BY <1>1
<1> QED BY <1>1, <1>2 DEF Logged

\* A step of one session keeps the types, if it keeps those of Redis.
LEMMA SessionTypes ==
  ASSUME StreamInv, NEW s \in Sessions, NEW y, Becomes(s, y), Grow(s), cancels' = cancels,
         active' \in BOOLEAN, flag' \in BOOLEAN, seq' \in Nat, log' \in Seq(LogSet)
  PROVE  StreamTyped'
BY DEF StreamTyped, StreamInv, Becomes, Grow

\* Every step keeps the types, and what points to the rows.
LEMMA StreamStep == StreamInv /\ [Next]_vars => StreamInv'
<1> SUFFICES ASSUME StreamInv, [Next]_vars PROVE StreamInv'
  OBVIOUS
<1>0. /\ StreamTyped /\ active \in BOOLEAN /\ flag \in BOOLEAN /\ seq \in Nat
      /\ log \in Seq(LogSet) /\ rows \in Seq(RowSet) /\ sess \in Seq(SessSet)
  BY DEF StreamInv, StreamTyped
<1>1. ASSUME NEW v \in Servers, StartSession(v) PROVE StreamInv'
  <2>1. /\ sess' \in Seq(SessSet) /\ Len(sess') = Len(sess) + 1
        /\ \A r \in Sessions :
             /\ SameCourse(sess[r], sess'[r]) /\ SameFate(sess[r], sess'[r])
             /\ sess'[r].server = sess[r].server /\ sess'[r].at = sess[r].at
        /\ sess'[Len(sess) + 1] = Fresh(v)
    BY <1>0, <1>1, Starts
  <2>2. UNCHANGED <<rows, active, flag, seq, log, cancels>>
    BY <1>1 DEF StartSession
  <2>3. Len(sess) \in Nat /\ Len(sess) <= Len(sess')
    BY <1>0, <2>1
  <2>4. ASSUME NEW r \in 1..Len(sess') PROVE r \in Sessions \/ sess'[r] = Fresh(sess'[r].server)
    <3>1. CASE r = Len(sess) + 1
      <4>1. Fresh(v).server = v
        BY DEF Fresh
      <4> QED BY <2>1, <3>1, <4>1
    <3>2. CASE r # Len(sess) + 1
      BY <2>1, <2>3, <3>2 DEF Sessions
    <3> QED BY <3>1, <3>2
  <2>5. \A r \in Sessions : /\ sess'[r].stop = sess[r].stop /\ sess'[r].at = sess[r].at
                            /\ SameCourse(sess[r], sess'[r])
    BY <2>1 DEF SameFate
  <2>6. \A c \in Cancels : Read(cancels'[c], rows)
    BY <2>2 DEF StreamInv, Pointed
  <2>7. Pointed'
    BY <2>1, <2>2, <2>3, <2>4, <2>5, <2>6, OthersPoint
  <2> QED BY <2>1, <2>2, <2>7 DEF StreamInv, StreamTyped
<1>2. ASSUME NEW s \in Sessions, NEW a \in {"mark", "subscribe", "read"},
             sess[s].at \in {"open", "mark", "subscribe"}, sess' = [sess EXCEPT ![s].at = a],
             rows' = rows, cancels' = cancels, active' \in BOOLEAN, flag' \in BOOLEAN,
             seq' \in Nat, log' \in Seq(LogSet)
      PROVE  StreamInv'
  <2>1. PICK y : /\ Becomes(s, y) /\ y.at = a /\ SameCourse(sess[s], y) /\ SameFate(sess[s], y)
    <3>1. a \in Places
      BY <1>2 DEF Places
    <3> QED BY <1>0, <1>2, <3>1, Advances
  <2>2. Aimed(y, s, rows) /\ Read(y.stop, rows)
    BY <1>2, <2>1, SessAimed DEF Aimed, SameCourse, SameFate
  <2> QED BY <1>2, <2>1, <2>2, RowsStay, SessionPoints, SessionTypes DEF StreamInv
<1>3. ASSUME NEW s \in Sessions, ClearLog(s) \/ MarkActive(s) \/ Subscribe(s) PROVE StreamInv'
  <2>1. CASE ClearLog(s)
    <3>1. sess[s].at = "open" /\ sess' = [sess EXCEPT ![s].at = "mark"]
          /\ UNCHANGED <<rows, active, flag, cancels>>
      BY <2>1 DEF ClearLog
    <3>2. seq' \in Nat /\ log' \in Seq(LogSet)
      <4>1. <<>> \in Seq(LogSet)
        OBVIOUS
      <4>2. CASE active
        BY <1>0, <2>1, <4>2 DEF ClearLog
      <4>3. CASE ~active
        <5>1. seq' = 0 /\ log' = <<>>
          BY <2>1, <4>3 DEF ClearLog
        <5> QED BY <4>1, <5>1
      <4> QED BY <4>2, <4>3
    <3> QED BY <1>0, <1>2, <3>1, <3>2
  <2>2. CASE MarkActive(s)
    BY <1>0, <1>2, <2>2 DEF MarkActive
  <2>3. CASE Subscribe(s)
    BY <1>0, <1>2, <2>3 DEF Subscribe
  <2> QED BY <1>3, <2>1, <2>2, <2>3
<1>4. ASSUME NEW s \in Sessions, sess' = [sess EXCEPT ![s] = Stopping(@)],
             rows' = rows, cancels' = cancels
      PROVE  /\ sess' \in Seq(SessSet) /\ Pointed'
             /\ Becomes(s, Stopping(sess[s]))
  <2>1. PICK y : y = Stopping(sess[s])
    OBVIOUS
  <2>2. /\ y \in SessSet /\ SameCourse(sess[s], y) /\ SameEver(sess[s], y) /\ y.at = sess[s].at
        /\ sess[s].finished \/ sess[s].aborted => y = sess[s]
        /\ ~(sess[s].finished \/ sess[s].aborted) => y.stop.at = "find"
    BY <2>1, SessAimed, Stops
  <2>3. Becomes(s, y)
    BY <1>0, <1>4, <2>1, <2>2, Becoming
  <2>4. Read(y.stop, rows)
    BY <2>2, SessAimed DEF Read
  <2> QED BY <1>4, <2>1, <2>2, <2>3, <2>4, CourseKept DEF Becomes
<1>5. ASSUME NEW s \in Sessions, NEW k \in Kinds, Receive(s, k) PROVE StreamInv'
  <2>1. UNCHANGED <<active, flag, log, cancels>>
    BY <1>5 DEF Receive
  <2>2. CASE flag
    <3>1. sess' = [sess EXCEPT ![s] = Stopping(@)] /\ UNCHANGED <<rows, seq>>
      BY <1>5, <2>2 DEF Receive, Canceled
    <3>2. sess' \in Seq(SessSet) /\ Pointed'
      BY <1>4, <2>1, <3>1
    <3> QED BY <1>0, <2>1, <3>1, <3>2 DEF StreamInv, StreamTyped
  <2>3. CASE ~flag
    <3>1. PICK a : a = IF Stores(sess[s], k) THEN "store" ELSE "publish"
      OBVIOUS
    <3>2. /\ sess' = [sess EXCEPT ![s].at = a, ![s].chunk = k, ![s].event = seq + 1]
          /\ seq' = seq + 1
          /\ k # "delta" => rows' = rows
      BY <1>5, <2>3, <3>1 DEF Receive, Canceled
    <3>3. /\ k \in {"delta", "eos"} => sess[s].msg # 0
          /\ k \in {"bos", "done"} => sess[s].msg = 0
          /\ a = "store" => k # "done" /\ (k = "error" => sess[s].msg # 0)
      BY <1>5, <3>1 DEF Receive, MaySend, Stores
    <3>4. PICK y : /\ Becomes(s, y) /\ y.at = a /\ y.chunk = k /\ y.event = seq + 1
                   /\ y.msg = sess[s].msg /\ y.snap = sess[s].snap
                   /\ y.sent = sess[s].sent /\ SameFate(sess[s], y)
      <4>1. a \in Places
        BY <3>1 DEF Places
      <4>2. sess' = Taken(s, a, k)
        BY <3>2 DEF Taken
      <4>3. StreamTyped
        BY <1>0
      <4> QED BY <4>1, <4>2, <4>3, <1>5, Receives
    <3>5. Grow(s) /\ (sess[s].msg # 0 => rows'[sess[s].msg].status # "success")
      <4>1. CASE k = "delta"
        <5>1. PICK m \in Messages : m = sess[s].msg
          BY <1>5, <2>3, <4>1, Gives
        <5>2. PICK w : RowBecomes(m, w) /\ w.status = rows[m].status /\ w.of = rows[m].of
                       /\ rows[m].of = s
          BY <1>5, <2>3, <4>1, <5>1, Gives
        <5>3. Grow(s)
          BY <5>2, GrowOne
        <5>4. rows'[m].status = rows[m].status
          BY <5>2 DEF RowBecomes
        <5> QED BY <5>1, <5>3, <5>4, SessAimed DEF Aimed
      <4>2. CASE k # "delta"
        BY <3>2, <4>2, RowsStay, SessAimed DEF Aimed
      <4> QED BY <4>1, <4>2
    <3>6. Aimed(y, s, rows')
      <4>1. Aimed(sess[s], s, rows)
        BY SessAimed
      <4>2. ASSUME y.msg # 0
            PROVE  y.msg \in 1..Len(rows') /\ rows'[y.msg].of = s /\ rows'[y.msg].status # "success"
        <5>1. PICK m \in Messages : m = sess[s].msg
          BY <3>4, <4>1, <4>2 DEF Aimed, Messages
        <5>2. rows[m].of = s
          BY <3>4, <4>1, <4>2, <5>1 DEF Aimed
        <5>3. m \in 1..Len(rows')
          BY <3>5, <1>0 DEF Grow, Messages
        <5> QED BY <3>4, <3>5, <4>2, <5>1, <5>2, <5>3 DEF Grow
      <4>3. k \in {"bos", "delta", "eos", "error", "done"}
        BY DEF Kinds
      <4> QED BY <3>1, <3>3, <3>4, <4>2, <4>3 DEF Aimed
    <3>7. Read(y.stop, rows')
      BY <3>4, <3>5, SessAimed, ReadsKept DEF SameFate
    <3>8. Pointed'
      BY <2>1, <3>4, <3>5, <3>6, <3>7, SessionPoints
    <3>9. StreamTyped'
      BY <1>0, <2>1, <3>2, <3>4, <3>5, SessionTypes, SMTT(20)
    <3> QED BY <3>8, <3>9 DEF StreamInv
  <2> QED BY <1>0, <2>2, <2>3
<1>6. ASSUME NEW s \in Sessions, Insert(s) PROVE StreamInv'
  <2>1. UNCHANGED <<active, flag, seq, log, cancels>> /\ sess[s].chunk = "bos"
    BY <1>6 DEF Insert
  <2>2. PICK y : /\ Becomes(s, y) /\ y.at = "publish" /\ y.msg = Len(rows) + 1
                 /\ y.chunk = sess[s].chunk /\ SameFate(sess[s], y)
    BY <1>0, <1>6, Inserts
  <2>3. Grow(s)
    BY <1>6, InsertGrows
  <2>4. PICK w \in RowSet : rows'[Len(rows) + 1] = w /\ w.of = s /\ w.status = "pending"
    BY <1>6, InsertsRow
  <2>5. Len(rows) + 1 \in 1..Len(rows')
    BY <1>0, <1>6, InsertsRow
  <2>6. Aimed(y, s, rows')
    BY <2>1, <2>2, <2>4, <2>5 DEF Aimed
  <2>7. Read(y.stop, rows')
    BY <2>2, <2>3, SessAimed, ReadsKept DEF SameFate
  <2> QED BY <1>0, <2>1, <2>2, <2>3, <2>6, <2>7, SessionPoints, SessionTypes DEF StreamInv
<1>7. ASSUME NEW s \in Sessions, Load(s) PROVE StreamInv'
  <2>1. UNCHANGED <<rows, active, flag, seq, log, cancels>> /\ sess[s].at = "store" /\ sess[s].chunk # "bos"
    BY <1>7 DEF Load
  <2>2. Aimed(sess[s], s, rows) /\ Read(sess[s].stop, rows)
    BY SessAimed
  <2>3. CASE sess[s].chunk = "delta" /\ ~Accepts(rows[sess[s].msg])
    <3>1. sess' = [sess EXCEPT ![s].at = "publish"]
      BY <1>7, <2>3 DEF Load
    <3>2. PICK y : /\ Becomes(s, y) /\ y.at = "publish" /\ SameCourse(sess[s], y)
                   /\ SameFate(sess[s], y)
      BY <1>0, <3>1, Advances DEF Places
    <3>3. Aimed(y, s, rows) /\ Read(y.stop, rows)
      BY <2>2, <3>2 DEF Aimed, SameCourse, SameFate
    <3> QED BY <1>0, <2>1, <3>2, <3>3, RowsStay, SessionPoints, SessionTypes DEF StreamInv
  <2>4. CASE ~(sess[s].chunk = "delta" /\ ~Accepts(rows[sess[s].msg]))
    <3>1. PICK row : row = rows[sess[s].msg]
      OBVIOUS
    <3>2. sess' = [sess EXCEPT ![s].at = "save", ![s].snap = row]
      BY <1>7, <2>4, <3>1 DEF Load
    <3>3. sess[s].msg # 0 /\ sess[s].msg \in Messages /\ row \in RowSet /\ row.of = s
      BY <1>0, <2>1, <2>2, <3>1, RowTyped DEF Aimed, Messages
    <3>4. PICK y : /\ Becomes(s, y) /\ y.at = "save" /\ y.snap = row
                   /\ y.chunk = sess[s].chunk /\ y.msg = sess[s].msg
                   /\ SameFate(sess[s], y)
      BY <1>0, <3>2, <3>3, Loads DEF SnapSet
    <3>5. Aimed(y, s, rows) /\ Read(y.stop, rows)
      BY <2>1, <2>2, <3>3, <3>4 DEF Aimed, SameFate
    <3> QED BY <1>0, <2>1, <3>4, <3>5, RowsStay, SessionPoints, SessionTypes DEF StreamInv
  <2> QED BY <2>3, <2>4
<1>8. ASSUME NEW s \in Sessions, Save(s) PROVE StreamInv'
  <2>1. UNCHANGED <<active, flag, seq, log, cancels>> /\ sess[s].at = "save"
    BY <1>8 DEF Save
  <2>2. Aimed(sess[s], s, rows) /\ Read(sess[s].stop, rows) /\ sess[s] \in SessSet
    BY SessAimed
  <2>3. PICK m : m = IF sess[s].chunk = "eos" THEN 0 ELSE sess[s].msg
    OBVIOUS
  <2>4. m \in Nat
    BY <2>2, <2>3 DEF SessSet
  <2>5. sess' = [sess EXCEPT ![s].at = "publish", ![s].snap = NoRow, ![s].msg = m]
    BY <1>8, <2>3 DEF Save
  <2>6. PICK y : /\ Becomes(s, y) /\ y.at = "publish" /\ y.msg = m
                 /\ y.chunk = sess[s].chunk /\ SameFate(sess[s], y)
    BY <1>0, <2>4, <2>5, Saves
  <2>7. PICK n \in Messages : n = sess[s].msg /\ rows[n].of = s
    BY <1>8, SavesRow
  <2>8. PICK w : /\ RowBecomes(n, w) /\ w.of = s
                 /\ w.status = IF sess[s].chunk = "delta" THEN "streaming"
                               ELSE IF sess[s].chunk = "eos" THEN "success" ELSE "failed"
    BY <1>8, <2>7, SavesRow
  <2>9. Grow(s)
    BY <2>7, <2>8, GrowOne
  <2>10. Aimed(y, s, rows')
    <3>1. ASSUME y.msg # 0
          PROVE  y.msg \in 1..Len(rows') /\ rows'[y.msg].of = s /\ rows'[y.msg].status # "success"
      <4>1. y.msg = n /\ sess[s].chunk # "eos"
        BY <2>3, <2>6, <2>7, <3>1
      <4> QED BY <2>8, <4>1 DEF RowBecomes, Messages
    <3> QED BY <2>1, <2>2, <2>6, <3>1 DEF Aimed
  <2>11. Read(y.stop, rows')
    BY <2>2, <2>6, <2>9, ReadsKept DEF SameFate
  <2> QED BY <1>0, <2>1, <2>6, <2>9, <2>10, <2>11, SessionPoints, SessionTypes DEF StreamInv
<1>9. ASSUME NEW s \in Sessions, Publish(s) PROVE StreamInv'
  <2>1. UNCHANGED <<rows, active, flag, seq, cancels>> /\ sess[s].at = "publish"
    BY <1>9 DEF Publish
  <2>2. Aimed(sess[s], s, rows) /\ Read(sess[s].stop, rows) /\ sess[s] \in SessSet
    BY SessAimed
  <2>3. PICK e : e = IF sess[s].finished THEN sess[s].sent ELSE Append(sess[s].sent, sess[s].event)
    OBVIOUS
  <2>4. e \in Seq(Nat)
    <3>1. sess[s].sent \in Seq(Nat) /\ sess[s].event \in Nat
      BY <2>2 DEF SessSet
    <3>2. Append(sess[s].sent, sess[s].event) \in Seq(Nat)
      BY <3>1
    <3> QED BY <2>3, <3>1, <3>2
  <2>5. sess' = [sess EXCEPT ![s].at = "read", ![s].event = 0, ![s].sent = e]
    <3>1. CASE sess[s].finished
      <4>1. PICK x : x = sess[s]
        OBVIOUS
      <4>2. [x EXCEPT !.at = "read", !.event = 0] = [x EXCEPT !.at = "read", !.event = 0, !.sent = x.sent]
        BY <2>2, <4>1 DEF SessSet
      <4>3. sess' = [sess EXCEPT ![s] = [x EXCEPT !.at = "read", !.event = 0]]
        BY <1>9, <3>1, <4>1 DEF Publish
      <4>4. sess' = [sess EXCEPT ![s] = [x EXCEPT !.at = "read", !.event = 0, !.sent = x.sent]]
        BY <4>2, <4>3
      <4> QED BY <2>3, <3>1, <4>1, <4>4
    <3>2. CASE ~sess[s].finished
      BY <1>9, <2>3, <3>2 DEF Publish
    <3> QED BY <3>1, <3>2
  <2>6. PICK y : /\ Becomes(s, y) /\ y.at = "read" /\ y.msg = sess[s].msg
                 /\ y.chunk = sess[s].chunk /\ SameFate(sess[s], y)
    BY <1>0, <2>4, <2>5, Publishes
  <2>7. Aimed(y, s, rows) /\ Read(y.stop, rows)
    BY <2>1, <2>2, <2>6 DEF Aimed, SameFate
  <2>8. log' \in Seq(LogSet)
    <3>1. CASE sess[s].finished
      BY <1>0, <1>9, <3>1 DEF Publish
    <3>2. CASE ~sess[s].finished
      <4>1. PICK q : q = [id |-> sess[s].event, of |-> s, kind |-> sess[s].chunk]
        OBVIOUS
      <4>2. q \in LogSet
        BY <2>2, <4>1 DEF LogSet, SessSet, Sessions
      <4>3. log' = Logged(q)
        BY <1>9, <3>2, <4>1 DEF Publish
      <4> QED BY <1>0, <4>2, <4>3, LogTyped
    <3> QED BY <3>1, <3>2
  <2> QED BY <1>0, <2>1, <2>6, <2>7, <2>8, RowsStay, SessionPoints, SessionTypes DEF StreamInv
<1>10. ASSUME NEW s \in Sessions, EndStream(s) PROVE StreamInv'
  <2>1. UNCHANGED <<active, flag, seq, log, cancels>>
    BY <1>10 DEF EndStream
  <2>2. PICK y : /\ Becomes(s, y) /\ y.at = "over" /\ y.chunk = "none" /\ y.msg = 0
                 /\ y.stop = sess[s].stop
    BY <1>0, <1>10, Ends
  <2>3. Grow(s)
    <3>1. CASE rows' = rows
      BY <3>1, RowsStay
    <3>2. CASE rows' # rows
      <4>1. PICK n \in Messages : n = sess[s].msg /\ rows[n].of = s
        BY <1>10, <3>2, EndsRow
      <4>2. PICK w : RowBecomes(n, w) /\ w.of = s
        BY <1>10, <3>2, <4>1, EndsRow
      <4> QED BY <4>1, <4>2, GrowOne
    <3> QED BY <3>1, <3>2
  <2>4. Aimed(y, s, rows')
    BY <2>2 DEF Aimed
  <2>5. Read(y.stop, rows')
    BY <2>2, <2>3, SessAimed, ReadsKept
  <2> QED BY <1>0, <2>1, <2>2, <2>3, <2>4, <2>5, SessionPoints, SessionTypes DEF StreamInv
<1>11. ASSUME NEW s \in Sessions, Quit(s) PROVE StreamInv'
  <2>1. UNCHANGED <<rows, active, flag, seq, log, cancels>>
    BY <1>11 DEF Quit
  <2>2. PICK y : /\ Becomes(s, y) /\ y.at = "over" /\ y.chunk = "none" /\ y.msg = 0
                 /\ SameFate(sess[s], y)
    BY <1>0, <1>11, Quits
  <2>3. Aimed(y, s, rows) /\ Read(y.stop, rows)
    BY <2>2, SessAimed DEF Aimed, SameFate
  <2> QED BY <1>0, <2>1, <2>2, <2>3, RowsStay, SessionPoints, SessionTypes DEF StreamInv
<1>12. ASSUME NEW s \in Sessions, CleanUp(s) PROVE StreamInv'
  <2>1. UNCHANGED <<rows, flag, seq, log, cancels>> /\ active' = FALSE
    BY <1>12 DEF CleanUp
  <2>2. PICK y : /\ Becomes(s, y) /\ y.at = sess[s].at /\ SameCourse(sess[s], y)
                 /\ y.stop = sess[s].stop
    BY <1>0, <1>12, Cleans
  <2>3. Read(y.stop, rows)
    BY <2>2, SessAimed
  <2> QED BY <1>0, <2>1, <2>2, <2>3, CourseKept, RowsStay, SessionTypes DEF StreamInv
<1>13. ASSUME NEW s \in Sessions, StopFind(s) PROVE StreamInv'
  <2>1. UNCHANGED <<rows, active, seq, log, cancels>> /\ flag' = TRUE
    BY <1>13 DEF StopFind
  <2>2. PICK x : x = sess[s]
    OBVIOUS
  <2>3. x \in SessSet /\ x.stop \in StopSet
    BY <2>2, SessAimed DEF SessSet
  <2>4. PICK p : /\ p \in StopSet /\ Read(p, rows) /\ sess' = [sess EXCEPT ![s].stop = p]
    <3>1. CASE LatestOpen = 0
      <4>1. PICK p : p = [x.stop EXCEPT !.at = "publish"]
        OBVIOUS
      <4>2. p \in StopSet /\ p.at = "publish"
        BY <2>3, <4>1 DEF StopSet
      <4>3. sess' = [sess EXCEPT ![s].stop = p]
        BY <1>13, <2>2, <3>1, <4>1 DEF StopFind
      <4> QED BY <4>2, <4>3 DEF Read
    <3>2. CASE LatestOpen # 0
      <4>1. PICK m \in Messages : m = LatestOpen
        BY <1>0, <3>2, LatestFound
      <4>2. rows[m] \in RowSet
        BY <1>0, RowTyped
      <4>3. PICK p : p = [at |-> "save", msg |-> m, snap |-> rows[m]]
        OBVIOUS
      <4>4. p \in StopSet
        BY <4>2, <4>3 DEF StopSet, SnapSet, Messages
      <4>5. sess' = [sess EXCEPT ![s].stop = p]
        BY <1>13, <3>2, <4>1, <4>3 DEF StopFind
      <4> QED BY <4>2, <4>3, <4>4, <4>5 DEF Read, Messages
    <3> QED BY <3>1, <3>2
  <2>5. PICK y : /\ Becomes(s, y) /\ y.at = sess[s].at /\ SameCourse(sess[s], y) /\ y.stop = p
    BY <1>0, <2>4, StopMoves
  <2> QED BY <1>0, <2>1, <2>4, <2>5, CourseKept, RowsStay, SessionTypes DEF StreamInv
<1>14. ASSUME NEW s \in Sessions, StopSave(s) PROVE StreamInv'
  <2>1. UNCHANGED <<active, flag, seq, log, cancels>> /\ sess[s].stop.at = "save"
    BY <1>14 DEF StopSave
  <2>2. PICK m \in Messages : m = sess[s].stop.msg
    BY <2>1, SessAimed DEF Read, Messages
  <2>3. PICK d : d = sess[s].stop.snap
    OBVIOUS
  <2>4. d \in RowSet /\ d.of = rows[m].of
    BY <2>1, <2>2, <2>3, SessAimed DEF Read
  <2>5. rows' = Saved(m, [d EXCEPT !.status = "stopped"])
    BY <1>14, <2>2, <2>3 DEF StopSave
  <2>6. PICK w : RowBecomes(m, w) /\ w.status = "stopped" /\ w.of = rows[m].of
    BY <2>4, <2>5, Settles
  <2>7. Grow(s)
    BY <2>6, GrowOne
  <2>8. PICK p : p = [NoStop EXCEPT !.at = "publish"]
    OBVIOUS
  <2>9. p \in StopSet /\ p.at = "publish"
    BY <2>8 DEF NoStop, StopSet, SnapSet
  <2>10. sess' = [sess EXCEPT ![s].stop = p]
    BY <1>14, <2>8 DEF StopSave
  <2>11. PICK y : /\ Becomes(s, y) /\ y.at = sess[s].at /\ SameCourse(sess[s], y) /\ y.stop = p
    BY <1>0, <2>9, <2>10, StopMoves
  <2>12. Read(y.stop, rows')
    BY <2>9, <2>11 DEF Read
  <2>13. Aimed(y, s, rows')
    <3>1. Aimed(sess[s], s, rows)
      BY SessAimed
    <3>2. ASSUME y.msg # 0
          PROVE  y.msg \in 1..Len(rows') /\ rows'[y.msg].of = s /\ rows'[y.msg].status # "success"
      <4>1. PICK n \in Messages : n = sess[s].msg
        BY <2>11, <3>1, <3>2 DEF Aimed, SameCourse, Messages
      <4>2. rows[n].of = s /\ rows[n].status # "success"
        BY <2>11, <3>1, <3>2, <4>1 DEF Aimed, SameCourse
      <4>3. rows'[n].of = s /\ rows'[n].status # "success"
        BY <2>6, <4>2 DEF RowBecomes
      <4> QED BY <2>6, <2>11, <4>1, <4>3 DEF RowBecomes, SameCourse, Messages
    <3> QED BY <2>11, <3>1, <3>2 DEF Aimed, SameCourse
  <2> QED BY <1>0, <2>1, <2>7, <2>11, <2>12, <2>13, SessionPoints, SessionTypes DEF StreamInv
<1>15. ASSUME NEW s \in Sessions, StopEnd(s) PROVE StreamInv'
  <2>1. UNCHANGED <<rows, active, flag, cancels>>
    BY <1>15 DEF StopEnd
  <2>2. PICK y : /\ Becomes(s, y) /\ y.at = sess[s].at /\ y.chunk = sess[s].chunk
                 /\ y.msg = sess[s].msg /\ y.snap = sess[s].snap /\ y.stop = NoStop
    BY <1>0, <1>15, StopEnds
  <2>3. Aimed(y, s, rows) /\ Read(y.stop, rows)
    BY <2>2, SessAimed DEF Aimed, Read, NoStop
  <2>4. seq' \in Nat /\ log' \in Seq(LogSet)
    <3>1. CASE sess[s].finished
      BY <1>0, <1>15, <3>1 DEF StopEnd
    <3>2. CASE ~sess[s].finished
      <4>1. PICK q : q = [id |-> seq + 1, of |-> s, kind |-> "stopped"]
        OBVIOUS
      <4>2. q \in LogSet
        BY <1>0, <4>1 DEF LogSet, Sessions
      <4>3. log' = Logged(q) /\ seq' = seq + 1
        BY <1>15, <3>2, <4>1 DEF StopEnd
      <4> QED BY <1>0, <4>2, <4>3, LogTyped
    <3> QED BY <3>1, <3>2
  <2> QED BY <1>0, <2>1, <2>2, <2>3, <2>4, RowsStay, SessionPoints, SessionTypes DEF StreamInv
<1>16. ASSUME NEW c \in Cancels, NEW v \in Servers, Cancel(c, v) PROVE StreamInv'
  <2>1. /\ sess' \in Seq(SessSet) /\ Len(sess') = Len(sess)
        /\ \A r \in Sessions : /\ SameCourse(sess[r], sess'[r]) /\ sess'[r].at = sess[r].at
                               /\ sess'[r].stop = sess[r].stop
    BY <1>0, <1>16, Covers
  <2>2. UNCHANGED <<rows, active, seq, log>> /\ flag' = TRUE
    BY <1>16 DEF Cancel
  <2>3. PICK q : q = [at |-> "look", server |-> v, msg |-> 0, snap |-> NoRow]
    OBVIOUS
  <2>4. q \in CancelSet /\ q.at = "look"
    BY <2>3 DEF CancelSet, SnapSet
  <2>5. cancels' = [cancels EXCEPT ![c] = q]
    BY <1>16, <2>3 DEF Cancel
  <2>6. /\ cancels' \in [Cancels -> CancelSet] /\ cancels'[c] = q
        /\ \A d \in Cancels : d # c => cancels'[d] = cancels[d]
    BY <1>0, <2>4, <2>5, CancelMoves
  <2>7. ASSUME NEW d \in Cancels PROVE Read(cancels'[d], rows)
    <3>1. CASE d = c
      BY <2>4, <2>6, <3>1 DEF Read
    <3>2. CASE d # c
      BY <2>6, <3>2 DEF StreamInv, Pointed
    <3> QED BY <3>1, <3>2
  <2>8. Len(sess) <= Len(sess') /\ \A r \in 1..Len(sess') : r \in Sessions
    BY <1>0, <2>1 DEF Sessions
  <2>9. Pointed'
    BY <2>1, <2>2, <2>7, <2>8, OthersPoint
  <2> QED BY <1>0, <2>1, <2>2, <2>6, <2>9 DEF StreamInv, StreamTyped
<1>17. ASSUME NEW c \in Cancels, NEW q \in CancelSet, cancels' = [cancels EXCEPT ![c] = q],
              Read(q, rows), rows' = rows, sess' = sess,
              UNCHANGED <<active, flag, seq, log>>
       PROVE  StreamInv'
  <2>1. /\ cancels' \in [Cancels -> CancelSet] /\ cancels'[c] = q
        /\ \A d \in Cancels : d # c => cancels'[d] = cancels[d]
    BY <1>0, <1>17, CancelMoves
  <2>2. 0 \notin Sessions /\ Grow(0)
    BY <1>17, RowsStay DEF Sessions
  <2>3. Pointed'
    BY <1>17, <2>1, <2>2, CancellationPoints
  <2> QED BY <1>0, <1>17, <2>1, <2>3 DEF StreamInv, StreamTyped
<1>18. ASSUME NEW c \in Cancels, CancelHere(c) PROVE StreamInv'
  <2>1. PICK s \in Sessions : sess' = [sess EXCEPT ![s] = Stopping(@)]
    BY <1>18 DEF CancelHere, Current
  <2>2. UNCHANGED <<rows, active, flag, seq, log>>
    BY <1>18 DEF CancelHere
  <2>3. PICK q : q = [cancels[c] EXCEPT !.at = "done"]
    OBVIOUS
  <2>4. cancels[c] \in CancelSet /\ cancels[c].at = "look"
    BY <1>0, <1>18, CancelTyped DEF CancelHere
  <2>5. q \in CancelSet /\ q.at = "done"
    BY <2>3, <2>4 DEF CancelSet
  <2>6. cancels' = [cancels EXCEPT ![c] = q]
    BY <1>18, <2>3 DEF CancelHere
  <2>7. /\ cancels' \in [Cancels -> CancelSet] /\ cancels'[c] = q
        /\ \A d \in Cancels : d # c => cancels'[d] = cancels[d]
    BY <1>0, <2>5, <2>6, CancelMoves
  <2>8. PICK y : y = Stopping(sess[s])
    OBVIOUS
  <2>9. /\ y \in SessSet /\ SameCourse(sess[s], y) /\ SameEver(sess[s], y) /\ y.at = sess[s].at
        /\ sess[s].finished \/ sess[s].aborted => y = sess[s]
        /\ ~(sess[s].finished \/ sess[s].aborted) => y.stop.at = "find"
    BY <2>8, SessAimed, Stops
  <2>10. Becomes(s, y)
    BY <1>0, <2>1, <2>8, <2>9, Becoming
  <2>11. ASSUME NEW r \in Sessions PROVE Aimed(sess'[r], r, rows) /\ Read(sess'[r].stop, rows)
    <3>1. CASE r = s
      <4>1. sess'[r] = y
        BY <2>10, <3>1 DEF Becomes
      <4>2. Aimed(sess[s], s, rows) /\ Read(sess[s].stop, rows)
        BY SessAimed
      <4> QED BY <2>9, <3>1, <4>1, <4>2 DEF Aimed, Read, SameCourse
    <3>2. CASE r # s
      <4>1. sess'[r] = sess[r]
        BY <2>10, <3>2 DEF Becomes
      <4> QED BY <4>1, SessAimed
    <3> QED BY <3>1, <3>2
  <2>12. ASSUME NEW d \in Cancels PROVE Read(cancels'[d], rows)
    <3>1. CASE d = c
      BY <2>5, <2>7, <3>1 DEF Read
    <3>2. CASE d # c
      BY <2>7, <3>2 DEF StreamInv, Pointed
    <3> QED BY <3>1, <3>2
  <2>13. Sessions' = Sessions /\ sess' \in Seq(SessSet)
    BY <2>10 DEF Becomes, Sessions
  <2>14. Pointed'
    BY <2>2, <2>11, <2>12, <2>13 DEF StreamInv, Pointed, Messages
  <2> QED BY <1>0, <2>2, <2>7, <2>13, <2>14 DEF StreamInv, StreamTyped
<1>19. ASSUME NEW c \in Cancels, CancelFind(c) PROVE StreamInv'
  <2>1. UNCHANGED <<rows, sess, active, flag, seq, log>>
    BY <1>19 DEF CancelFind
  <2>2. cancels[c] \in CancelSet /\ cancels[c].at = "look"
    BY <1>0, <1>19, CancelTyped DEF CancelFind
  <2>3. CASE LatestOpen = 0
    <3>1. PICK q : q = [cancels[c] EXCEPT !.at = "publish"]
      OBVIOUS
    <3>2. q \in CancelSet /\ q.at = "publish"
      BY <2>2, <3>1 DEF CancelSet
    <3>3. cancels' = [cancels EXCEPT ![c] = q]
      BY <1>19, <2>3, <3>1 DEF CancelFind
    <3> QED BY <1>17, <2>1, <3>2, <3>3 DEF Read
  <2>4. CASE LatestOpen # 0
    <3>1. PICK m \in Messages : m = LatestOpen
      BY <1>0, <2>4, LatestFound
    <3>2. PICK r \in RowSet : r = rows[m]
      BY <1>0, RowTyped
    <3>3. PICK q : q = [cancels[c] EXCEPT !.at = "save", !.msg = m, !.snap = r]
      OBVIOUS
    <3>4. q \in CancelSet /\ q.at = "save" /\ q.msg = m /\ q.snap = r
      <4>1. /\ cancels[c] \in [at : {"look", "save", "publish", "done"}, server : Servers,
                                msg : Nat, snap : SnapSet]
        BY <2>2 DEF CancelSet
      <4>2. m \in Nat /\ r \in SnapSet
        BY <3>2 DEF SnapSet, Messages
      <4>3. q \in [at : {"look", "save", "publish", "done"}, server : Servers,
                                msg : Nat, snap : SnapSet]
            /\ q.at = "save" /\ q.msg = m /\ q.snap = r
        BY <3>3, <4>1, <4>2
      <4> QED BY <4>3 DEF CancelSet
    <3>5. cancels' = [cancels EXCEPT ![c] = q]
      BY <1>19, <2>4, <3>1, <3>2, <3>3 DEF CancelFind
    <3>6. Read(q, rows)
      BY <3>1, <3>2, <3>4 DEF Read, Messages
    <3> QED BY <1>17, <2>1, <3>4, <3>5, <3>6
  <2> QED BY <2>3, <2>4
<1>20. ASSUME NEW c \in Cancels, CancelSave(c) PROVE StreamInv'
  <2>1. UNCHANGED <<sess, active, flag, seq, log>> /\ cancels[c].at = "save"
    BY <1>20 DEF CancelSave
  <2>2. cancels[c] \in CancelSet /\ Read(cancels[c], rows)
    BY <1>0, CancelTyped DEF StreamInv, Pointed
  <2>3. PICK m \in Messages : m = cancels[c].msg
    BY <2>1, <2>2 DEF Read, Messages
  <2>4. PICK d : d = cancels[c].snap
    OBVIOUS
  <2>5. d \in RowSet /\ d.of = rows[m].of
    BY <2>1, <2>2, <2>3, <2>4 DEF Read
  <2>6. rows' = Saved(m, [d EXCEPT !.status = "stopped"])
    BY <1>20, <2>3, <2>4 DEF CancelSave
  <2>7. PICK w : RowBecomes(m, w) /\ w.status = "stopped" /\ w.of = rows[m].of
    BY <2>5, <2>6, Settles
  <2>8. PICK q : q = [cancels[c] EXCEPT !.at = "publish", !.snap = NoRow]
    OBVIOUS
  <2>9. q \in CancelSet /\ q.at = "publish"
    BY <2>1, <2>2, <2>8 DEF CancelSet, SnapSet
  <2>10. cancels' = [cancels EXCEPT ![c] = q]
    BY <1>20, <2>8 DEF CancelSave
  <2>11. /\ cancels' \in [Cancels -> CancelSet] /\ cancels'[c] = q
         /\ \A e \in Cancels : e # c => cancels'[e] = cancels[e]
    BY <1>0, <2>9, <2>10, CancelMoves
  <2>12. rows' \in Seq(RowSet) /\ Len(rows') = Len(rows)
    BY <2>7 DEF RowBecomes
  <2>13. Grow(0)
    <3>1. ASSUME NEW n \in Messages
          PROVE  /\ rows'[n].of = rows[n].of
                 /\ rows'[n].status = "success" => rows[n].status = "success"
      BY <2>7 DEF RowBecomes
    <3> QED BY <1>0, <2>12, <3>1 DEF Grow, Messages
  <2>14. 0 \notin Sessions /\ Read(cancels'[c], rows')
    BY <2>9, <2>11 DEF Sessions, Read
  <2>15. Pointed'
    BY <2>1, <2>11, <2>12, <2>13, <2>14, CancellationPoints
  <2> QED BY <1>0, <2>1, <2>11, <2>12, <2>15 DEF StreamInv, StreamTyped
<1>21. ASSUME NEW c \in Cancels, CancelPublish(c) PROVE StreamInv'
  <2>1. PICK q : q = [cancels[c] EXCEPT !.at = "done"]
    OBVIOUS
  <2>2. cancels[c] \in CancelSet /\ cancels[c].at = "publish"
    BY <1>0, <1>21, CancelTyped DEF CancelPublish
  <2>3. q \in CancelSet /\ q.at = "done"
    BY <2>1, <2>2 DEF CancelSet
  <2>4. cancels' = [cancels EXCEPT ![c] = q] /\ UNCHANGED <<rows, sess, active, flag, seq, log>>
    BY <1>21, <2>1 DEF CancelPublish
  <2> QED BY <1>17, <2>3, <2>4 DEF Read
<1>22. ASSUME NEW s \in Sessions, Hear(s) PROVE StreamInv'
  <2>1. sess' = [sess EXCEPT ![s] = Stopping(@)] /\ UNCHANGED <<rows, active, flag, seq, log, cancels>>
    BY <1>22 DEF Hear
  <2>2. sess' \in Seq(SessSet) /\ Pointed'
    BY <1>4, <2>1
  <2> QED BY <1>0, <2>1, <2>2 DEF StreamInv, StreamTyped
<1>23. CASE UNCHANGED vars
  BY <1>23 DEF vars, StreamInv, StreamTyped, Pointed, Sessions, Messages
<1> QED BY <1>1, <1>3, <1>5, <1>6, <1>7, <1>8, <1>9, <1>10, <1>11, <1>12, <1>13, <1>14,
           <1>15, <1>16, <1>18, <1>19, <1>20, <1>21, <1>22, <1>23 DEF Next
(* How a session ends: a stop of it that has begun ends it, and one that is   *)
(* not to be stopped ends with its stream.                                    *)
LifeOf(x, l) ==
  /\ x.clean => x.finished
  /\ x.aborted /\ ~x.finished => x.stop.at \in {"find", "save", "publish"}
  /\ x.stop.at # "none" => x.aborted
  /\ x.finished /\ ~x.aborted => x.at = "over"
  /\ x.covered => ~x.finished /\ l

GoneOf(x) == x.clean /\ x.at = "over" /\ x.stop.at = "none"

\* A session that is alone starts when those before it are gone, and is gone
\* when another starts.
Lives ==
  /\ \A s \in Sessions : LifeOf(sess[s], s \in listening)
  /\ \A r, s \in Sessions : r < s /\ (sess[r].alone \/ sess[s].alone) => GoneOf(sess[r])

\* What the steps of a session do to its life.
Ages(x, y) ==
  /\ x.finished => y.finished
  /\ x.clean => y.clean
  /\ x.aborted => y.aborted
  /\ GoneOf(x) => GoneOf(y)
  /\ y.alone => x.alone
  /\ y.clean => x.clean \/ ~active'
  /\ x.at \notin {"open", "mark"} => y.at \notin {"open", "mark"}
  /\ y.covered => x.covered \/ (flag' /\ \E c \in Cancels : cancels'[c].at = "look")

\* What a step does to the sessions there are, and that one it starts is new.
Aged ==
  /\ \A r \in Sessions : Ages(sess[r], sess'[r])
  /\ \A r \in Sessions' : r \in Sessions \/ sess'[r] = Fresh(sess'[r].server)
  /\ Sessions \subseteq Sessions'

\* A step of one session.
LEMMA OneAges ==
  ASSUME StreamInv, Lives, NEW s \in Sessions, NEW y, Becomes(s, y), Ages(sess[s], y),
         LifeOf(y, s \in listening'),
         \A r \in Sessions : r # s /\ r \in listening => r \in listening'
  PROVE  Lives' /\ Aged
<1>1. Sessions' = Sessions
  BY DEF Becomes, Sessions
<1>2. ASSUME NEW r \in Sessions PROVE LifeOf(sess'[r], r \in listening')
  BY DEF Becomes, Lives, LifeOf
<1>3. ASSUME NEW r \in Sessions PROVE Ages(sess[r], sess'[r]) /\ sess'[r].alone = sess[r].alone
  <2>1. CASE r = s
    BY <2>1 DEF Becomes, SameEver
  <2>2. CASE r # s
    BY <2>2 DEF Becomes, Ages
  <2> QED BY <2>1, <2>2
<1>4. ASSUME NEW q \in Sessions, NEW r \in Sessions, q < r, sess'[q].alone \/ sess'[r].alone
      PROVE  GoneOf(sess'[q])
  BY <1>3, <1>4 DEF Lives, Ages
<1> QED BY <1>1, <1>2, <1>3, <1>4 DEF Lives, Aged

\* A step that leaves the sessions and who listens alone.
LEMMA NoneAges ==
  ASSUME Lives, sess' = sess, listening' = listening PROVE Lives' /\ Aged
BY DEF Lives, Sessions, Aged, Ages

\* Every step.
LEMMA LifeStep == StreamInv /\ Lives /\ [Next]_vars => Lives' /\ Aged
<1> SUFFICES ASSUME StreamInv, Lives, [Next]_vars PROVE Lives' /\ Aged
  OBVIOUS
<1>0. StreamTyped
  BY DEF StreamInv
<1>a. ASSUME NEW s \in Sessions PROVE LifeOf(sess[s], s \in listening) /\ sess[s] \in SessSet
  BY SessAimed DEF Lives
<1>1. ASSUME NEW v \in Servers, StartSession(v) PROVE Lives' /\ Aged
  <2>1. /\ Len(sess') = Len(sess) + 1
        /\ \A r \in Sessions :
             /\ SameFate(sess[r], sess'[r]) /\ sess'[r].at = sess[r].at
             /\ sess'[r].alone = (sess[r].alone /\ Gone(r))
        /\ sess'[Len(sess) + 1] = Fresh(v)
    BY <1>0, <1>1, Starts
  <2>2. listening' = listening
    BY <1>1 DEF StartSession
  <2>3. PICK n \in Nat : n = Len(sess) /\ Sessions = 1..n /\ Sessions' = 1..(n + 1)
    <3>1. Len(sess) \in Nat
      BY <1>0 DEF StreamTyped
    <3> QED BY <2>1, <3>1 DEF Sessions
  <2>4. ASSUME NEW r \in Sessions
        PROVE  /\ LifeOf(sess'[r], r \in listening')
               /\ sess'[r].alone => sess[r].alone /\ GoneOf(sess'[r])
               /\ GoneOf(sess[r]) => GoneOf(sess'[r])
    BY <2>1, <2>2, <1>a DEF LifeOf, SameFate, GoneOf, Gone
  <2>5. LifeOf(sess'[n + 1], (n + 1) \in listening')
    <3>1. PICK x : x = Fresh(v)
      OBVIOUS
    <3>2. x.aborted = FALSE /\ x.finished = FALSE /\ x.clean = FALSE /\ x.stop.at = "none"
          /\ x.covered = FALSE
      BY <3>1 DEF Fresh, NoStop
    <3> QED BY <2>1, <2>3, <3>1, <3>2 DEF LifeOf
  <2>6. sess'[n + 1].alone => \A r \in Sessions : GoneOf(sess'[r])
    <3>1. Fresh(v).alone = (\A r \in Sessions : Gone(r))
      BY DEF Fresh
    <3>2. sess'[n + 1] = Fresh(v)
      BY <2>1, <2>3
    <3>3. ASSUME NEW r \in Sessions, Gone(r) PROVE GoneOf(sess'[r])
      BY <2>4, <3>3 DEF Gone, GoneOf
    <3> QED BY <3>1, <3>2, <3>3
  <2>7. ASSUME NEW s \in 1..(n + 1) PROVE LifeOf(sess'[s], s \in listening')
    <3>1. s \in 1..n \/ s = n + 1
      OBVIOUS
    <3> QED BY <2>3, <2>4, <2>5, <3>1
  <2>8. ASSUME NEW r \in 1..(n + 1), NEW s \in 1..(n + 1), r < s,
               sess'[r].alone \/ sess'[s].alone
        PROVE  GoneOf(sess'[r])
    <3>1. r \in Sessions /\ (s \in Sessions \/ s = n + 1)
      BY <2>3, <2>8
    <3>2. CASE s \in Sessions
      <4>1. sess[r].alone \/ sess[s].alone
        BY <2>4, <2>8, <3>1, <3>2
      <4>2. GoneOf(sess[r])
        BY <2>8, <3>1, <3>2, <4>1 DEF Lives
      <4> QED BY <2>4, <3>1, <4>2
    <3>3. CASE s = n + 1
      BY <2>4, <2>6, <2>8, <3>1, <3>3
    <3> QED BY <3>1, <3>2, <3>3
  <2>9. Aged
    <3>1. ASSUME NEW r \in Sessions PROVE Ages(sess[r], sess'[r])
      BY <2>1, <2>4, <3>1 DEF Ages, SameFate
    <3>2. Fresh(v).server = v
      BY DEF Fresh
    <3>3. ASSUME NEW r \in 1..(n + 1) PROVE r \in Sessions \/ sess'[r] = Fresh(sess'[r].server)
      <4>1. r \in 1..n \/ r = n + 1
        OBVIOUS
      <4> QED BY <2>1, <2>3, <3>2, <4>1
    <3>4. 1..n \subseteq 1..(n + 1)
      OBVIOUS
    <3> QED BY <2>3, <3>1, <3>3, <3>4 DEF Aged
  <2> QED BY <2>3, <2>7, <2>8, <2>9 DEF Lives
<1>2. ASSUME NEW s \in Sessions, NEW y, Becomes(s, y), SameFate(sess[s], y),
             sess[s].at # "over", y.at = "over" => sess[s].aborted,
             sess[s].finished => sess[s].aborted \/ y.at = "over",
             sess[s].at \in {"open", "mark"} \/ y.at \notin {"open", "mark"},
             listening \subseteq listening'
      PROVE  Lives' /\ Aged
  <2>1. Ages(sess[s], y) /\ LifeOf(y, s \in listening')
    BY <1>2, <1>a DEF Ages, GoneOf, LifeOf, SameFate, SameEver, Becomes
  <2> QED BY <1>2, <2>1, OneAges
<1>b. ASSUME NEW s \in Sessions, sess[s].at # "over"
      PROVE  sess[s].finished => sess[s].aborted
  BY <1>a, <1>b DEF LifeOf
<1>3. ASSUME NEW s \in Sessions, NEW a \in Places \ {"over"}, sess[s].at # "over",
             sess[s].at \in {"open", "mark"} \/ a \notin {"open", "mark"},
             sess' = [sess EXCEPT ![s].at = a], listening \subseteq listening'
      PROVE  Lives' /\ Aged
  <2>1. PICK y : /\ Becomes(s, y) /\ y.at = a /\ SameCourse(sess[s], y) /\ SameFate(sess[s], y)
    BY <1>0, <1>3, Advances
  <2> QED BY <1>2, <1>3, <1>b, <2>1
<1>4. ASSUME NEW s \in Sessions, ClearLog(s) PROVE Lives' /\ Aged
  <2>1. "mark" \in Places \ {"over"}
    BY DEF Places
  <2> QED BY <1>3, <1>4, <2>1 DEF ClearLog
<1>5. ASSUME NEW s \in Sessions, MarkActive(s) PROVE Lives' /\ Aged
  <2>1. "subscribe" \in Places \ {"over"}
    BY DEF Places
  <2> QED BY <1>3, <1>5, <2>1 DEF MarkActive
<1>6. ASSUME NEW s \in Sessions, Subscribe(s) PROVE Lives' /\ Aged
  <2>1. "read" \in Places \ {"over"}
    BY DEF Places
  <2> QED BY <1>3, <1>6, <2>1 DEF Subscribe
<1>7. ASSUME NEW s \in Sessions, sess' = [sess EXCEPT ![s] = Stopping(@)], listening' = listening
      PROVE  Lives' /\ Aged
  <2>1. PICK y : y = Stopping(sess[s])
    OBVIOUS
  <2>2. /\ y \in SessSet /\ SameEver(sess[s], y) /\ y.at = sess[s].at
        /\ y.finished = sess[s].finished /\ y.clean = sess[s].clean /\ y.covered = sess[s].covered
        /\ sess[s].finished \/ sess[s].aborted => y = sess[s]
        /\ ~(sess[s].finished \/ sess[s].aborted) => y.aborted = TRUE /\ y.stop.at = "find"
    BY <2>1, SessAimed, Stops
  <2>3. Becomes(s, y)
    BY <1>0, <1>7, <2>1, <2>2, Becoming DEF StreamTyped
  <2>4. Ages(sess[s], y) /\ LifeOf(y, s \in listening')
    BY <1>7, <1>a, <2>2 DEF Ages, GoneOf, LifeOf, SameEver, Becomes
  <2> QED BY <1>7, <2>3, <2>4, OneAges
<1>8. ASSUME NEW s \in Sessions, NEW k \in Kinds, Receive(s, k) PROVE Lives' /\ Aged
  <2>1. CASE flag
    BY <1>7, <1>8, <2>1 DEF Receive, Canceled
  <2>2. CASE ~flag
    <3>1. PICK a : a = IF Stores(sess[s], k) THEN "store" ELSE "publish"
      OBVIOUS
    <3>2. a \in Places /\ a # "over"
      BY <3>1 DEF Places
    <3>3. sess' = Taken(s, a, k)
      BY <1>8, <2>2, <3>1 DEF Receive, Canceled, Taken
    <3>4. PICK y : Becomes(s, y) /\ y.at = a /\ SameFate(sess[s], y)
      BY <1>0, <3>2, <3>3, Receives
    <3> QED BY <1>2, <1>8, <1>b, <3>1, <3>2, <3>4 DEF Receive
  <2> QED BY <2>1, <2>2
<1>9. ASSUME NEW s \in Sessions, Insert(s) PROVE Lives' /\ Aged
  <2>1. PICK y : Becomes(s, y) /\ y.at = "publish" /\ SameFate(sess[s], y)
    BY <1>0, <1>9, Inserts
  <2> QED BY <1>2, <1>9, <1>b, <2>1 DEF Insert
<1>10. ASSUME NEW s \in Sessions, Load(s) PROVE Lives' /\ Aged
  <2>1. CASE sess' = [sess EXCEPT ![s].at = "publish"]
    <3>1. "publish" \in Places \ {"over"}
      BY DEF Places
    <3> QED BY <1>3, <1>10, <2>1, <3>1 DEF Load
  <2>2. CASE sess' = [sess EXCEPT ![s].at = "save", ![s].snap = rows[sess[s].msg]]
    <3>1. PICK row : row = rows[sess[s].msg]
      OBVIOUS
    <3>2. row \in SnapSet
      <4>1. sess[s].msg \in Messages
        BY <1>10, SessAimed DEF Aimed, Load, Messages
      <4> QED BY <1>0, <3>1, <4>1, RowTyped DEF StreamTyped, SnapSet
    <3>3. PICK y : Becomes(s, y) /\ y.at = "save" /\ SameFate(sess[s], y)
      BY <1>0, <2>2, <3>1, <3>2, Loads
    <3> QED BY <1>2, <1>10, <1>b, <3>3 DEF Load
  <2> QED BY <1>10, <2>1, <2>2 DEF Load
<1>11. ASSUME NEW s \in Sessions, Save(s) PROVE Lives' /\ Aged
  <2>1. PICK m : m = IF sess[s].chunk = "eos" THEN 0 ELSE sess[s].msg
    OBVIOUS
  <2>2. m \in Nat
    BY <2>1, <1>a DEF SessSet
  <2>3. sess' = [sess EXCEPT ![s].at = "publish", ![s].snap = NoRow, ![s].msg = m]
    BY <1>11, <2>1 DEF Save
  <2>4. PICK y : Becomes(s, y) /\ y.at = "publish" /\ SameFate(sess[s], y)
    BY <1>0, <2>2, <2>3, Saves
  <2> QED BY <1>2, <1>11, <1>b, <2>4 DEF Save
<1>12. ASSUME NEW s \in Sessions, Publish(s) PROVE Lives' /\ Aged
  <2>1. PICK e : e = IF sess[s].finished THEN sess[s].sent ELSE Append(sess[s].sent, sess[s].event)
    OBVIOUS
  <2>2. e \in Seq(Nat)
    BY <1>a, <2>1 DEF SessSet
  <2>3. PICK y : Becomes(s, y) /\ y.at = "read" /\ SameFate(sess[s], y)
    <3>1. CASE sess[s].finished
      <4>1. sess' = [sess EXCEPT ![s].at = "read", ![s].event = 0]
        BY <1>12, <3>1 DEF Publish
      <4>2. sess' = [sess EXCEPT ![s].at = "read", ![s].event = 0, ![s].sent = e]
        BY <1>0, <1>a, <2>1, <3>1, <4>1 DEF SessSet, StreamTyped, Sessions
      <4> QED BY <1>0, <2>2, <4>2, Publishes
    <3>2. CASE ~sess[s].finished
      <4>1. sess' = [sess EXCEPT ![s].at = "read", ![s].event = 0, ![s].sent = e]
        BY <1>12, <2>1, <3>2 DEF Publish
      <4> QED BY <1>0, <2>2, <4>1, Publishes
    <3> QED BY <3>1, <3>2
  <2> QED BY <1>2, <1>12, <1>b, <2>3 DEF Publish
<1>13. ASSUME NEW s \in Sessions, EndStream(s) PROVE Lives' /\ Aged
  <2>1. PICK y : /\ Becomes(s, y) /\ y.at = "over" /\ y.finished = TRUE /\ y.covered = FALSE
                 /\ y.aborted = sess[s].aborted /\ y.clean = sess[s].clean /\ y.stop = sess[s].stop
    BY <1>0, <1>13, Ends
  <2>2. sess[s].at = "read" /\ listening' = listening
    BY <1>13 DEF EndStream
  <2>3. Ages(sess[s], y) /\ LifeOf(y, s \in listening')
    BY <1>a, <2>1, <2>2 DEF Ages, GoneOf, LifeOf, SameEver, Becomes
  <2> QED BY <2>1, <2>2, <2>3, OneAges
<1>14. ASSUME NEW s \in Sessions, Quit(s) PROVE Lives' /\ Aged
  <2>1. PICK y : Becomes(s, y) /\ y.at = "over" /\ SameFate(sess[s], y)
    BY <1>0, <1>14, Quits
  <2> QED BY <1>2, <1>14, <2>1 DEF Quit
<1>15. ASSUME NEW s \in Sessions, CleanUp(s) PROVE Lives' /\ Aged
  <2>1. PICK y : /\ Becomes(s, y) /\ y.clean = TRUE /\ y.at = sess[s].at
                 /\ y.aborted = sess[s].aborted /\ y.finished = sess[s].finished
                 /\ y.stop = sess[s].stop /\ y.covered = sess[s].covered
    BY <1>0, <1>15, Cleans
  <2>2. sess[s].finished /\ listening' = listening \ {s} /\ active' = FALSE
    BY <1>15 DEF CleanUp
  <2>3. Ages(sess[s], y) /\ LifeOf(y, s \in listening')
    BY <1>a, <2>1, <2>2 DEF Ages, GoneOf, LifeOf, SameEver, Becomes
  <2> QED BY <2>1, <2>2, <2>3, OneAges
<1>16. ASSUME NEW s \in Sessions, NEW p \in StopSet, sess' = [sess EXCEPT ![s].stop = p],
              sess[s].stop.at \in {"find", "save"}, p.at \in {"save", "publish"},
              listening' = listening
       PROVE  Lives' /\ Aged
  <2>1. PICK y : /\ Becomes(s, y) /\ y.stop = p /\ y.at = sess[s].at
                 /\ SameCourse(sess[s], y) /\ y.aborted = sess[s].aborted
                 /\ y.finished = sess[s].finished /\ y.clean = sess[s].clean
                 /\ y.covered = sess[s].covered
    <3>1. sess' = [sess EXCEPT ![s].stop = p]
      BY <1>16
    <3>2. s \in Sessions /\ p \in StopSet
      OBVIOUS
    <3> QED BY <1>0, <3>1, <3>2, StopMoves
  <2>2. Ages(sess[s], y) /\ LifeOf(y, s \in listening')
    BY <1>a, <1>16, <2>1 DEF Ages, GoneOf, LifeOf, SameEver, Becomes
  <2> QED BY <1>16, <2>1, <2>2, OneAges
<1>17. ASSUME NEW s \in Sessions, StopFind(s) PROVE Lives' /\ Aged
  <2>1. sess[s].stop \in StopSet /\ sess[s].stop.at = "find" /\ listening' = listening
    BY <1>17, <1>a DEF StopFind, SessSet
  <2>2. CASE LatestOpen = 0
    <3>1. PICK p : p = [sess[s].stop EXCEPT !.at = "publish"]
      OBVIOUS
    <3>2. p \in StopSet /\ p.at = "publish"
      BY <2>1, <3>1 DEF StopSet
    <3>3. sess' = [sess EXCEPT ![s].stop = p]
      BY <1>17, <2>2, <3>1 DEF StopFind
    <3> QED BY <1>16, <2>1, <3>2, <3>3
  <2>3. CASE LatestOpen # 0
    <3>1. PICK p : p = [at |-> "save", msg |-> LatestOpen, snap |-> rows[LatestOpen]]
      OBVIOUS
    <3>2. p \in StopSet /\ p.at = "save"
      <4>1. LatestOpen \in Messages
        BY <1>0, <2>3, LatestFound DEF StreamTyped
      <4>2. LatestOpen \in Nat /\ rows[LatestOpen] \in SnapSet
        BY <1>0, <4>1, RowTyped DEF StreamTyped, SnapSet, Messages
      <4> QED BY <3>1, <4>2 DEF StopSet
    <3>3. sess' = [sess EXCEPT ![s].stop = p]
      BY <1>17, <2>3, <3>1 DEF StopFind
    <3> QED BY <1>16, <2>1, <3>2, <3>3
  <2> QED BY <2>2, <2>3
<1>18. ASSUME NEW s \in Sessions, StopSave(s) PROVE Lives' /\ Aged
  <2>1. PICK p : p = [NoStop EXCEPT !.at = "publish"]
    OBVIOUS
  <2>2. p \in StopSet /\ p.at = "publish"
    BY <2>1 DEF StopSet, NoStop, SnapSet
  <2>3. sess' = [sess EXCEPT ![s].stop = p]
    BY <1>18, <2>1 DEF StopSave
  <2> QED BY <1>16, <1>18, <2>2, <2>3 DEF StopSave
<1>19. ASSUME NEW s \in Sessions, StopEnd(s) PROVE Lives' /\ Aged
  <2>1. PICK y : /\ Becomes(s, y) /\ y.finished = TRUE /\ y.covered = FALSE /\ y.stop = NoStop
                 /\ y.at = sess[s].at /\ y.aborted = sess[s].aborted /\ y.clean = sess[s].clean
    BY <1>0, <1>19, StopEnds
  <2>2. sess[s].stop.at = "publish" /\ listening' = listening
    BY <1>19 DEF StopEnd
  <2>3. Ages(sess[s], y) /\ LifeOf(y, s \in listening')
    BY <1>a, <2>1, <2>2 DEF Ages, GoneOf, LifeOf, NoStop, SameEver, Becomes
  <2> QED BY <2>1, <2>2, <2>3, OneAges
<1>20. ASSUME NEW c \in Cancels, NEW v \in Servers, Cancel(c, v) PROVE Lives' /\ Aged
  <2>1. /\ Len(sess') = Len(sess)
        /\ \A r \in Sessions :
             /\ SameEver(sess[r], sess'[r])
             /\ sess'[r].at = sess[r].at /\ sess'[r].stop = sess[r].stop
             /\ sess'[r].aborted = sess[r].aborted /\ sess'[r].finished = sess[r].finished
             /\ sess'[r].clean = sess[r].clean
             /\ sess'[r].covered = (sess[r].covered \/ (r \in listening /\ ~sess[r].finished))
    BY <1>0, <1>20, Covers
  <2>2. listening' = listening /\ Sessions' = Sessions
    BY <1>20, <2>1 DEF Cancel, Sessions
  <2>3. ASSUME NEW r \in Sessions PROVE LifeOf(sess'[r], r \in listening')
    BY <1>a, <2>1, <2>2 DEF LifeOf
  <2>4. ASSUME NEW q \in Sessions, NEW r \in Sessions, q < r, sess'[q].alone \/ sess'[r].alone
        PROVE  GoneOf(sess'[q])
    BY <2>1, <2>4 DEF Lives, GoneOf, SameEver
  <2>5. cancels'[c].at = "look" /\ flag'
    BY <1>0, <1>20 DEF Cancel, StreamTyped
  <2>6. Aged
    BY <2>1, <2>2, <2>5 DEF Aged, Ages, GoneOf, SameEver
  <2> QED BY <2>2, <2>3, <2>4, <2>6 DEF Lives
<1>21. ASSUME NEW c \in Cancels, CancelHere(c) PROVE Lives' /\ Aged
  <2>1. PICK s \in Sessions : sess' = [sess EXCEPT ![s] = Stopping(@)]
    BY <1>21 DEF CancelHere, Current
  <2> QED BY <1>7, <1>21, <2>1 DEF CancelHere
<1>22. ASSUME NEW s \in Sessions, Hear(s) PROVE Lives' /\ Aged
  BY <1>7, <1>22 DEF Hear
<1>23. CASE UNCHANGED <<sess, listening>>
  BY <1>23, NoneAges
<1>24. ASSUME NEW c \in Cancels, CancelFind(c) \/ CancelSave(c) \/ CancelPublish(c)
       PROVE  UNCHANGED <<sess, listening>>
  BY <1>24 DEF CancelFind, CancelSave, CancelPublish
<1>25. CASE UNCHANGED vars
  BY <1>23, <1>25 DEF vars
<1> QED BY <1>1, <1>4, <1>5, <1>6, <1>8, <1>9, <1>10, <1>11, <1>12, <1>13, <1>14, <1>15, <1>17,
           <1>18, <1>19, <1>20, <1>21, <1>22, <1>23, <1>24, <1>25 DEF Next
\* A cancellation that began while a session listened is on its way to it, unless
\* the session is being stopped or the cancellation stopped another; and the flag
\* is set until the start of a session takes it.
Pending(q) == q.at \in {"look", "save", "publish"}

Flagged == flag \/ "cleared" \in lapses

Covering ==
  \A s \in Sessions : sess[s].covered =>
    /\ \/ s \in told \/ sess[s].aborted \/ "spared" \in lapses
       \/ \E c \in Cancels : Pending(cancels[c])
    /\ Flagged

\* What has lapsed stays so, and only the start of a session takes the flag.
LEMMA FlagStep == [Next]_vars => lapses \subseteq lapses' /\ (Flagged => Flagged')
<1> SUFFICES ASSUME [Next]_vars PROVE lapses \subseteq lapses' /\ (Flagged => Flagged')
  OBVIOUS
<1>1. CASE lapses \subseteq lapses' /\ (flag => flag')
  BY <1>1 DEF Flagged
<1>2. ASSUME NEW v \in Servers, StartSession(v) PROVE UNCHANGED <<flag, lapses>>
  BY <1>2 DEF StartSession
<1>3. ASSUME NEW s \in Sessions, ClearLog(s) \/ Subscribe(s) \/ CleanUp(s) \/ Quit(s) \/ Hear(s)
      PROVE  UNCHANGED <<flag, lapses>>
  BY <1>3 DEF ClearLog, Subscribe, CleanUp, Quit, Hear
<1>4. ASSUME NEW s \in Sessions, NEW k \in Kinds, Receive(s, k) PROVE UNCHANGED <<flag, lapses>>
  BY <1>4 DEF Receive
<1>5. ASSUME NEW s \in Sessions, Insert(s) \/ Load(s) \/ Save(s) \/ Publish(s) \/ EndStream(s)
      PROVE  UNCHANGED <<flag, lapses>>
  BY <1>5 DEF Insert, Load, Save, Publish, EndStream
<1>6. ASSUME NEW s \in Sessions, StopFind(s) \/ StopSave(s) \/ StopEnd(s)
      PROVE  lapses' = lapses /\ (flag => flag')
  BY <1>6 DEF StopFind, StopSave, StopEnd
<1>7. ASSUME NEW s \in Sessions, MarkActive(s)
      PROVE  lapses \subseteq lapses' /\ (Flagged => Flagged')
  BY <1>7 DEF MarkActive, Flagged
<1>8. ASSUME NEW c \in Cancels, NEW v \in Servers, Cancel(c, v) PROVE lapses' = lapses /\ flag'
  BY <1>8 DEF Cancel
<1>9. ASSUME NEW c \in Cancels,
             CancelHere(c) \/ CancelFind(c) \/ CancelSave(c) \/ CancelPublish(c)
      PROVE  lapses \subseteq lapses' /\ flag' = flag
  BY <1>9 DEF CancelHere, CancelFind, CancelSave, CancelPublish
<1>10. CASE UNCHANGED vars
  BY <1>1, <1>10 DEF vars
<1> QED BY <1>1, <1>2, <1>3, <1>4, <1>5, <1>6, <1>7, <1>8, <1>9, <1>10 DEF Next

\* A cancellation that is over has told, or stopped, whom it covers, or has
\* spared them for the flag.
LEMMA CoverStep == StreamInv /\ Lives /\ Covering /\ [Next]_vars => Covering'
<1> SUFFICES ASSUME StreamInv, Lives, Covering, [Next]_vars PROVE Covering'
  OBVIOUS
<1>0. StreamTyped /\ Aged /\ Lives'
  BY LifeStep DEF StreamInv
<1>b. lapses \subseteq lapses' /\ (Flagged => Flagged')
  BY FlagStep
<1>1. ASSUME NEW s \in Sessions', sess'[s].covered
      PROVE  \/ flag' /\ \E c \in Cancels : Pending(cancels'[c])
             \/ /\ s \in Sessions /\ sess[s].covered
                /\ sess[s].aborted => sess'[s].aborted
                /\ ~sess'[s].finished /\ s \in listening'
  <2>1. s \in Sessions
    <3>1. Fresh(sess'[s].server).covered = FALSE
      BY DEF Fresh
    <3> QED BY <1>0, <1>1, <3>1 DEF Aged
  <2>2. Ages(sess[s], sess'[s]) /\ LifeOf(sess'[s], s \in listening')
    BY <1>0, <2>1 DEF Aged, Lives
  <2> QED BY <1>1, <2>1, <2>2 DEF Ages, LifeOf, Pending
<1>c. ASSUME NEW s \in Sessions', sess'[s].covered PROVE Flagged'
  BY <1>b, <1>1, <1>c DEF Covering, Flagged
<1>2. CASE told \subseteq told' /\ cancels' = cancels
  BY <1>b, <1>c, <1>1, <1>2 DEF Covering
<1>3. ASSUME NEW c \in Cancels, Pending(cancels'[c]) PROVE Covering'
  BY <1>3, <1>c DEF Covering
<1>4. ASSUME NEW s \in Sessions, CleanUp(s) PROVE Covering'
  <2>1. cancels' = cancels /\ told' = told \ {s} /\ sess[s].finished
    BY <1>4 DEF CleanUp
  <2>2. sess'[s].finished
    BY <1>0, <2>1 DEF Aged, Ages
  <2> QED BY <1>b, <1>c, <1>1, <2>1, <2>2 DEF Covering
<1>5. ASSUME NEW s \in Sessions, Hear(s) PROVE Covering'
  <2>1. cancels' = cancels /\ told' = told \ {s} /\ sess' = [sess EXCEPT ![s] = Stopping(@)]
    BY <1>5 DEF Hear
  <2>2. sess'[s].finished \/ sess'[s].aborted
    <3>1. sess'[s] = Stopping(sess[s])
      BY <1>0, <2>1 DEF StreamTyped, Sessions
    <3> QED BY <3>1, SessAimed, Stops
  <2> QED BY <1>b, <1>c, <1>1, <2>1, <2>2 DEF Covering
<1>6. ASSUME NEW c \in Cancels, NEW q \in CancelSet, cancels' = [cancels EXCEPT ![c] = q]
      PROVE  /\ cancels'[c] = q
             /\ \A d \in Cancels : d # c => cancels'[d] = cancels[d]
  BY <1>0, <1>6, CancelMoves
<1>7. ASSUME NEW c \in Cancels, CancelHere(c) PROVE Covering'
  <2>1. PICK r \in Sessions :
          /\ ~sess[r].finished /\ sess' = [sess EXCEPT ![r] = Stopping(@)]
          /\ (\E q \in Sessions : q # r /\ sess[q].covered) => "spared" \in lapses'
    BY <1>7 DEF CancelHere, Current
  <2>2. sess'[r].aborted
    <3>1. sess'[r] = Stopping(sess[r])
      BY <1>0, <2>1 DEF StreamTyped, Sessions
    <3> QED BY <2>1, <3>1, SessAimed, Stops
  <2>3. ASSUME NEW s \in Sessions', sess'[s].covered, ~\E d \in Cancels : Pending(cancels'[d])
        PROVE  sess'[s].aborted \/ "spared" \in lapses'
    <3>1. s \in Sessions /\ sess[s].covered
      BY <1>1, <2>3
    <3> QED BY <2>1, <2>2, <3>1
  <2> QED BY <1>c, <2>3 DEF Covering
<1>8. ASSUME NEW c \in Cancels, NEW v \in Servers, Cancel(c, v) PROVE Covering'
  <2>1. cancels'[c].at = "look"
    BY <1>0, <1>8 DEF Cancel, StreamTyped
  <2> QED BY <1>3, <2>1 DEF Pending
<1>9. ASSUME NEW c \in Cancels, CancelFind(c) PROVE Covering'
  <2>1. cancels'[c].at \in {"publish", "save"}
    <3>1. cancels[c] \in CancelSet /\ cancels[c].at = "look"
      BY <1>0, <1>9, CancelTyped DEF CancelFind
    <3>2. cancels[c] \in [at : {"look", "save", "publish", "done"}, server : Servers,
                          msg : Nat, snap : SnapSet]
      BY <3>1 DEF CancelSet
    <3>3. CASE LatestOpen = 0
      BY <1>0, <1>9, <3>2, <3>3 DEF CancelFind, StreamTyped
    <3>4. CASE LatestOpen # 0
      <4>1. PICK q : q = [cancels[c] EXCEPT !.at = "save", !.msg = LatestOpen, !.snap = rows[LatestOpen]]
        OBVIOUS
      <4>2. q.at = "save"
        BY <3>2, <4>1
      <4>3. cancels' = [cancels EXCEPT ![c] = q]
        BY <1>9, <3>4, <4>1 DEF CancelFind
      <4> QED BY <1>0, <4>2, <4>3 DEF StreamTyped
    <3> QED BY <3>3, <3>4
  <2> QED BY <1>3, <2>1 DEF Pending
<1>10. ASSUME NEW c \in Cancels, CancelSave(c) PROVE Covering'
  <2>1. cancels'[c].at = "publish"
    <3>1. cancels[c] \in CancelSet /\ cancels[c].at = "save"
      BY <1>0, <1>10, CancelTyped DEF CancelSave
    <3>2. cancels[c] \in [at : {"look", "save", "publish", "done"}, server : Servers,
                          msg : Nat, snap : SnapSet]
      BY <3>1 DEF CancelSet
    <3>3. PICK q : q = [cancels[c] EXCEPT !.at = "publish", !.snap = NoRow]
      OBVIOUS
    <3>4. q.at = "publish"
      BY <3>2, <3>3
    <3>5. cancels' = [cancels EXCEPT ![c] = q]
      BY <1>10, <3>3 DEF CancelSave
    <3> QED BY <1>0, <3>4, <3>5 DEF StreamTyped
  <2> QED BY <1>3, <2>1 DEF Pending
<1>11. ASSUME NEW c \in Cancels, CancelPublish(c) PROVE Covering'
  <2>1. told' = told \union listening /\ listening' = listening
    BY <1>11 DEF CancelPublish, Audience
  <2> QED BY <1>b, <1>c, <1>1, <2>1 DEF Covering
<1>12. ASSUME NEW v \in Servers, StartSession(v) PROVE Covering'
  BY <1>2, <1>12 DEF StartSession
<1>13. ASSUME NEW s \in Sessions,
              \/ ClearLog(s) \/ MarkActive(s) \/ Subscribe(s) \/ Insert(s) \/ Load(s)
              \/ Save(s) \/ Publish(s) \/ EndStream(s) \/ Quit(s)
              \/ StopFind(s) \/ StopSave(s) \/ StopEnd(s) \/ \E k \in Kinds : Receive(s, k)
       PROVE  Covering'
  BY <1>2, <1>13 DEF ClearLog, MarkActive, Subscribe, Insert, Load, Save, Publish, EndStream,
                     Quit, StopFind, StopSave, StopEnd, Receive
<1>14. CASE UNCHANGED vars
  BY <1>2, <1>14 DEF vars
<1> QED BY <1>4, <1>5, <1>7, <1>8, <1>9, <1>10, <1>11, <1>12, <1>13, <1>14 DEF Next
\* What a session and its stop do ...
Acts(s) ==
  \/ ClearLog(s) \/ MarkActive(s) \/ Subscribe(s) \/ \E k \in Kinds : Receive(s, k)
  \/ Insert(s) \/ Load(s) \/ Save(s) \/ Publish(s) \/ EndStream(s) \/ Quit(s) \/ CleanUp(s)
  \/ StopFind(s) \/ StopSave(s) \/ StopEnd(s)

\* ... and what happens to it besides.
Elsewhere(s) ==
  /\ UNCHANGED <<seq, log, active>>
  /\ rows' = rows \/ \E c \in Cancels : CancelSave(c)
  /\ Len(sess') = Len(sess)
  /\ sess'[s].at = sess[s].at /\ SameCourse(sess[s], sess'[s])
  /\ sess'[s].finished = sess[s].finished
  /\ \/ sess'[s].aborted = sess[s].aborted /\ sess'[s].stop = sess[s].stop
     \/ sess'[s].aborted /\ sess'[s].stop.at = "find"

\* A session that is alone is the only one to act until it is gone.
LEMMA Alone ==
  ASSUME StreamInv, Lives, Next, NEW s \in Sessions, sess'[s].alone, ~GoneOf(sess[s])
  PROVE  Acts(s) \/ Elsewhere(s)
<1>0. StreamTyped /\ Aged /\ Lives'
  BY LifeStep DEF StreamInv
<1>1. sess[s].alone
  BY <1>0 DEF Aged, Ages
<1>2. ASSUME NEW r \in Sessions, r # s PROVE GoneOf(sess[r]) /\ LifeOf(sess[r], r \in listening)
  <2>1. r < s \/ s < r
    BY <1>2 DEF Sessions
  <2> QED BY <1>1, <2>1 DEF Lives
<1>3. ASSUME NEW v \in Servers, StartSession(v) PROVE FALSE
  BY <1>0, <1>3, Starts DEF Gone, GoneOf
<1>4. ASSUME NEW r \in Sessions, Acts(r) PROVE Acts(s)
  <2>1. CASE r = s
    BY <1>4, <2>1
  <2>2. CASE r # s
    <3>1. /\ sess[r].clean /\ sess[r].at = "over" /\ sess[r].stop.at = "none"
      BY <1>2, <2>2 DEF GoneOf
    <3>2. ~ClearLog(r) /\ ~MarkActive(r) /\ ~Subscribe(r) /\ ~\E k \in Kinds : Receive(r, k)
      BY <3>1 DEF ClearLog, MarkActive, Subscribe, Receive
    <3>3. ~Insert(r) /\ ~Load(r) /\ ~Save(r) /\ ~Publish(r) /\ ~EndStream(r) /\ ~Quit(r)
      BY <3>1 DEF Insert, Load, Save, Publish, EndStream, Quit
    <3>4. ~CleanUp(r) /\ ~StopFind(r) /\ ~StopSave(r) /\ ~StopEnd(r)
      BY <3>1 DEF CleanUp, StopFind, StopSave, StopEnd
    <3> QED BY <1>4, <3>2, <3>3, <3>4 DEF Acts
  <2> QED BY <2>1, <2>2
<1>5. ASSUME NEW r \in Sessions, sess' = [sess EXCEPT ![r] = Stopping(@)],
             UNCHANGED <<rows, seq, log, active>>
      PROVE  Elsewhere(s)
  <2>1. Len(sess') = Len(sess) /\ sess'[s] = IF r = s THEN Stopping(sess[s]) ELSE sess[s]
    BY <1>0, <1>5 DEF StreamTyped, Sessions
  <2>2. PICK y : y = Stopping(sess[s])
    OBVIOUS
  <2>3. /\ SameCourse(sess[s], y) /\ y.at = sess[s].at /\ y.finished = sess[s].finished
        /\ y = sess[s] \/ (y.aborted /\ y.stop.at = "find")
    BY <2>2, SessAimed, Stops
  <2> QED BY <1>5, <2>1, <2>2, <2>3 DEF Elsewhere, SameCourse
<1>6. ASSUME NEW r \in Sessions, Hear(r) PROVE Elsewhere(s)
  BY <1>5, <1>6 DEF Hear
<1>7. ASSUME NEW c \in Cancels, CancelHere(c) PROVE Elsewhere(s)
  BY <1>5, <1>7 DEF CancelHere, Current
<1>8. ASSUME NEW c \in Cancels, CancelFind(c) \/ CancelSave(c) \/ CancelPublish(c)
      PROVE  Elsewhere(s)
  BY <1>8 DEF CancelFind, CancelSave, CancelPublish, Elsewhere, SameCourse
<1>9. ASSUME NEW c \in Cancels, NEW v \in Servers, Cancel(c, v) PROVE Elsewhere(s)
  <2>1. UNCHANGED <<rows, seq, log, active>>
    BY <1>9 DEF Cancel
  <2> QED BY <1>0, <1>9, <2>1, Covers DEF Elsewhere
<1> QED BY <1>3, <1>4, <1>6, <1>7, <1>8, <1>9 DEF Next, Acts

(* What a resumed stream reads: the log of a session that is alone holds what  *)
(* its subscribers have heard, and the numbers of its events grow.             *)
InHand == {"store", "save", "publish"}

Resumes(x, s, l, q, a, g) ==
  x.alone /\ ~x.finished =>
    /\ x.at \in {"open", "mark"} \/ a
    /\ x.at \in {"open", "mark", "subscribe"} => x.sent = <<>>
    /\ ~x.aborted /\ x.at # "open" /\ "ghost" \notin g =>
         /\ \A i \in DOMAIN l : /\ l[i].of = s /\ l[i].id <= q
                                /\ x.at \in InHand => l[i].id < q
         /\ x.sent = [i \in DOMAIN l |-> l[i].id]
         /\ x.at \in InHand => x.event = q

Resuming ==
  /\ \A s \in Sessions : Resumes(sess[s], s, log, seq, active, lapses)
  /\ active /\ "ghost" \notin lapses =>
       \E s \in Sessions : ~sess[s].clean /\ sess[s].at \notin {"open", "mark"}

\* The mark is of a session whose end is still to take it.
LEMMA MarkStep ==
  ASSUME StreamInv, Lives, Next, Resuming, active', "ghost" \notin lapses'
  PROVE  \E s \in Sessions' : ~sess'[s].clean /\ sess'[s].at \notin {"open", "mark"}
<1>0. StreamTyped /\ Aged /\ Lives'
  BY LifeStep DEF StreamInv
<1>1. ASSUME active' = active
      PROVE  \E s \in Sessions' : ~sess'[s].clean /\ sess'[s].at \notin {"open", "mark"}
  <2>1. "ghost" \notin lapses
    BY FlagStep
  <2> QED BY <1>0, <1>1, <2>1 DEF Resuming, Aged, Ages
<1>2. ASSUME NEW s \in Sessions, MarkActive(s)
      PROVE  \E r \in Sessions' : ~sess'[r].clean /\ sess'[r].at \notin {"open", "mark"}
  <2>1. ~sess[s].finished /\ sess' = [sess EXCEPT ![s].at = "subscribe"]
    BY <1>2 DEF MarkActive
  <2>2. "subscribe" \in Places
    BY DEF Places
  <2>3. PICK y : Becomes(s, y) /\ y.at = "subscribe" /\ SameFate(sess[s], y)
    BY <1>0, <2>1, <2>2, Advances
  <2>4. ~sess[s].clean
    BY <2>1 DEF Lives, LifeOf
  <2> QED BY <1>0, <2>3, <2>4 DEF Becomes, SameFate, Aged
<1>3. ASSUME NEW s \in Sessions, CleanUp(s) PROVE FALSE
  BY <1>3 DEF CleanUp
<1>4. ASSUME NEW s \in Sessions,
             \/ ClearLog(s) \/ Subscribe(s) \/ Insert(s) \/ Load(s) \/ Save(s) \/ Publish(s)
             \/ EndStream(s) \/ Quit(s) \/ StopFind(s) \/ StopSave(s) \/ StopEnd(s) \/ Hear(s)
             \/ \E k \in Kinds : Receive(s, k)
      PROVE  active' = active
  BY <1>4 DEF ClearLog, Subscribe, Insert, Load, Save, Publish, EndStream, Quit, StopFind,
              StopSave, StopEnd, Hear, Receive
<1>5. ASSUME NEW c \in Cancels,
             \/ \E v \in Servers : Cancel(c, v)
             \/ CancelHere(c) \/ CancelFind(c) \/ CancelSave(c) \/ CancelPublish(c)
      PROVE  active' = active
  BY <1>5 DEF Cancel, CancelHere, CancelFind, CancelSave, CancelPublish
<1>6. ASSUME NEW v \in Servers, StartSession(v) PROVE active' = active
  BY <1>6 DEF StartSession
<1> QED BY <1>1, <1>2, <1>3, <1>4, <1>5, <1>6 DEF Next
\* What a step may do to a session that leaves what a resumed stream reads alone.
LEMMA ResumesOn ==
  ASSUME NEW x, NEW y, NEW s, NEW l, NEW q, NEW a, NEW g, NEW h,
         Resumes(x, s, l, q, a, g), y.alone => x.alone, x.finished => y.finished,
         x.aborted => y.aborted, y.sent = x.sent, y.event = x.event, g \subseteq h,
         \/ y.at = x.at
         \/ x.at \in {"subscribe"} /\ y.at = "read"
         \/ x.at \in InHand /\ y.at \in InHand
         \/ x.at = "read" /\ y.at = "over"
  PROVE  Resumes(y, s, l, q, a, h)
<1> SUFFICES ASSUME y.alone, ~y.finished PROVE Resumes(y, s, l, q, a, h)
  BY DEF Resumes
<1>1. /\ x.at \in {"open", "mark"} \/ a
      /\ x.at \in {"open", "mark", "subscribe"} => x.sent = <<>>
  BY DEF Resumes
<1>2. /\ y.at \in {"open", "mark"} \/ a
      /\ y.at \in {"open", "mark", "subscribe"} => y.sent = <<>>
  BY <1>1 DEF InHand
<1>3. ASSUME ~y.aborted, y.at # "open", "ghost" \notin h
      PROVE  /\ \A i \in DOMAIN l : /\ l[i].of = s /\ l[i].id <= q
                                    /\ y.at \in InHand => l[i].id < q
             /\ y.sent = [i \in DOMAIN l |-> l[i].id]
             /\ y.at \in InHand => y.event = q
  <2>1. ~x.aborted /\ x.at # "open" /\ "ghost" \notin g
    BY <1>3 DEF InHand
  <2>2. /\ \A i \in DOMAIN l : /\ l[i].of = s /\ l[i].id <= q
                               /\ x.at \in InHand => l[i].id < q
        /\ x.sent = [i \in DOMAIN l |-> l[i].id]
        /\ x.at \in InHand => x.event = q
    BY <2>1 DEF Resumes
  <2>3. y.at \in InHand => x.at \in InHand
    BY DEF InHand
  <2> QED BY <2>2, <2>3
<1> QED BY <1>2, <1>3 DEF Resumes

\* What is published of a session that is not stopped comes to the log.
LEMMA Publishing ==
  ASSUME NEW s, log \in Seq(LogSet), seq \in Nat, NEW x \in SessSet, NEW y, NEW k,
         Resumes(x, s, log, seq, active, lapses), x.alone, ~x.finished, ~x.aborted,
         x.at = "publish", "ghost" \notin lapses,
         y.sent = Append(x.sent, x.event), y.at = "read",
         log' = Logged([id |-> x.event, of |-> s, kind |-> k])
  PROVE  /\ \A i \in DOMAIN log' : log'[i].of = s /\ log'[i].id <= seq
         /\ y.sent = [i \in DOMAIN log' |-> log'[i].id]
<1>1. /\ \A i \in DOMAIN log : log[i].of = s /\ log[i].id < seq
      /\ x.sent = [i \in DOMAIN log |-> log[i].id]
      /\ x.event = seq
  BY DEF Resumes, InHand
<1>2. PICK e : e = [id |-> x.event, of |-> s, kind |-> k]
  OBVIOUS
<1>3. e.id = seq /\ e.of = s
  BY <1>1, <1>2
<1>4. PICK n \in Nat : n = Len(log) /\ DOMAIN log = 1..n
  OBVIOUS
<1>5. log' = Append(log, e)
  <2>1. log = <<>> \/ log[Len(log)].id < e.id
    <3>1. CASE n = 0
      BY <1>4, <3>1
    <3>2. CASE n # 0
      BY <1>1, <1>3, <1>4, <3>2
    <3> QED BY <3>1, <3>2
  <2> QED BY <1>2, <2>1 DEF Logged
<1>6. /\ DOMAIN log' = 1..(n + 1) /\ log'[n + 1] = e
      /\ \A i \in 1..n : log'[i] = log[i]
  BY <1>4, <1>5
<1>7. ASSUME NEW i \in 1..(n + 1) PROVE log'[i].of = s /\ log'[i].id <= seq
  <2>1. CASE i = n + 1
    BY <1>3, <1>6, <2>1
  <2>2. CASE i # n + 1
    <3>1. i \in 1..n
      BY <2>2
    <3>2. log[i].id \in Nat
      <4>1. log[i] \in LogSet
        BY <1>4, <3>1
      <4> QED BY <4>1 DEF LogSet
    <3> QED BY <1>1, <1>4, <1>6, <3>1, <3>2
  <2> QED BY <2>1, <2>2
<1>8. y.sent = [i \in 1..(n + 1) |-> log'[i].id]
  <2>1. x.sent \in Seq(Nat) /\ x.event \in Nat
    BY DEF SessSet
  <2>2. Len(x.sent) = n /\ \A i \in 1..n : x.sent[i] = log[i].id
    BY <1>1, <1>4, <2>1
  <2>3. /\ y.sent = [i \in 1..(n + 1) |-> y.sent[i]]
        /\ y.sent[n + 1] = x.event
        /\ \A i \in 1..n : y.sent[i] = x.sent[i]
    BY <2>1, <2>2
  <2>4. ASSUME NEW i \in 1..(n + 1) PROVE y.sent[i] = log'[i].id
    <3>1. CASE i = n + 1
      BY <1>1, <1>3, <1>6, <2>3, <3>1
    <3>2. CASE i # n + 1
      <4>1. i \in 1..n
        BY <3>2
      <4>2. y.sent[i] = log[i].id
        BY <2>2, <2>3, <4>1
      <4>3. log'[i] = log[i]
        BY <1>6, <4>1
      <4> QED BY <4>2, <4>3
    <3> QED BY <3>1, <3>2
  <2> QED BY <2>3, <2>4
<1> QED BY <1>6, <1>7, <1>8

\* Every step keeps the log of a session that is alone.
LEMMA ResumeStep == StreamInv /\ Lives /\ Resuming /\ [Next]_vars => Resuming'
<1> SUFFICES ASSUME StreamInv, Lives, Resuming, Next PROVE Resuming'
  BY DEF vars, Resuming, Sessions
<1>0. /\ StreamTyped /\ Aged /\ Lives' /\ log \in Seq(LogSet) /\ seq \in Nat
  BY LifeStep DEF StreamInv, StreamTyped
<1>a. \A i \in DOMAIN log : log[i].id \in Nat
  <2>1. \A i \in DOMAIN log : log[i] \in LogSet
    BY <1>0
  <2> QED BY <2>1 DEF LogSet
<1>1. SUFFICES ASSUME NEW s \in Sessions', sess'[s].alone, ~sess'[s].finished
               PROVE  Resumes(sess'[s], s, log', seq', active', lapses')
  BY MarkStep DEF Resuming, Resumes
<1>2. CASE s \notin Sessions
  <2>1. PICK x : x = Fresh(sess'[s].server)
    OBVIOUS
  <2>2. x.at = "open" /\ x.sent = <<>>
    BY <2>1 DEF Fresh
  <2>3. sess'[s] = x
    BY <1>0, <1>2, <2>1 DEF Aged
  <2> QED BY <2>2, <2>3 DEF Resumes
<1>3. CASE s \in Sessions
  <2>1. /\ Ages(sess[s], sess'[s]) /\ sess[s].alone /\ ~sess[s].finished
        /\ ~sess[s].clean /\ ~GoneOf(sess[s])
    BY <1>0, <1>1, <1>3 DEF Aged, Ages, Lives, LifeOf, GoneOf
  <2>2. /\ sess[s] \in SessSet /\ Resumes(sess[s], s, log, seq, active, lapses)
        /\ LifeOf(sess[s], s \in listening)
    BY <1>3, SessAimed DEF Resuming, Lives
  <2>a. lapses \subseteq lapses'
    BY FlagStep
  <2>3. CASE Elsewhere(s)
    BY <2>1, <2>2, <2>a, <2>3, ResumesOn DEF Elsewhere, SameCourse, Ages
  <2>4. ASSUME NEW y, Becomes(s, y), y.sent = sess[s].sent, y.event = sess[s].event,
               UNCHANGED <<log, seq, active>>, lapses \subseteq lapses',
               \/ y.at = sess[s].at
               \/ sess[s].at \in {"subscribe"} /\ y.at = "read"
               \/ sess[s].at \in InHand /\ y.at \in InHand
               \/ sess[s].at = "read" /\ y.at = "over"
        PROVE  Resumes(sess'[s], s, log', seq', active', lapses')
    BY <2>1, <2>2, <2>4, ResumesOn DEF Becomes, Ages
  <2>5. CASE ClearLog(s)
    <3>1. "mark" \in Places
      BY DEF Places
    <3>2. PICK y : Becomes(s, y) /\ y.at = "mark" /\ SameCourse(sess[s], y)
      BY <1>0, <1>3, <2>5, <3>1, Advances DEF ClearLog
    <3>3. sess[s].at = "open" /\ lapses' = lapses /\ y.sent = <<>>
      BY <2>1, <2>2, <2>5, <3>2 DEF ClearLog, Resumes, SameCourse
    <3>4. ASSUME "ghost" \notin lapses PROVE log' = <<>>
      <4>1. CASE active
        <5>1. PICK r \in Sessions : ~sess[r].clean /\ sess[r].at \notin {"open", "mark"}
          BY <3>4, <4>1 DEF Resuming
        <5>2. r < s \/ s < r
          BY <1>3, <3>3, <5>1 DEF Sessions
        <5> QED BY <1>3, <2>1, <5>1, <5>2 DEF Lives, GoneOf
      <4>2. CASE ~active
        BY <2>5, <4>2 DEF ClearLog
      <4> QED BY <4>1, <4>2
    <3>5. sess'[s] = y
      BY <3>2 DEF Becomes
    <3>6. ASSUME "ghost" \notin lapses
          PROVE  /\ \A i \in DOMAIN log' : /\ log'[i].of = s /\ log'[i].id <= seq'
                                           /\ y.at \in InHand => log'[i].id < seq'
                 /\ y.sent = [i \in DOMAIN log' |-> log'[i].id]
      <4>1. log' = <<>> /\ DOMAIN log' = {}
        BY <3>4, <3>6
      <4>2. [i \in DOMAIN log' |-> log'[i].id] = <<>>
        BY <4>1
      <4> QED BY <3>3, <4>1, <4>2
    <3> QED BY <3>2, <3>3, <3>5, <3>6 DEF Resumes, InHand
  <2>6. CASE MarkActive(s)
    <3>1. "subscribe" \in Places
      BY DEF Places
    <3>2. PICK y : Becomes(s, y) /\ y.at = "subscribe" /\ SameCourse(sess[s], y)
                   /\ SameFate(sess[s], y)
      BY <1>0, <1>3, <2>6, <3>1, Advances DEF MarkActive
    <3>3. /\ sess[s].at = "mark" /\ lapses \subseteq lapses' /\ active' /\ UNCHANGED <<log, seq>>
      BY <2>6 DEF MarkActive
    <3>4. y.sent = sess[s].sent /\ y.sent = <<>> /\ y.aborted = sess[s].aborted
      BY <2>1, <2>2, <3>2, <3>3 DEF Resumes, SameCourse, SameFate
    <3>5. sess'[s] = y
      BY <3>2 DEF Becomes
    <3>6. ASSUME ~y.aborted, "ghost" \notin lapses'
          PROVE  /\ \A i \in DOMAIN log : /\ log[i].of = s /\ log[i].id <= seq
                 /\ y.sent = [i \in DOMAIN log |-> log[i].id]
      BY <2>1, <2>2, <3>3, <3>4, <3>6 DEF Resumes
    <3> QED BY <3>2, <3>3, <3>4, <3>5, <3>6 DEF Resumes, InHand
  <2>7. CASE Subscribe(s)
    <3>1. "read" \in Places
      BY DEF Places
    <3>2. PICK y : Becomes(s, y) /\ y.at = "read" /\ SameCourse(sess[s], y)
      BY <1>0, <1>3, <2>7, <3>1, Advances DEF Subscribe
    <3> QED BY <2>4, <2>7, <3>2 DEF Subscribe, SameCourse
  <2>8. ASSUME NEW k \in Kinds, Receive(s, k)
        PROVE  Resumes(sess'[s], s, log', seq', active', lapses')
    <3>1. sess[s].at = "read" /\ UNCHANGED <<active, log, lapses>>
      BY <2>8 DEF Receive
    <3>2. CASE flag
      <4>1. PICK y : y = Stopping(sess[s])
        OBVIOUS
      <4>2. sess'[s] = y /\ seq' = seq
        BY <1>0, <1>3, <2>8, <3>2, <4>1 DEF Receive, Canceled, StreamTyped, Sessions
      <4>3. SameCourse(sess[s], y) /\ y.at = "read"
        BY <2>2, <3>1, <4>1, Stops
      <4> QED BY <2>1, <2>2, <3>1, <4>2, <4>3, ResumesOn DEF SameCourse, Ages
    <3>3. CASE ~flag
      <4>1. PICK a : a = IF Stores(sess[s], k) THEN "store" ELSE "publish"
        OBVIOUS
      <4>2. a \in Places /\ a \in InHand
        BY <4>1 DEF Places, InHand
      <4>3. sess' = Taken(s, a, k) /\ seq' = seq + 1
        BY <2>8, <3>3, <4>1 DEF Receive, Canceled, Taken
      <4>4. PICK y : /\ Becomes(s, y) /\ y.at = a /\ y.chunk = k /\ y.event = seq + 1
                     /\ y.msg = sess[s].msg /\ y.snap = sess[s].snap
                     /\ y.sent = sess[s].sent /\ SameFate(sess[s], y)
        BY <1>0, <1>3, <4>2, <4>3, Receives
      <4>5. sess'[s] = y /\ y.aborted = sess[s].aborted
        BY <4>4 DEF Becomes, SameFate
      <4>6. ASSUME ~y.aborted, "ghost" \notin lapses
            PROVE  /\ \A i \in DOMAIN log : log[i].of = s /\ log[i].id < seq + 1
                   /\ y.sent = [i \in DOMAIN log |-> log[i].id]
        <5>1. /\ \A i \in DOMAIN log : log[i].of = s /\ log[i].id <= seq
              /\ sess[s].sent = [i \in DOMAIN log |-> log[i].id]
          BY <2>1, <2>2, <3>1, <4>5, <4>6 DEF Resumes
        <5> QED BY <1>0, <1>a, <4>4, <5>1
      <4>7. active
        BY <2>1, <2>2, <3>1 DEF Resumes
      <4>8. \A i \in DOMAIN log : log[i].id < seq + 1 => log[i].id <= seq + 1
        BY <1>0, <1>a
      <4> QED BY <3>1, <4>2, <4>3, <4>4, <4>5, <4>6, <4>7, <4>8 DEF Resumes, InHand
    <3> QED BY <3>2, <3>3
  <2>9. CASE Insert(s)
    <3>1. PICK y : /\ Becomes(s, y) /\ y.at = "publish" /\ y.event = sess[s].event
                   /\ y.sent = sess[s].sent
      BY <1>0, <1>3, <2>9, Inserts
    <3> QED BY <2>4, <2>9, <3>1 DEF Insert, InHand
  <2>10. CASE Load(s)
    <3>1. sess[s].at = "store" /\ UNCHANGED <<log, seq, active, lapses>>
      BY <2>10 DEF Load
    <3>2. CASE sess' = [sess EXCEPT ![s].at = "publish"]
      <4>1. "publish" \in Places
        BY DEF Places
      <4>2. PICK y : Becomes(s, y) /\ y.at = "publish" /\ SameCourse(sess[s], y)
        BY <1>0, <1>3, <3>2, <4>1, Advances
      <4> QED BY <2>4, <3>1, <4>2 DEF SameCourse, InHand
    <3>3. CASE sess' = [sess EXCEPT ![s].at = "save", ![s].snap = rows[sess[s].msg]]
      <4>1. PICK row : row = rows[sess[s].msg]
        OBVIOUS
      <4>2. row \in SnapSet
        <5>1. sess[s].msg \in Messages
          BY <1>3, <2>10, SessAimed DEF Aimed, Load, Messages
        <5> QED BY <1>0, <4>1, <5>1, RowTyped DEF StreamTyped, SnapSet
      <4>3. PICK y : /\ Becomes(s, y) /\ y.at = "save" /\ y.event = sess[s].event
                     /\ y.sent = sess[s].sent
        <5>1. sess' = [sess EXCEPT ![s].at = "save", ![s].snap = row]
          BY <3>3, <4>1
        <5> QED BY <1>0, <1>3, <4>2, <5>1, Loads
      <4> QED BY <2>4, <3>1, <4>3 DEF InHand
    <3> QED BY <2>10, <3>2, <3>3 DEF Load
  <2>11. CASE Save(s)
    <3>1. PICK m : m = IF sess[s].chunk = "eos" THEN 0 ELSE sess[s].msg
      OBVIOUS
    <3>2. m \in Nat
      BY <2>2, <3>1 DEF SessSet
    <3>3. sess' = [sess EXCEPT ![s].at = "publish", ![s].snap = NoRow, ![s].msg = m]
      BY <2>11, <3>1 DEF Save
    <3>4. PICK y : /\ Becomes(s, y) /\ y.at = "publish" /\ y.event = sess[s].event
                   /\ y.sent = sess[s].sent
      BY <1>0, <1>3, <3>2, <3>3, Saves
    <3> QED BY <2>4, <2>11, <3>4 DEF Save, InHand
  <2>12. CASE Publish(s)
    <3>1. PICK e : e = Append(sess[s].sent, sess[s].event)
      OBVIOUS
    <3>2. e \in Seq(Nat)
      BY <2>2, <3>1 DEF SessSet
    <3>3. /\ sess' = [sess EXCEPT ![s].at = "read", ![s].event = 0, ![s].sent = e]
          /\ log' = Logged([id |-> sess[s].event, of |-> s, kind |-> sess[s].chunk])
          /\ sess[s].at = "publish" /\ UNCHANGED <<seq, active, lapses>>
      BY <2>1, <2>12, <3>1 DEF Publish
    <3>4. PICK y : /\ Becomes(s, y) /\ y.at = "read" /\ y.sent = e /\ SameFate(sess[s], y)
      BY <1>0, <1>3, <3>2, <3>3, Publishes
    <3>5. sess'[s] = y /\ y.aborted = sess[s].aborted
      BY <3>4 DEF Becomes, SameFate
    <3>6. ASSUME ~y.aborted, "ghost" \notin lapses
          PROVE  /\ \A i \in DOMAIN log' : log'[i].of = s /\ log'[i].id <= seq
                 /\ y.sent = [i \in DOMAIN log' |-> log'[i].id]
      <4>1. y.sent = Append(sess[s].sent, sess[s].event)
        BY <3>1, <3>4
      <4> QED BY <1>0, <2>1, <2>2, <3>3, <3>4, <3>5, <3>6, <4>1, Publishing, ZenonT(40)
    <3>7. active
      BY <2>1, <2>2, <3>3 DEF Resumes
    <3> QED BY <3>3, <3>4, <3>5, <3>6, <3>7 DEF Resumes, InHand
  <2>13. CASE EndStream(s)
    <3>1. PICK y : Becomes(s, y) /\ y.finished = TRUE
      BY <1>0, <1>3, <2>13, Ends
    <3> QED BY <1>1, <3>1 DEF Becomes
  <2>14. CASE Quit(s)
    <3>1. PICK y : /\ Becomes(s, y) /\ y.at = "over" /\ y.event = sess[s].event
                   /\ y.sent = sess[s].sent
      BY <1>0, <1>3, <2>14, Quits
    <3> QED BY <2>4, <2>14, <3>1 DEF Quit
  <2>15. CASE CleanUp(s)
    BY <2>1, <2>15 DEF CleanUp
  <2>16. ASSUME NEW p \in StopSet, sess' = [sess EXCEPT ![s].stop = p],
                UNCHANGED <<log, seq, active, lapses>>
         PROVE  Resumes(sess'[s], s, log', seq', active', lapses')
    <3>1. PICK y : y = [sess[s] EXCEPT !.stop = p]
      OBVIOUS
    <3>2. /\ y \in SessSet /\ SameEver(sess[s], y) /\ y.at = sess[s].at
          /\ y.event = sess[s].event /\ y.sent = sess[s].sent
      BY <2>2, <3>1 DEF SessSet, SameEver
    <3>3. sess' = [sess EXCEPT ![s] = y]
      BY <2>16, <3>1
    <3>4. Becomes(s, y)
      BY <1>0, <1>3, <3>2, <3>3, Becoming DEF StreamTyped
    <3> QED BY <2>4, <2>16, <3>2, <3>4
  <2>17. CASE StopFind(s)
    <3>1. sess[s].stop \in StopSet
      BY <2>2 DEF SessSet
    <3>2. CASE LatestOpen = 0
      <4>1. [sess[s].stop EXCEPT !.at = "publish"] \in StopSet
        BY <3>1 DEF StopSet
      <4> QED BY <2>16, <2>17, <3>2, <4>1 DEF StopFind
    <3>3. CASE LatestOpen # 0
      <4>1. LatestOpen \in Messages
        BY <1>0, <3>3, LatestFound DEF StreamTyped
      <4>2. LatestOpen \in Nat /\ rows[LatestOpen] \in SnapSet
        BY <1>0, <4>1, RowTyped DEF StreamTyped, SnapSet, Messages
      <4>3. [at |-> "save", msg |-> LatestOpen, snap |-> rows[LatestOpen]] \in StopSet
        BY <4>2 DEF StopSet
      <4> QED BY <2>16, <2>17, <3>3, <4>3 DEF StopFind
    <3> QED BY <3>2, <3>3
  <2>18. CASE StopSave(s)
    <3>1. [NoStop EXCEPT !.at = "publish"] \in StopSet
      BY DEF StopSet, NoStop, SnapSet
    <3> QED BY <2>16, <2>18, <3>1 DEF StopSave
  <2>19. CASE StopEnd(s)
    <3>1. PICK y : Becomes(s, y) /\ y.finished = TRUE
      BY <1>0, <1>3, <2>19, StopEnds
    <3> QED BY <1>1, <3>1 DEF Becomes
  <2> QED BY <1>1, <1>3, <2>1, <2>3, <2>5, <2>6, <2>7, <2>8, <2>9, <2>10, <2>11, <2>12, <2>13,
             <2>14, <2>15, <2>17, <2>18, <2>19, Alone DEF Acts
<1> QED BY <1>2, <1>3
(* What becomes of the messages of a session that is alone: one that is open   *)
(* is the last message, and the session is at it, or a stop of the session is  *)
(* to settle it.                                                               *)
Loose(R, m) == R[m].status \in Open /\ ~R[m].lapse

Settling(x, s, R) ==
  x.alone =>
    /\ \A m \in 1..Len(R) :
         R[m].of = s /\ Loose(R, m) =>
           /\ m = Len(R)
           /\ x.at # "over" => x.msg = m
           /\ \/ ~x.aborted /\ x.at # "over"
              \/ x.aborted /\ x.stop.at = "find"
              \/ x.aborted /\ x.stop.at = "save" /\ x.stop.msg = m
    /\ x.at = "save" /\ x.chunk = "delta" => x.snap.status \in Open

SettlingAll == \A s \in Sessions : Settling(sess[s], s, rows)

\* Nobody else opens a message of a session.
LEMMA LooseStays ==
  ASSUME StreamInv, Next, NEW s, s \in Sessions => ~Insert(s) /\ ~Save(s),
         NEW m \in Messages', rows'[m].of = s, Loose(rows', m)
  PROVE  m \in Messages /\ rows[m].of = s /\ Loose(rows, m)
<1>0. rows \in Seq(RowSet) /\ Len(rows) \in Nat
  BY DEF StreamInv, StreamTyped
<1>1. CASE rows' = rows
  BY <1>1 DEF Messages, Loose
<1>2. ASSUME NEW n \in Messages, NEW w, RowBecomes(n, w), w.of = rows[n].of,
             rows[n].of = s /\ Loose(rows', n) => Loose(rows, n)
      PROVE  m \in Messages /\ rows[m].of = s /\ Loose(rows, m)
  <2>1. m \in Messages
    BY <1>2 DEF RowBecomes, Messages
  <2>2. CASE m = n
    BY <1>2, <2>2 DEF RowBecomes
  <2>3. CASE m # n
    BY <1>2, <2>1, <2>3 DEF RowBecomes, Loose
  <2> QED BY <2>1, <2>2, <2>3
<1>3. ASSUME NEW r \in Sessions, NEW k \in Kinds, Receive(r, k)
      PROVE  m \in Messages /\ rows[m].of = s /\ Loose(rows, m)
  <2>1. CASE k = "delta" /\ ~flag
    <3>1. PICK w : /\ RowBecomes(sess[r].msg, w) /\ w.status = rows[sess[r].msg].status
                   /\ w.of = r /\ w.lapse = rows[sess[r].msg].lapse
      BY <1>3, <2>1, Gives
    <3>2. Loose(rows', sess[r].msg) => Loose(rows, sess[r].msg)
      BY <3>1 DEF RowBecomes, Loose
    <3> QED BY <1>2, <1>3, <2>1, <3>1, <3>2, Gives
  <2>2. CASE k # "delta" \/ flag
    BY <1>1, <1>3, <2>2 DEF Receive, Canceled
  <2> QED BY <2>1, <2>2
<1>4. ASSUME NEW r \in Sessions, Insert(r)
      PROVE  m \in Messages /\ rows[m].of = s /\ Loose(rows, m)
  <2>1. /\ Len(rows') = Len(rows) + 1 /\ \A n \in Messages : rows'[n] = rows[n]
        /\ rows'[Len(rows) + 1].of = r
    BY <1>4, InsertsRow
  <2>2. m # Len(rows) + 1
    BY <1>4, <2>1
  <2>3. m \in Messages
    BY <1>0, <2>1, <2>2 DEF Messages
  <2> QED BY <2>1, <2>3 DEF Loose
<1>5. ASSUME NEW r \in Sessions, Save(r)
      PROVE  m \in Messages /\ rows[m].of = s /\ Loose(rows, m)
  <2>1. PICK w : RowBecomes(sess[r].msg, w) /\ w.of = r
    BY <1>5, SavesRow
  <2>2. sess[r].msg \in Messages /\ rows[sess[r].msg].of = r /\ r # s
    BY <1>5, SavesRow
  <2> QED BY <1>2, <2>1, <2>2
<1>6. ASSUME NEW r \in Sessions, EndStream(r)
      PROVE  m \in Messages /\ rows[m].of = s /\ Loose(rows, m)
  <2>1. CASE rows' # rows
    <3>1. PICK n \in Messages : n = sess[r].msg /\ rows[n].of = r
      BY <1>6, <2>1, EndsRow
    <3>2. PICK w : RowBecomes(n, w) /\ w.of = r /\ w.lapse = TRUE
      BY <1>6, <2>1, <3>1, EndsRow
    <3>3. w.of = rows[n].of /\ ~Loose(rows', n)
      BY <3>1, <3>2 DEF RowBecomes, Loose
    <3> QED BY <1>2, <3>2, <3>3
  <2> QED BY <1>1, <2>1
<1>7. ASSUME NEW n \in Messages, NEW p \in RowSet, p.of = rows[n].of,
             rows' = Saved(n, [p EXCEPT !.status = "stopped"])
      PROVE  m \in Messages /\ rows[m].of = s /\ Loose(rows, m)
  <2>1. PICK w : RowBecomes(n, w) /\ w.status = "stopped" /\ w.of = rows[n].of
    BY <1>7, Settles
  <2>2. ~Loose(rows', n)
    BY <2>1 DEF Open, RowBecomes, Loose
  <2> QED BY <1>2, <2>1, <2>2
<1>8. ASSUME NEW r \in Sessions, StopSave(r)
      PROVE  m \in Messages /\ rows[m].of = s /\ Loose(rows, m)
  <2>1. Read(sess[r].stop, rows)
    BY SessAimed
  <2>2. /\ sess[r].stop.msg \in Messages /\ sess[r].stop.snap \in RowSet
        /\ sess[r].stop.snap.of = rows[sess[r].stop.msg].of
    BY <1>8, <2>1 DEF StopSave, Read, Messages
  <2> QED BY <1>7, <1>8, <2>2 DEF StopSave
<1>9. ASSUME NEW c \in Cancels, CancelSave(c)
      PROVE  m \in Messages /\ rows[m].of = s /\ Loose(rows, m)
  <2>1. Read(cancels[c], rows)
    BY DEF StreamInv, Pointed
  <2>2. /\ cancels[c].msg \in Messages /\ cancels[c].snap \in RowSet
        /\ cancels[c].snap.of = rows[cancels[c].msg].of
    BY <1>9, <2>1 DEF CancelSave, Read, Messages
  <2> QED BY <1>7, <1>9, <2>2 DEF CancelSave
<1>10. ASSUME NEW v \in Servers, StartSession(v) PROVE rows' = rows
  BY <1>10 DEF StartSession
<1>11. ASSUME NEW r \in Sessions,
              \/ ClearLog(r) \/ MarkActive(r) \/ Subscribe(r) \/ Load(r) \/ Publish(r) \/ Quit(r)
              \/ CleanUp(r) \/ StopFind(r) \/ StopEnd(r) \/ Hear(r)
       PROVE  rows' = rows
  BY <1>11 DEF ClearLog, MarkActive, Subscribe, Load, Publish, Quit, CleanUp, StopFind, StopEnd,
               Hear
<1>12. ASSUME NEW c \in Cancels,
              \/ \E v \in Servers : Cancel(c, v)
              \/ CancelHere(c) \/ CancelFind(c) \/ CancelPublish(c)
       PROVE  rows' = rows
  BY <1>12 DEF Cancel, CancelHere, CancelFind, CancelPublish
<1> QED BY <1>1, <1>3, <1>4, <1>5, <1>6, <1>8, <1>9, <1>10, <1>11, <1>12 DEF Next

\* A step that opens nothing, and leaves the session at its message.
LEMMA SettlesOn ==
  ASSUME NEW x, NEW y, NEW s, NEW R, NEW T, Settling(x, s, R), y.alone => x.alone,
         Len(T) = Len(R),
         \A m \in 1..Len(T) : T[m].of = s /\ Loose(T, m) => R[m].of = s /\ Loose(R, m),
         y.at = "over" \/ (x.at # "over" /\ y.msg = x.msg),
         y.at = "over" => x.at = "over" \/ x.aborted,
         \/ y.aborted = x.aborted /\ y.stop = x.stop
         \/ y.aborted /\ y.stop.at = "find",
         y.at = "save" => x.at = "save" /\ y.chunk = x.chunk /\ y.snap = x.snap
  PROVE  Settling(y, s, T)
BY DEF Settling
\* Every step keeps an open message the last one, and in somebody's hands.
LEMMA SettleStep == StreamInv /\ Lives /\ SettlingAll /\ [Next]_vars => SettlingAll'
<1> SUFFICES ASSUME StreamInv, Lives, SettlingAll, Next PROVE SettlingAll'
  BY DEF vars, SettlingAll, Sessions
<1>0. /\ StreamTyped /\ Aged /\ Lives' /\ Len(rows) \in Nat /\ rows \in Seq(RowSet)
  BY LifeStep DEF StreamInv, StreamTyped
<1>1. SUFFICES ASSUME NEW s \in Sessions', sess'[s].alone PROVE Settling(sess'[s], s, rows')
  BY DEF SettlingAll, Settling
<1>2. ASSUME \A m \in Messages' : ~(rows'[m].of = s /\ Loose(rows', m)),
             sess'[s].at = "save" => sess'[s].chunk # "delta"
      PROVE  Settling(sess'[s], s, rows')
  BY <1>2 DEF Settling, Messages
<1>3. CASE s \notin Sessions
  <2>1. \A m \in Messages' : ~(rows'[m].of = s /\ Loose(rows', m))
    BY <1>3, LooseStays DEF StreamInv, Pointed
  <2>2. sess'[s].at # "save"
    <3>1. Fresh(sess'[s].server).at = "open"
      BY DEF Fresh
    <3> QED BY <1>0, <1>3, <3>1 DEF Aged
  <2> QED BY <1>2, <2>1, <2>2
<1>4. ASSUME s \in Sessions
      PROVE  /\ sess[s].alone /\ Settling(sess[s], s, rows) /\ LifeOf(sess[s], s \in listening)
             /\ sess[s] \in SessSet /\ Aimed(sess[s], s, rows) /\ Read(sess[s].stop, rows)
  BY <1>0, <1>1, <1>4, SessAimed DEF Aged, Ages, SettlingAll, Lives
<1>5. CASE s \in Sessions /\ GoneOf(sess[s])
  <2>1. sess[s].at = "over" /\ sess[s].stop.at = "none" /\ sess'[s].at = "over"
    BY <1>0, <1>5 DEF GoneOf, Aged, Ages
  <2>2. ~Insert(s) /\ ~Save(s)
    BY <2>1 DEF Insert, Save
  <2>3. \A m \in Messages : ~(rows[m].of = s /\ Loose(rows, m))
    BY <1>4, <1>5, <2>1 DEF Settling, Messages
  <2> QED BY <1>2, <1>5, <2>1, <2>2, <2>3, LooseStays
<1>6. CASE s \in Sessions /\ ~GoneOf(sess[s])
  <2>0. /\ sess[s].alone /\ Settling(sess[s], s, rows) /\ LifeOf(sess[s], s \in listening)
        /\ sess[s] \in SessSet /\ Aimed(sess[s], s, rows) /\ Read(sess[s].stop, rows)
    BY <1>4, <1>6
  <2>a. sess[s].stop \in StopSet /\ sess[s].msg \in Nat
    BY <2>0 DEF SessSet
  <2>b. ASSUME ~Insert(s), ~Save(s)
        PROVE  \A m \in Messages' : rows'[m].of = s /\ Loose(rows', m) =>
                 m \in Messages /\ rows[m].of = s /\ Loose(rows, m)
    BY <1>6, <2>b, LooseStays
  <2>1. ASSUME ~Insert(s), ~Save(s), Len(rows') = Len(rows), NEW y, y = sess'[s],
               y.at = "over" \/ (sess[s].at # "over" /\ y.msg = sess[s].msg),
               y.at = "over" => sess[s].at = "over" \/ sess[s].aborted,
               \/ y.aborted = sess[s].aborted /\ y.stop = sess[s].stop
               \/ y.aborted /\ y.stop.at = "find",
               y.at = "save" => sess[s].at = "save" /\ y.chunk = sess[s].chunk /\ y.snap = sess[s].snap
        PROVE  Settling(sess'[s], s, rows')
    BY <1>1, <2>0, <2>1, <2>b, SettlesOn DEF Messages
  <2>2. CASE Elsewhere(s)
    <3>1. ~Insert(s) /\ ~Save(s) /\ Len(rows') = Len(rows)
      <4>1. rows' = rows \/ \E c \in Cancels : CancelSave(c)
        BY <2>2 DEF Elsewhere
      <4>2. ASSUME NEW c \in Cancels, CancelSave(c) PROVE Len(rows') = Len(rows)
        BY <1>0, <4>2 DEF CancelSave, Saved
      <4>3. sess'[s].at = sess[s].at
        BY <2>2 DEF Elsewhere
      <4>4. ASSUME Insert(s) PROVE FALSE
        BY <1>0, <1>6, <4>3, <4>4, Inserts DEF Insert, Becomes
      <4>5. ASSUME Save(s) PROVE FALSE
        <5>1. PICK m : m = IF sess[s].chunk = "eos" THEN 0 ELSE sess[s].msg
          OBVIOUS
        <5>2. m \in Nat
          BY <2>a, <5>1
        <5>3. sess' = [sess EXCEPT ![s].at = "publish", ![s].snap = NoRow, ![s].msg = m]
          BY <4>5, <5>1 DEF Save
        <5>4. PICK y : Becomes(s, y) /\ y.at = "publish"
          BY <1>0, <1>6, <5>2, <5>3, Saves
        <5> QED BY <4>3, <4>5, <5>4 DEF Save, Becomes
      <4> QED BY <4>1, <4>2, <4>4, <4>5
    <3>2. PICK y : y = sess'[s]
      OBVIOUS
    <3>3. /\ y.at = sess[s].at /\ y.msg = sess[s].msg /\ y.chunk = sess[s].chunk
          /\ y.snap = sess[s].snap
          /\ \/ y.aborted = sess[s].aborted /\ y.stop = sess[s].stop
             \/ y.aborted /\ y.stop.at = "find"
      BY <2>2, <3>2 DEF Elsewhere, SameCourse
    <3> QED BY <2>1, <3>1, <3>2, <3>3
  <2>3. ASSUME NEW y, Becomes(s, y), rows' = rows, sess[s].at # "over", sess[s].at # "store" \/ sess[s].chunk # "bos",
               sess[s].at # "save",
               y.at = "over" => sess[s].aborted, y.at # "save",
               y.at # "over" => y.msg = sess[s].msg,
               SameFate(sess[s], y)
        PROVE  Settling(sess'[s], s, rows')
    <3>1. ~Insert(s) /\ ~Save(s)
      BY <2>3 DEF Insert, Save
    <3>2. y = sess'[s] /\ y.aborted = sess[s].aborted /\ y.stop = sess[s].stop
      BY <2>3 DEF Becomes, SameFate
    <3> QED BY <2>1, <2>3, <3>1, <3>2
  <2>4. ASSUME NEW a \in Places, a \notin {"save", "over"}, sess' = [sess EXCEPT ![s].at = a],
               rows' = rows, sess[s].at \notin {"over", "save"}, sess[s].at # "store" \/ sess[s].chunk # "bos"
        PROVE  Settling(sess'[s], s, rows')
    <3>1. PICK y : /\ Becomes(s, y) /\ y.at = a /\ SameCourse(sess[s], y) /\ SameFate(sess[s], y)
      BY <1>0, <1>6, <2>4, Advances
    <3>2. y.msg = sess[s].msg
      BY <3>1 DEF SameCourse
    <3> QED BY <2>3, <2>4, <3>1, <3>2
  <2>5. CASE ClearLog(s) \/ MarkActive(s) \/ Subscribe(s)
    <3>1. {"mark", "subscribe", "read"} \subseteq Places
      BY DEF Places
    <3> QED BY <2>4, <2>5, <3>1 DEF ClearLog, MarkActive, Subscribe
  <2>6. ASSUME NEW k \in Kinds, Receive(s, k) PROVE Settling(sess'[s], s, rows')
    <3>1. /\ sess[s].at = "read" /\ ~sess[s].aborted /\ ~sess[s].finished
          /\ ~Insert(s) /\ ~Save(s)
      BY <2>6 DEF Receive, Insert, Save
    <3>2. CASE flag
      <4>1. PICK y : y = Stopping(sess[s])
        OBVIOUS
      <4>2. sess'[s] = y /\ rows' = rows
        BY <1>0, <1>6, <2>6, <3>2, <4>1 DEF Receive, Canceled, StreamTyped, Sessions
      <4>3. SameCourse(sess[s], y) /\ y.at = "read" /\ y.aborted /\ y.stop.at = "find"
        BY <2>0, <3>1, <4>1, Stops
      <4> QED BY <2>1, <3>1, <4>2, <4>3 DEF SameCourse
    <3>3. CASE ~flag
      <4>1. PICK a : a = IF Stores(sess[s], k) THEN "store" ELSE "publish"
        OBVIOUS
      <4>2. a \in Places /\ a \notin {"save", "over"}
        BY <4>1 DEF Places
      <4>3. sess' = Taken(s, a, k)
        BY <2>6, <3>3, <4>1 DEF Receive, Canceled, Taken
      <4>4. PICK y : /\ Becomes(s, y) /\ y.at = a /\ y.chunk = k /\ y.event = seq + 1
                     /\ y.msg = sess[s].msg /\ y.snap = sess[s].snap
                     /\ y.sent = sess[s].sent /\ SameFate(sess[s], y)
        BY <1>0, <1>6, <4>2, <4>3, Receives
      <4>5. Len(rows') = Len(rows)
        BY <1>0, <2>6, <3>3 DEF Receive, Canceled
      <4>6. y = sess'[s] /\ y.aborted = sess[s].aborted /\ y.stop = sess[s].stop
        BY <4>4 DEF Becomes, SameFate
      <4> QED BY <2>1, <3>1, <4>2, <4>4, <4>5, <4>6
    <3> QED BY <3>2, <3>3
  <2>7. CASE Insert(s)
    <3>1. PICK y : /\ Becomes(s, y) /\ y.at = "publish" /\ y.msg = Len(rows) + 1
                   /\ SameFate(sess[s], y)
      BY <1>0, <1>6, <2>7, Inserts
    <3>2. /\ Len(rows') = Len(rows) + 1
          /\ \A n \in Messages : rows'[n] = rows[n]
          /\ rows'[Len(rows) + 1].lapse = sess[s].aborted
      BY <1>6, <2>7, InsertsRow
    <3>3. sess[s].at = "store" /\ sess[s].msg = 0
      BY <2>0, <2>7 DEF Insert, Aimed
    <3>4. ASSUME NEW m \in Messages', rows'[m].of = s, Loose(rows', m)
          PROVE  m = Len(rows) + 1 /\ ~sess[s].aborted
      <4>1. CASE m \in Messages
        <5>1. rows[m].of = s /\ Loose(rows, m)
          BY <3>2, <3>4, <4>1 DEF Loose
        <5>2. sess[s].msg = m
          BY <2>0, <3>3, <4>1, <5>1 DEF Settling, Messages
        <5> QED BY <3>3, <4>1, <5>2 DEF Messages
      <4>2. CASE m \notin Messages
        <5>1. m = Len(rows) + 1
          BY <1>0, <3>2, <4>2 DEF Messages
        <5> QED BY <3>2, <3>4, <5>1 DEF Loose
      <4> QED BY <4>1, <4>2
    <3>5. y = sess'[s] /\ y.aborted = sess[s].aborted
      BY <3>1 DEF Becomes, SameFate
    <3> QED BY <3>1, <3>2, <3>4, <3>5 DEF Settling, Messages
  <2>8. CASE Load(s)
    <3>1. sess[s].at = "store" /\ sess[s].chunk # "bos" /\ rows' = rows
      BY <2>8 DEF Load
    <3>2. CASE sess' = [sess EXCEPT ![s].at = "publish"]
      <4>1. "publish" \in Places
        BY DEF Places
      <4> QED BY <2>4, <3>1, <3>2, <4>1
    <3>3. CASE /\ sess' = [sess EXCEPT ![s].at = "save", ![s].snap = rows[sess[s].msg]]
               /\ sess[s].chunk = "delta" => Accepts(rows[sess[s].msg])
      <4>1. PICK row : row = rows[sess[s].msg]
        OBVIOUS
      <4>2. row \in RowSet
        <5>1. sess[s].msg \in Messages
          BY <2>0, <3>1 DEF Aimed, Messages
        <5> QED BY <1>0, <4>1, <5>1, RowTyped
      <4>3. PICK y : /\ Becomes(s, y) /\ y.at = "save" /\ y.snap = row /\ y.chunk = sess[s].chunk
                     /\ y.msg = sess[s].msg /\ SameFate(sess[s], y)
        <5>1. sess' = [sess EXCEPT ![s].at = "save", ![s].snap = row]
          BY <3>3, <4>1
        <5>2. row \in SnapSet
          BY <4>2 DEF SnapSet
        <5> QED BY <1>0, <1>6, <5>1, <5>2, Loads
      <4>4. y.chunk = "delta" => y.snap.status \in Open
        BY <3>3, <4>1, <4>2, <4>3 DEF Accepts, RowSet
      <4>5. y = sess'[s] /\ y.aborted = sess[s].aborted /\ y.stop = sess[s].stop
        BY <4>3 DEF Becomes, SameFate
      <4> QED BY <2>0, <3>1, <4>3, <4>4, <4>5 DEF Settling
    <3> QED BY <2>8, <3>2, <3>3 DEF Load
  <2>9. CASE Save(s)
    <3>1. PICK m \in Messages : m = sess[s].msg /\ rows[m].of = s
      BY <1>6, <2>9, SavesRow
    <3>2. PICK w : /\ RowBecomes(m, w)
                   /\ w.status = IF sess[s].chunk = "delta" THEN "streaming"
                                 ELSE IF sess[s].chunk = "eos" THEN "success" ELSE "failed"
                   /\ w.lapse = (rows[m].lapse
                                   \/ (/\ sess[s].snap.status \in Open
                                       /\ rows[m].status \in Settled
                                       /\ sess[s].chunk = "delta"))
      BY <1>6, <2>9, <3>1, SavesRow
    <3>3. PICK n : n = IF sess[s].chunk = "eos" THEN 0 ELSE sess[s].msg
      OBVIOUS
    <3>4. n \in Nat
      BY <2>a, <3>3
    <3>5. sess' = [sess EXCEPT ![s].at = "publish", ![s].snap = NoRow, ![s].msg = n]
      BY <2>9, <3>3 DEF Save
    <3>6. PICK y : /\ Becomes(s, y) /\ y.at = "publish" /\ y.msg = n /\ SameFate(sess[s], y)
      BY <1>0, <1>6, <3>4, <3>5, Saves
    <3>7. y = sess'[s] /\ y.aborted = sess[s].aborted /\ y.stop = sess[s].stop /\ sess[s].at = "save"
      BY <2>9, <3>6 DEF Becomes, SameFate, Save
    <3>8. ASSUME Loose(rows', m) PROVE Loose(rows, m) /\ sess[s].chunk = "delta"
      <4>1. sess[s].chunk = "delta"
        BY <3>2, <3>8 DEF Loose, RowBecomes, Open
      <4>2. sess[s].snap.status \in Open
        BY <2>0, <3>7, <4>1 DEF Settling
      <4>3. ~w.lapse
        BY <3>2, <3>8 DEF Loose, RowBecomes
      <4>4. ~rows[m].lapse /\ rows[m].status \notin Settled
        BY <3>2, <4>1, <4>2, <4>3
      <4>5. rows[m].status \in Open
        BY <1>0, <4>4, RowTyped DEF RowSet
      <4> QED BY <4>1, <4>4, <4>5 DEF Loose
    <3>9. ASSUME NEW l \in Messages', rows'[l].of = s, Loose(rows', l)
          PROVE  l = m /\ Loose(rows, m) /\ sess[s].chunk = "delta"
      <4>1. CASE l = m
        BY <3>8, <3>9, <4>1
      <4>2. CASE l # m
        <5>1. l \in Messages /\ rows[l].of = s /\ Loose(rows, l)
          BY <3>2, <3>9, <4>2 DEF RowBecomes, Messages, Loose
        <5> QED BY <2>0, <3>1, <3>7, <4>2, <5>1 DEF Settling, Messages
      <4> QED BY <4>1, <4>2
    <3>10. Len(rows') = Len(rows)
      BY <3>2 DEF RowBecomes
    <3> QED BY <2>0, <3>1, <3>3, <3>6, <3>7, <3>9, <3>10 DEF Settling, Messages
  <2>10. CASE Publish(s)
    <3>1. PICK e : e = IF sess[s].finished THEN sess[s].sent ELSE Append(sess[s].sent, sess[s].event)
      OBVIOUS
    <3>2. e \in Seq(Nat)
      BY <2>0, <3>1 DEF SessSet
    <3>3. sess[s].at = "publish" /\ rows' = rows
      BY <2>10 DEF Publish
    <3>4. PICK y : Becomes(s, y) /\ y.at = "read" /\ y.msg = sess[s].msg /\ SameFate(sess[s], y)
      <4>1. CASE sess[s].finished
        <5>1. sess' = [sess EXCEPT ![s].at = "read", ![s].event = 0]
          BY <2>10, <4>1 DEF Publish
        <5>2. sess' = [sess EXCEPT ![s].at = "read", ![s].event = 0, ![s].sent = e]
          BY <1>0, <1>6, <2>0, <3>1, <4>1, <5>1 DEF SessSet, StreamTyped, Sessions
        <5> QED BY <1>0, <1>6, <3>2, <5>2, Publishes
      <4>2. CASE ~sess[s].finished
        <5>1. sess' = [sess EXCEPT ![s].at = "read", ![s].event = 0, ![s].sent = e]
          BY <2>10, <3>1, <4>2 DEF Publish
        <5> QED BY <1>0, <1>6, <3>2, <5>1, Publishes
      <4> QED BY <4>1, <4>2
    <3> QED BY <2>3, <3>3, <3>4
  <2>11. CASE EndStream(s)
    <3>1. PICK y : Becomes(s, y) /\ y.at = "over" /\ y.aborted = sess[s].aborted /\ y.stop = sess[s].stop
      BY <1>0, <1>6, <2>11, Ends
    <3>2. y = sess'[s] /\ ~Insert(s) /\ ~Save(s) /\ sess[s].at = "read"
      BY <2>11, <3>1 DEF Becomes, EndStream, Insert, Save
    <3>3. Len(rows') = Len(rows)
      BY <1>0, <2>11 DEF EndStream
    <3>4. CASE sess[s].aborted
      BY <2>1, <3>1, <3>2, <3>3, <3>4
    <3>5. CASE ~sess[s].aborted
      <4>1. ASSUME NEW m \in Messages', rows'[m].of = s, Loose(rows', m) PROVE FALSE
        <5>1. m \in Messages /\ rows[m].of = s /\ Loose(rows, m)
          BY <2>b, <3>2, <4>1
        <5>2. sess[s].msg = m /\ m # 0
          BY <2>0, <3>2, <5>1 DEF Settling, Messages
        <5>3. rows' = [rows EXCEPT ![m].lapse = TRUE]
          BY <2>11, <3>5, <5>1, <5>2 DEF EndStream, Loose
        <5>4. rows'[m].lapse
          <6>1. rows[m] \in RowSet /\ m \in DOMAIN rows
            BY <1>0, <5>1 DEF Messages
          <6>2. rows'[m] = [rows[m] EXCEPT !.lapse = TRUE]
            BY <5>3, <6>1
          <6> QED BY <6>1, <6>2 DEF RowSet
        <5> QED BY <4>1, <5>4 DEF Loose
      <4> QED BY <1>2, <3>1, <3>2, <4>1
    <3> QED BY <3>4, <3>5
  <2>12. CASE Quit(s)
    <3>1. PICK y : Becomes(s, y) /\ y.at = "over" /\ SameFate(sess[s], y)
      BY <1>0, <1>6, <2>12, Quits
    <3> QED BY <2>3, <2>12, <3>1 DEF Quit
  <2>13. CASE CleanUp(s)
    <3>1. PICK y : /\ Becomes(s, y) /\ y.at = sess[s].at /\ SameCourse(sess[s], y)
                   /\ y.aborted = sess[s].aborted /\ y.stop = sess[s].stop
      BY <1>0, <1>6, <2>13, Cleans
    <3>2. rows' = rows /\ sess'[s] = y
      BY <2>13, <3>1 DEF CleanUp, Becomes
    <3> QED BY <2>0, <3>1, <3>2 DEF Settling, SameCourse, Becomes, SameEver
  <2>14. ASSUME NEW p \in StopSet, sess' = [sess EXCEPT ![s].stop = p], sess[s].stop.at # "none",
                Len(rows') = Len(rows),
                \A m \in Messages' :
                  rows'[m].of = s /\ Loose(rows', m) =>
                    /\ rows[m].of = s /\ Loose(rows, m)
                    /\ p.at = "save" /\ p.msg = m
         PROVE  Settling(sess'[s], s, rows')
    <3>1. PICK y : y = [sess[s] EXCEPT !.stop = p]
      OBVIOUS
    <3>2. /\ y \in SessSet /\ y.stop = p /\ y.at = sess[s].at /\ y.msg = sess[s].msg
          /\ y.chunk = sess[s].chunk /\ y.snap = sess[s].snap /\ y.aborted = sess[s].aborted
          /\ y.alone = sess[s].alone
      BY <2>0, <3>1 DEF SessSet
    <3>3. sess'[s] = y
      <4>1. sess \in Seq(SessSet) /\ s \in DOMAIN sess
        BY <1>0, <1>6 DEF StreamTyped, Sessions
      <4>2. sess' = [sess EXCEPT ![s] = y]
        BY <2>14, <3>1
      <4> QED BY <4>1, <4>2
    <3>4. sess[s].aborted
      BY <2>0, <2>14 DEF LifeOf
    <3> QED BY <2>0, <2>14, <3>2, <3>3, <3>4 DEF Settling, Messages
  <2>15. CASE StopFind(s)
    <3>1. sess[s].stop.at = "find" /\ rows' = rows
      BY <2>15 DEF StopFind
    <3>2. CASE LatestOpen = 0
      <4>1. PICK p : p = [sess[s].stop EXCEPT !.at = "publish"]
        OBVIOUS
      <4>2. p \in StopSet
        BY <2>a, <4>1 DEF StopSet
      <4>3. sess' = [sess EXCEPT ![s].stop = p]
        BY <2>15, <3>2, <4>1 DEF StopFind
      <4>4. \A m \in Messages : ~Loose(rows, m)
        BY <1>0, <3>2, LatestFound DEF Loose
      <4> QED BY <2>14, <3>1, <4>2, <4>3, <4>4 DEF Messages
    <3>3. CASE LatestOpen # 0
      <4>1. PICK l : l = LatestOpen
        OBVIOUS
      <4>2. /\ l \in Messages
            /\ \A n \in Messages : rows[n].status \in Open => n <= l
        BY <1>0, <3>3, <4>1, LatestFound
      <4>3. PICK p : p = [at |-> "save", msg |-> l, snap |-> rows[l]]
        OBVIOUS
      <4>4. p \in StopSet /\ p.at = "save" /\ p.msg = l
        <5>1. l \in Nat /\ rows[l] \in SnapSet
          BY <1>0, <4>2, RowTyped DEF StreamTyped, SnapSet, Messages
        <5> QED BY <4>3, <5>1 DEF StopSet
      <4>5. sess' = [sess EXCEPT ![s].stop = p]
        BY <2>15, <3>3, <4>1, <4>3 DEF StopFind
      <4>6. ASSUME NEW m \in Messages, rows[m].of = s, Loose(rows, m) PROVE l = m
        <5>1. m = Len(rows)
          BY <2>0, <4>6 DEF Settling, Messages
        <5>2. m <= l /\ l <= Len(rows)
          BY <4>2, <4>6 DEF Loose, Messages
        <5> QED BY <1>0, <4>2, <5>1, <5>2 DEF Messages
      <4> QED BY <2>14, <3>1, <4>4, <4>5, <4>6 DEF Messages
    <3> QED BY <3>2, <3>3
  <2>16. CASE StopSave(s)
    <3>2. PICK m \in Messages : m = sess[s].stop.msg
      BY <2>0, <2>16 DEF StopSave, Read, Messages
    <3>3. PICK d \in RowSet : d = sess[s].stop.snap /\ d.of = rows[m].of
      BY <2>0, <2>16, <3>2 DEF StopSave, Read
    <3>4. rows' = Saved(m, [d EXCEPT !.status = "stopped"]) /\ sess[s].stop.at = "save"
      BY <2>16, <3>2, <3>3 DEF StopSave
    <3>5. PICK w : RowBecomes(m, w) /\ w.status = "stopped"
      BY <3>3, <3>4, Settles
    <3>6. PICK p : p = [NoStop EXCEPT !.at = "publish"]
      OBVIOUS
    <3>7. p \in StopSet
      BY <3>6 DEF StopSet, NoStop, SnapSet
    <3>8. sess' = [sess EXCEPT ![s].stop = p]
      BY <2>16, <3>6 DEF StopSave
    <3>9. ASSUME NEW n \in Messages', rows'[n].of = s, Loose(rows', n) PROVE FALSE
      <4>1. n # m
        BY <3>5, <3>9 DEF RowBecomes, Loose, Open
      <4>2. n \in Messages /\ rows[n].of = s /\ Loose(rows, n)
        BY <3>5, <3>9, <4>1 DEF RowBecomes, Loose, Messages
      <4>3. sess[s].aborted
        BY <2>0, <3>4 DEF LifeOf
      <4>4. sess[s].stop.msg = n
        BY <2>0, <3>4, <4>2, <4>3 DEF Settling, Messages
      <4> QED BY <3>2, <4>1, <4>4
    <3>10. Len(rows') = Len(rows)
      BY <3>5 DEF RowBecomes
    <3> QED BY <2>14, <3>4, <3>7, <3>8, <3>9, <3>10
  <2>17. CASE StopEnd(s)
    <3>1. PICK y : /\ Becomes(s, y) /\ y.at = sess[s].at /\ y.chunk = sess[s].chunk
                   /\ y.snap = sess[s].snap
      BY <1>0, <1>6, <2>17, StopEnds
    <3>2. sess[s].stop.at = "publish" /\ rows' = rows /\ sess'[s] = y
      BY <2>17, <3>1 DEF StopEnd, Becomes
    <3>3. sess[s].aborted
      BY <2>0, <3>2 DEF LifeOf
    <3>4. \A m \in Messages : ~(rows[m].of = s /\ Loose(rows, m))
      BY <2>0, <3>2, <3>3 DEF Settling, Messages
    <3> QED BY <2>0, <3>1, <3>2, <3>4 DEF Settling, Messages
  <2> QED BY <1>1, <1>6, <2>2, <2>5, <2>6, <2>7, <2>8, <2>9, <2>10, <2>11, <2>12, <2>13, <2>15,
             <2>16, <2>17, Alone DEF Acts
<1> QED BY <1>3, <1>5, <1>6
(* What a message counts.  Until the cancel flag is set, the sessions store    *)
(* every delta they accept, one by one; when it is set they accept no more,    *)
(* and a message whose end was accepted before has them all, whoever writes    *)
(* it.                                                                         *)
Counts(x, R) ==
  x.msg # 0 =>
    /\ R[x.msg].given = R[x.msg].text
                          + (IF x.chunk = "delta" /\ x.at \in {"store", "save"} THEN 1 ELSE 0)
    /\ x.at = "save" => x.snap.text = R[x.msg].text
    /\ R[x.msg].status = "failed" => x.chunk = "error"

Ending(x) == x.chunk = "eos" /\ x.at \in {"store", "save"}

Ended(x, R) ==
  Ending(x) => /\ R[x.msg].text = R[x.msg].given
               /\ x.at = "save" => x.snap.text = R[x.msg].given

\* What y has read of the message whose end x has accepted.
Agrees(y, x, R) ==
  Ending(x) /\ y.at = "save" /\ y.msg = x.msg => y.snap.text = R[x.msg].given

Unflagged ==
  /\ \A s \in Sessions : sess[s].stop.at # "save" /\ Counts(sess[s], rows)
  /\ \A c \in Cancels : cancels[c].at = "idle"
  /\ \A m \in Messages : rows[m].status # "stopped"

Counted(R, m) == R[m].status = "success" => R[m].text = R[m].given

Whole ==
  /\ \A s \in Sessions :
       /\ Ended(sess[s], rows)
       /\ \A r \in Sessions : Agrees(sess[r].stop, sess[s], rows)
       /\ \A c \in Cancels : Agrees(cancels[c], sess[s], rows)
  /\ \A m \in Messages : Counted(rows, m)

Counting == "cleared" \notin lapses => Whole /\ (flag \/ Unflagged)

\* A step of a session at its message, its stop aside.
LEMMA CountsOn ==
  ASSUME StreamInv, Whole, NEW s \in Sessions, NEW y, Becomes(s, y),
         rows' \in Seq(RowSet), Len(rows) <= Len(rows'), cancels' = cancels,
         \A m \in Messages : rows[m].of # s => rows'[m] = rows[m],
         \A m \in Messages' : /\ m \in Messages => rows'[m].of = rows[m].of
                              /\ m \notin Messages => rows'[m].of = s
                              /\ rows'[m].of = s => Counted(rows', m),
         Ended(y, rows'), y.stop.at = "save" => y.stop = sess[s].stop,
         \A r \in Sessions : r # s => Agrees(sess[r].stop, y, rows'),
         Agrees(y.stop, y, rows'),
         \A c \in Cancels : Agrees(cancels[c], y, rows')
  PROVE  Whole'
<1>0. /\ Sessions' = Sessions /\ Messages \subseteq Messages'
      /\ \A r \in Sessions : sess[r] \in SessSet /\ Aimed(sess[r], r, rows)
      /\ rows \in Seq(RowSet)
  <2>1. rows \in Seq(RowSet) /\ Len(rows) \in Nat /\ Len(rows') \in Nat
    BY DEF StreamInv, StreamTyped
  <2>2. Messages \subseteq Messages'
    BY <2>1 DEF Messages
  <2> QED BY <2>1, <2>2, SessAimed DEF Becomes, Sessions
<1>1. ASSUME NEW r \in Sessions, r # s
      PROVE  sess'[r] = sess[r] /\ (Ending(sess[r]) => rows'[sess[r].msg] = rows[sess[r].msg])
  <2>1. sess'[r] = sess[r]
    BY <1>1 DEF Becomes
  <2>2. ASSUME Ending(sess[r]) PROVE sess[r].msg \in Messages /\ rows[sess[r].msg].of = r
    BY <1>0, <2>2 DEF Aimed, Ending, Messages
  <2> QED BY <1>1, <2>1, <2>2
<1>2. ASSUME NEW r \in Sessions PROVE Ended(sess'[r], rows')
  <2>1. CASE r = s
    BY <2>1 DEF Becomes
  <2>2. CASE r # s
    BY <1>1, <2>2 DEF Whole, Ended
  <2> QED BY <2>1, <2>2
<1>3. ASSUME NEW r \in Sessions, NEW q \in Sessions PROVE Agrees(sess'[q].stop, sess'[r], rows')
  <2>1. CASE r = s /\ q = s
    BY <2>1 DEF Becomes
  <2>2. CASE r = s /\ q # s
    BY <2>2 DEF Becomes
  <2>3. CASE r # s /\ q = s
    <3>1. sess'[q] = y /\ Agrees(sess[q].stop, sess[r], rows)
      BY <2>3 DEF Becomes, Whole
    <3> QED BY <1>1, <2>3, <3>1 DEF Agrees
  <2>4. CASE r # s /\ q # s
    <3>1. sess'[q] = sess[q] /\ Agrees(sess[q].stop, sess[r], rows)
      BY <2>4 DEF Becomes, Whole
    <3> QED BY <1>1, <2>4, <3>1 DEF Agrees
  <2> QED BY <2>1, <2>2, <2>3, <2>4
<1>4. ASSUME NEW r \in Sessions, NEW c \in Cancels PROVE Agrees(cancels'[c], sess'[r], rows')
  <2>1. CASE r = s
    BY <2>1 DEF Becomes
  <2>2. CASE r # s
    BY <1>1, <2>2 DEF Whole, Agrees
  <2> QED BY <2>1, <2>2
<1>5. ASSUME NEW m \in Messages' PROVE Counted(rows', m)
  <2>1. CASE rows'[m].of = s
    BY <2>1
  <2>2. CASE rows'[m].of # s
    BY <2>2 DEF Whole, Counted
  <2> QED BY <2>1, <2>2
<1> QED BY <1>0, <1>2, <1>3, <1>4, <1>5 DEF Whole

\* The same step while the flag is not set.
LEMMA UnflaggedOn ==
  ASSUME StreamInv, Unflagged, NEW s \in Sessions, NEW y, Becomes(s, y),
         rows' \in Seq(RowSet), Len(rows) <= Len(rows'), cancels' = cancels,
         \A m \in Messages : rows[m].of # s => rows'[m] = rows[m],
         \A m \in Messages' : /\ m \notin Messages => rows'[m].of = s
                              /\ rows'[m].of = rows[m].of \/ m \notin Messages
                              /\ rows'[m].of = s => rows'[m].status # "stopped",
         y.stop.at # "save", Counts(y, rows')
  PROVE  Unflagged'
<1>0. /\ Sessions' = Sessions /\ Messages \subseteq Messages'
      /\ \A r \in Sessions : sess[r] \in SessSet /\ Aimed(sess[r], r, rows)
  <2>1. rows \in Seq(RowSet) /\ Len(rows) \in Nat /\ Len(rows') \in Nat
    BY DEF StreamInv, StreamTyped
  <2>2. Messages \subseteq Messages'
    BY <2>1 DEF Messages
  <2> QED BY <2>1, <2>2, SessAimed DEF Becomes, Sessions
<1>1. ASSUME NEW r \in Sessions PROVE sess'[r].stop.at # "save" /\ Counts(sess'[r], rows')
  <2>1. CASE r = s
    BY <2>1 DEF Becomes
  <2>2. CASE r # s
    <3>1. sess'[r] = sess[r]
      BY <2>2 DEF Becomes
    <3>2. ASSUME sess[r].msg # 0 PROVE rows'[sess[r].msg] = rows[sess[r].msg]
      <4>1. sess[r].msg \in Messages /\ rows[sess[r].msg].of = r
        BY <1>0, <3>2 DEF Aimed, Messages
      <4> QED BY <2>2, <4>1
    <3> QED BY <3>1, <3>2 DEF Unflagged, Counts
  <2> QED BY <2>1, <2>2
<1>2. ASSUME NEW m \in Messages' PROVE rows'[m].status # "stopped"
  BY DEF Unflagged
<1> QED BY <1>0, <1>1, <1>2 DEF Unflagged

\* A step of the stops and the cancellations, which leave the course of the
\* sessions alone.
LEMMA StopsCount ==
  ASSUME StreamInv, Whole, Len(sess) <= Len(sess'), sess' \in Seq(SessSet),
         rows' \in Seq(RowSet), Len(rows') = Len(rows),
         \A r \in Sessions : SameCourse(sess[r], sess'[r]) /\ sess'[r].at = sess[r].at,
         \A r \in Sessions' \ Sessions : sess'[r].at = "open" /\ sess'[r].stop.at = "none",
         \A m \in Messages :
           /\ rows'[m].given = rows[m].given
           /\ \/ rows'[m].text = rows[m].text /\ rows'[m].status = rows[m].status
              \/ /\ rows'[m].status = "stopped"
                 /\ \A r \in Sessions : Ending(sess[r]) /\ sess[r].msg = m =>
                                          rows'[m].text = rows[m].given,
         \A r, q \in Sessions : Agrees(sess'[q].stop, sess[r], rows),
         \A r \in Sessions, c \in Cancels : Agrees(cancels'[c], sess[r], rows)
  PROVE  Whole'
<1>0. /\ Sessions \subseteq Sessions' /\ Messages' = Messages
      /\ \A r \in Sessions : sess[r] \in SessSet /\ Aimed(sess[r], r, rows)
  BY SessAimed DEF Sessions, Messages, StreamInv, StreamTyped
<1>1. ASSUME NEW r \in Sessions
      PROVE  /\ Ending(sess'[r]) <=> Ending(sess[r])
             /\ sess'[r].msg = sess[r].msg /\ sess'[r].at = sess[r].at
             /\ sess'[r].snap = sess[r].snap
             /\ Ending(sess[r]) => /\ sess[r].msg \in Messages
                                   /\ rows'[sess[r].msg].given = rows[sess[r].msg].given
  BY <1>0 DEF SameCourse, Ending, Aimed, Messages
<1>2. ASSUME NEW r \in Sessions' \ Sessions PROVE ~Ending(sess'[r]) /\ sess'[r].stop.at # "save"
  BY DEF Ending
<1>3. ASSUME NEW r \in Sessions' PROVE Ended(sess'[r], rows')
  <2>1. CASE r \in Sessions
    BY <1>1, <2>1 DEF Ended, Whole
  <2>2. CASE r \notin Sessions
    BY <1>2, <2>2 DEF Ended
  <2> QED BY <2>1, <2>2
<1>4. ASSUME NEW r \in Sessions', NEW q \in Sessions' PROVE Agrees(sess'[q].stop, sess'[r], rows')
  <2>1. CASE r \in Sessions /\ q \in Sessions
    BY <1>1, <2>1 DEF Agrees
  <2>2. CASE ~(r \in Sessions /\ q \in Sessions)
    BY <1>2, <2>2 DEF Agrees
  <2> QED BY <2>1, <2>2
<1>5. ASSUME NEW r \in Sessions', NEW c \in Cancels PROVE Agrees(cancels'[c], sess'[r], rows')
  <2>1. CASE r \in Sessions
    BY <1>1, <2>1 DEF Agrees
  <2>2. CASE r \notin Sessions
    BY <1>2, <2>2 DEF Agrees
  <2> QED BY <2>1, <2>2
<1>6. ASSUME NEW m \in Messages PROVE Counted(rows', m)
  BY DEF Counted, Whole
<1> QED BY <1>0, <1>3, <1>4, <1>5, <1>6 DEF Whole
\* While the flag is not set, what leaves the course of the sessions alone.
LEMMA UnflaggedStays ==
  ASSUME StreamInv, Unflagged, rows' = rows, cancels' = cancels,
         \A r \in Sessions : /\ SameCourse(sess[r], sess'[r]) /\ sess'[r].at = sess[r].at
                             /\ sess'[r].stop.at # "save",
         \A r \in Sessions' \ Sessions : sess'[r].msg = 0 /\ sess'[r].stop.at # "save"
  PROVE  Unflagged'
<1>1. ASSUME NEW r \in Sessions' PROVE sess'[r].stop.at # "save" /\ Counts(sess'[r], rows)
  <2>1. CASE r \in Sessions
    BY <2>1 DEF Unflagged, Counts, SameCourse
  <2>2. CASE r \notin Sessions
    BY <2>2 DEF Counts
  <2> QED BY <2>1, <2>2
<1> QED BY <1>1 DEF Unflagged, Counts, Messages

\* Every step keeps the count.
LEMMA CountStep == StreamInv /\ Lives /\ Counting /\ [Next]_vars => Counting'
<1> SUFFICES ASSUME StreamInv, Lives, Counting, Next, "cleared" \notin lapses' PROVE Whole' /\ (flag' \/ Unflagged')
  BY DEF vars, Counting, Whole, Unflagged, Ended, Agrees, Counted, Counts, Ending, Sessions, Messages
<1>0. /\ StreamTyped /\ Len(rows) \in Nat /\ rows \in Seq(RowSet) /\ sess \in Seq(SessSet)
      /\ Len(sess) \in Nat
  BY DEF StreamInv, StreamTyped
<1>a. Whole /\ (flag \/ Unflagged)
  <2>1. lapses \subseteq lapses'
    BY FlagStep
  <2> QED BY <2>1 DEF Counting
<1>b. ASSUME NEW s \in Sessions
      PROVE  sess[s] \in SessSet /\ Aimed(sess[s], s, rows) /\ Read(sess[s].stop, rows)
  BY SessAimed
<1>c. StreamInv' /\ StreamTyped' /\ rows' \in Seq(RowSet) /\ sess' \in Seq(SessSet)
  BY StreamStep DEF StreamInv, StreamTyped
<1>1. ASSUME NEW s \in Sessions, NEW y, Becomes(s, y), rows' = rows, cancels' = cancels, flag' = flag,
             y.stop = sess[s].stop,
             Ending(y) => Ending(sess[s]) /\ y.msg = sess[s].msg,
             Ended(y, rows), Unflagged => Counts(y, rows)
      PROVE  Whole' /\ (flag' \/ Unflagged')
  <2>1. \A r \in Sessions : Agrees(sess[r].stop, y, rows')
    BY <1>a, <1>1 DEF Whole, Agrees
  <2>2. \A c \in Cancels : Agrees(cancels[c], y, rows')
    BY <1>a, <1>1 DEF Whole, Agrees
  <2>3. Agrees(y.stop, y, rows') /\ Ended(y, rows')
    BY <1>1, <2>1
  <2>4. \A m \in Messages' : /\ m \in Messages /\ rows'[m].of = rows[m].of
                             /\ rows'[m].of = s => Counted(rows', m)
    BY <1>a, <1>1 DEF Whole, Counted, Messages
  <2>5. Whole'
    BY <1>0, <1>a, <1>c, <1>1, <2>1, <2>2, <2>3, <2>4, CountsOn
  <2>6. ASSUME Unflagged PROVE Unflagged'
    <3>1. y.stop.at # "save" /\ Counts(y, rows') /\ \A m \in Messages' : rows'[m].status # "stopped"
      BY <1>1, <2>6 DEF Unflagged, Messages
    <3> QED BY <1>0, <1>c, <1>1, <2>4, <2>6, <3>1, UnflaggedOn
  <2> QED BY <1>a, <1>1, <2>5, <2>6
<1>2. ASSUME NEW s \in Sessions, NEW a \in Places, sess' = [sess EXCEPT ![s].at = a],
             a \notin {"store", "save"}, sess[s].at \notin {"store", "save"},
             rows' = rows, cancels' = cancels, flag' = flag
      PROVE  Whole' /\ (flag' \/ Unflagged')
  <2>1. PICK y : Becomes(s, y) /\ y.at = a /\ SameCourse(sess[s], y) /\ SameFate(sess[s], y)
    BY <1>0, <1>2, Advances
  <2>2. ~Ending(y) /\ Ended(y, rows)
    BY <1>2, <2>1 DEF Ending, Ended
  <2>3. Unflagged => Counts(y, rows)
    BY <1>2, <2>1 DEF Unflagged, Counts, SameCourse
  <2> QED BY <1>1, <1>2, <2>1, <2>2, <2>3 DEF SameFate
<1>3. ASSUME NEW s \in Sessions, ClearLog(s) \/ MarkActive(s) \/ Subscribe(s)
      PROVE  Whole' /\ (flag' \/ Unflagged')
  <2>1. {"mark", "subscribe", "read"} \subseteq Places
    BY DEF Places
  <2>2. CASE MarkActive(s)
    <3>1. flag' = flag
      BY <1>0, <2>2 DEF MarkActive, StreamTyped
    <3> QED BY <1>2, <2>1, <2>2, <3>1 DEF MarkActive
  <2> QED BY <1>2, <1>3, <2>1, <2>2 DEF ClearLog, Subscribe
\* A session is told to stop.
<1>4. ASSUME NEW s \in Sessions, sess' = [sess EXCEPT ![s] = Stopping(@)], rows' = rows, flag' = flag,
             cancels' = cancels \/ (flag /\ \A c \in Cancels : cancels'[c].at = "save" => cancels'[c] = cancels[c])
      PROVE  Whole' /\ (flag' \/ Unflagged')
  <2>1. PICK y : y = Stopping(sess[s])
    OBVIOUS
  <2>2. /\ SameCourse(sess[s], y) /\ y.at = sess[s].at
        /\ y.stop = sess[s].stop \/ y.stop.at = "find"
    BY <1>b, <2>1, Stops
  <2>3. /\ Len(sess') = Len(sess) /\ Sessions' = Sessions
        /\ \A r \in Sessions : sess'[r] = IF r = s THEN y ELSE sess[r]
    BY <1>0, <1>4, <2>1 DEF Sessions
  <2>4. ASSUME NEW r \in Sessions
        PROVE  /\ SameCourse(sess[r], sess'[r]) /\ sess'[r].at = sess[r].at
               /\ sess'[r].stop = sess[r].stop \/ sess'[r].stop.at = "find"
    BY <2>2, <2>3 DEF SameCourse
  <2>5. Whole'
    <3>1. \A r \in Sessions, q \in Sessions : Agrees(sess'[q].stop, sess[r], rows)
      BY <1>a, <2>4 DEF Whole, Agrees
    <3>2. \A r \in Sessions, c \in Cancels : Agrees(cancels'[c], sess[r], rows)
      BY <1>a, <1>4 DEF Whole, Agrees
    <3> QED BY <1>0, <1>a, <1>c, <1>4, <2>3, <2>4, <3>1, <3>2, StopsCount
  <2>6. ASSUME ~flag PROVE Unflagged'
    BY <1>a, <1>4, <2>3, <2>4, <2>6, UnflaggedStays DEF Unflagged
  <2> QED BY <1>4, <2>5, <2>6
<1>5. ASSUME NEW s \in Sessions, NEW k \in Kinds, Receive(s, k)
      PROVE  Whole' /\ (flag' \/ Unflagged')
  <2>1. flag' = flag /\ cancels' = cancels
    BY <1>5 DEF Receive
  <2>2. CASE flag
    BY <1>4, <1>5, <2>1, <2>2 DEF Receive, Canceled
  <2>3. CASE ~flag
    <3>1. PICK a : a = IF Stores(sess[s], k) THEN "store" ELSE "publish"
      OBVIOUS
    <3>2. a \in Places /\ a # "save"
      BY <3>1 DEF Places
    <3>3. sess' = Taken(s, a, k) /\ (k # "delta" => rows' = rows)
      BY <1>5, <2>3, <3>1 DEF Receive, Canceled, Taken
    <3>4. PICK y : /\ Becomes(s, y) /\ y.at = a /\ y.chunk = k /\ y.event = seq + 1
                   /\ y.msg = sess[s].msg /\ y.snap = sess[s].snap
                   /\ y.sent = sess[s].sent /\ SameFate(sess[s], y)
      BY <1>0, <3>2, <3>3, Receives
    <3>5. /\ Unflagged /\ Counts(sess[s], rows) /\ sess[s].stop.at # "save"
      BY <1>a, <2>3 DEF Unflagged
    <3>6. /\ sess[s].at = "read" /\ sess[s].chunk \notin Terminal
          /\ k \in {"delta", "eos"} => sess[s].msg # 0
          /\ k \in {"bos", "done"} => sess[s].msg = 0
          /\ a = "store" => k # "done" /\ (k = "error" => sess[s].msg # 0)
          /\ k \in {"bos", "delta", "eos"} => a = "store"
      BY <1>5, <3>1 DEF Receive, MaySend, Stores
    <3>7. sess[s].msg # 0 => /\ rows[sess[s].msg].given = rows[sess[s].msg].text
                             /\ rows[sess[s].msg].status \notin {"failed", "success", "stopped"}
                             /\ sess[s].msg \in Messages /\ rows[sess[s].msg].of = s
      <4>1. ASSUME sess[s].msg # 0
            PROVE  /\ sess[s].msg \in Messages /\ rows[sess[s].msg].of = s
                   /\ rows[sess[s].msg].status # "success"
        BY <1>b, <4>1 DEF Aimed, Messages
      <4>2. ASSUME sess[s].msg # 0 PROVE rows[sess[s].msg].given = rows[sess[s].msg].text + 0
        BY <3>5, <3>6, <4>2 DEF Counts
      <4>3. ASSUME sess[s].msg # 0 PROVE rows[sess[s].msg].text + 0 = rows[sess[s].msg].text
        <5>1. rows[sess[s].msg] \in RowSet
          BY <1>0, <4>1, <4>3, RowTyped
        <5> QED BY <5>1 DEF RowSet
      <4> QED BY <3>5, <3>6, <4>1, <4>2, <4>3 DEF Counts, Unflagged, Terminal
    <3>8. y.stop = sess[s].stop
      BY <3>4 DEF SameFate
    <3>9. CASE k # "delta"
      <4>1. rows' = rows
        BY <3>3, <3>9
      <4>2. Ended(y, rows)
        BY <3>2, <3>4, <3>6, <3>7 DEF Ended, Ending
      <4>3. Counts(y, rows)
        <5>1. ASSUME y.msg # 0 PROVE /\ rows[y.msg].given = rows[y.msg].text + 0
                                     /\ rows[y.msg].status # "failed"
          <6>1. y.msg \in Messages /\ rows[y.msg].given = rows[y.msg].text
            BY <3>4, <3>7, <5>1
          <6>2. rows[y.msg] \in RowSet
            BY <1>0, <6>1, RowTyped
          <6> QED BY <3>4, <3>7, <5>1, <6>1, <6>2 DEF RowSet
        <5> QED BY <3>2, <3>4, <3>9, <5>1 DEF Counts
      <4>4. /\ \A r \in Sessions : Agrees(sess[r].stop, y, rows)
            /\ \A c \in Cancels : Agrees(cancels[c], y, rows) /\ Agrees(y.stop, y, rows)
        BY <3>5, <3>8 DEF Unflagged, Agrees
      <4>5. Agrees(y.stop, y, rows)
        BY <3>5, <3>8 DEF Agrees
      <4>6. \A m \in Messages' : /\ m \in Messages /\ rows'[m].of = rows[m].of
                                 /\ rows'[m].of = s => Counted(rows', m)
                                 /\ rows'[m].status # "stopped"
        BY <1>a, <3>5, <4>1 DEF Whole, Counted, Messages, Unflagged
      <4>7. Whole'
        BY <1>0, <1>a, <1>c, <2>1, <3>4, <3>5, <3>8, <4>1, <4>2, <4>4, <4>5, <4>6, CountsOn
      <4>8. Unflagged'
        BY <1>0, <1>c, <2>1, <3>4, <3>5, <3>8, <4>1, <4>3, <4>6, UnflaggedOn
      <4> QED BY <4>7, <4>8
    <3>10. CASE k = "delta"
      <4>1. PICK m \in Messages : m = sess[s].msg /\ rows[m].of = s /\ m # 0
        BY <3>6, <3>7, <3>10
      <4>2. PICK w : /\ RowBecomes(m, w) /\ w.status = rows[m].status /\ w.text = rows[m].text
                     /\ w.of = s /\ w.given = rows[m].given + 1
        BY <1>5, <2>3, <3>10, <4>1, Gives
      <4>3. ~Ending(y)
        BY <3>4, <3>10 DEF Ending
      <4>4. /\ Len(rows') = Len(rows) /\ Messages' = Messages /\ rows'[m] = w
            /\ \A n \in Messages : n # m => rows'[n] = rows[n]
        BY <4>2 DEF RowBecomes, Messages
      <4>5. ASSUME NEW n \in Messages'
            PROVE  /\ n \in Messages /\ rows'[n].of = rows[n].of
                   /\ rows'[n].of = s => Counted(rows', n)
                   /\ rows'[n].status # "stopped"
                   /\ rows[n].of # s => rows'[n] = rows[n]
        <5>1. CASE n = m
          BY <3>7, <4>1, <4>2, <4>4, <5>1 DEF Counted
        <5>2. CASE n # m
          BY <1>a, <3>5, <4>4, <5>2 DEF Whole, Counted, Unflagged
        <5> QED BY <5>1, <5>2
      <4>6. Counts(y, rows')
        <5>1. y.msg = m /\ rows'[m].given = rows'[m].text + 1 /\ rows'[m].status # "failed"
          BY <3>4, <3>7, <4>1, <4>2, <4>4
        <5>2. y.at = "store"
          BY <3>4, <3>6, <3>10
        <5> QED BY <3>4, <3>10, <5>1, <5>2 DEF Counts
      <4>7. /\ Ended(y, rows') /\ Agrees(y.stop, y, rows')
            /\ \A r \in Sessions : Agrees(sess[r].stop, y, rows')
            /\ \A c \in Cancels : Agrees(cancels[c], y, rows')
        BY <4>3 DEF Ended, Agrees
      <4>8. Whole'
        BY <1>0, <1>a, <1>c, <2>1, <3>4, <3>5, <3>8, <4>4, <4>5, <4>7, CountsOn
      <4>9. Unflagged'
        BY <1>0, <1>c, <2>1, <3>4, <3>5, <3>8, <4>4, <4>5, <4>6, UnflaggedOn
      <4> QED BY <4>8, <4>9
    <3> QED BY <3>9, <3>10
  <2> QED BY <2>2, <2>3
<1>6. ASSUME NEW s \in Sessions, Insert(s) PROVE Whole' /\ (flag' \/ Unflagged')
  <2>1. PICK y : /\ Becomes(s, y) /\ y.at = "publish" /\ y.msg = Len(rows) + 1
                 /\ y.chunk = sess[s].chunk /\ SameFate(sess[s], y)
    BY <1>0, <1>6, Inserts
  <2>2. PICK w \in RowSet : /\ rows'[Len(rows) + 1] = w
                            /\ w.status = "pending" /\ w.text = 0 /\ w.given = 0 /\ w.of = s
    BY <1>6, InsertsRow
  <2>3. Len(rows') = Len(rows) + 1 /\ \A n \in Messages : rows'[n] = rows[n]
    BY <1>6, InsertsRow
  <2>4. ASSUME NEW n \in Messages'
        PROVE  /\ n \notin Messages => n = Len(rows) + 1
               /\ n \in Messages => rows'[n].of = rows[n].of
               /\ n \notin Messages => rows'[n].of = s
               /\ rows'[n].of = s => Counted(rows', n)
               /\ Unflagged => rows'[n].status # "stopped"
    <3>1. n \in Messages \/ n = Len(rows) + 1
      BY <1>0, <2>3 DEF Messages
    <3>2. CASE n \in Messages
      BY <1>a, <2>3, <3>2 DEF Whole, Counted, Unflagged
    <3>3. CASE n = Len(rows) + 1
      <4>1. n \notin Messages
        BY <1>0, <3>3 DEF Messages
      <4> QED BY <2>2, <3>3, <4>1 DEF Counted
    <3> QED BY <3>1, <3>2, <3>3
  <2>5. ~Ending(y) /\ y.stop = sess[s].stop /\ cancels' = cancels /\ flag' = flag
    BY <1>6, <2>1 DEF Ending, SameFate, Insert
  <2>6. /\ Ended(y, rows') /\ Agrees(y.stop, y, rows')
        /\ \A r \in Sessions : Agrees(sess[r].stop, y, rows')
        /\ \A c \in Cancels : Agrees(cancels[c], y, rows')
    BY <2>5 DEF Ended, Agrees
  <2>7. Len(rows) <= Len(rows') /\ \A n \in Messages : rows[n].of # s => rows'[n] = rows[n]
    BY <1>0, <2>3
  <2>8. Whole'
    BY <1>0, <1>a, <1>c, <2>1, <2>4, <2>5, <2>6, <2>7, CountsOn
  <2>9. ASSUME Unflagged PROVE Unflagged'
    <3>1. y.stop.at # "save"
      BY <2>5, <2>9 DEF Unflagged
    <3>2. Counts(y, rows')
      BY <2>1, <2>2 DEF Counts
    <3>3. \A n \in Messages' : /\ n \notin Messages => rows'[n].of = s
                               /\ rows'[n].of = rows[n].of \/ n \notin Messages
                               /\ rows'[n].of = s => rows'[n].status # "stopped"
      BY <2>4, <2>9
    <3> QED BY <1>0, <1>c, <2>1, <2>5, <2>7, <2>9, <3>1, <3>2, <3>3, UnflaggedOn
  <2> QED BY <1>a, <2>5, <2>8, <2>9
<1>7. ASSUME NEW s \in Sessions, Load(s) PROVE Whole' /\ (flag' \/ Unflagged')
  <2>1. /\ sess[s].at = "store" /\ sess[s].chunk \in {"delta", "eos", "error"} /\ rows' = rows
        /\ cancels' = cancels /\ flag' = flag /\ sess[s].msg \in Messages /\ sess[s].msg # 0
        /\ rows[sess[s].msg].status # "success"
    BY <1>7, <1>b DEF Load, Aimed, Messages
  <2>2. PICK row \in RowSet : row = rows[sess[s].msg]
    BY <1>0, <2>1, RowTyped
  <2>3. Ending(sess[s]) => row.text = row.given
    BY <1>a, <2>2 DEF Whole, Ended
  <2>4. CASE sess' = [sess EXCEPT ![s].at = "publish"] /\ sess[s].chunk = "delta" /\ ~Accepts(row)
    <3>1. "publish" \in Places
      BY DEF Places
    <3>2. PICK y : Becomes(s, y) /\ y.at = "publish" /\ SameCourse(sess[s], y) /\ SameFate(sess[s], y)
      BY <1>0, <2>4, <3>1, Advances
    <3>3. ~Ending(y) /\ Ended(y, rows) /\ y.stop = sess[s].stop
      BY <3>2 DEF Ending, Ended, SameFate
    <3>4. ~Unflagged
      BY <2>1, <2>2, <2>4 DEF Unflagged, Counts, Accepts, Settled
    <3> QED BY <1>1, <2>1, <3>2, <3>3, <3>4
  <2>5. CASE sess' = [sess EXCEPT ![s].at = "save", ![s].snap = row]
    <3>1. row \in SnapSet
      BY DEF SnapSet
    <3>2. PICK y : /\ Becomes(s, y) /\ y.at = "save" /\ y.snap = row
                   /\ y.chunk = sess[s].chunk /\ y.event = sess[s].event
                   /\ y.msg = sess[s].msg /\ y.sent = sess[s].sent /\ SameFate(sess[s], y)
      BY <1>0, <2>5, <3>1, Loads
    <3>3. /\ Ending(y) => Ending(sess[s]) /\ y.msg = sess[s].msg
          /\ y.stop = sess[s].stop
      BY <2>1, <3>2 DEF Ending, SameFate
    <3>4. Ended(y, rows)
      BY <2>2, <2>3, <3>2, <3>3 DEF Ended
    <3>5. Unflagged => Counts(y, rows)
      BY <2>1, <2>2, <3>2 DEF Unflagged, Counts
    <3> QED BY <1>1, <2>1, <3>2, <3>3, <3>4, <3>5
  <2> QED BY <1>7, <2>2, <2>4, <2>5 DEF Load
<1>8. ASSUME NEW s \in Sessions, Save(s) PROVE Whole' /\ (flag' \/ Unflagged')
  <2>1. PICK m \in Messages : m = sess[s].msg /\ rows[m].of = s /\ m # 0
    BY <1>8, <1>b, SavesRow, ZenonT(40) DEF Aimed, Save
  <2>2. PICK w : /\ RowBecomes(m, w) /\ w.of = s /\ w.given = rows[m].given
                 /\ w.status = IF sess[s].chunk = "delta" THEN "streaming"
                               ELSE IF sess[s].chunk = "eos" THEN "success" ELSE "failed"
                 /\ w.text = IF sess[s].chunk = "delta" THEN sess[s].snap.text + 1
                             ELSE sess[s].snap.text
    BY <1>8, <2>1, SavesRow
  <2>3. PICK n : n = IF sess[s].chunk = "eos" THEN 0 ELSE sess[s].msg
    OBVIOUS
  <2>4. n \in Nat
    BY <1>b, <2>3 DEF SessSet
  <2>5. sess' = [sess EXCEPT ![s].at = "publish", ![s].snap = NoRow, ![s].msg = n]
    BY <1>8, <2>3 DEF Save
  <2>6. PICK y : /\ Becomes(s, y) /\ y.at = "publish" /\ y.snap = NoRow /\ y.msg = n
                 /\ y.chunk = sess[s].chunk /\ SameFate(sess[s], y)
    BY <1>0, <2>4, <2>5, Saves
  <2>7. /\ sess[s].at = "save" /\ cancels' = cancels /\ flag' = flag /\ y.stop = sess[s].stop
        /\ sess[s].chunk \in {"delta", "eos", "error"} /\ sess[s].snap \in RowSet
    BY <1>8, <1>b, <2>6 DEF Save, SameFate, Aimed
  <2>8. /\ Len(rows') = Len(rows) /\ Messages' = Messages /\ rows'[m] = w
        /\ \A l \in Messages : l # m => rows'[l] = rows[l]
    BY <2>2 DEF RowBecomes, Messages
  <2>9. w.status = "success" => w.text = w.given
    <3>1. Ended(sess[s], rows)
      BY <1>a DEF Whole
    <3> QED BY <2>1, <2>2, <2>7, <3>1 DEF Ended, Ending
  <2>10. ASSUME NEW l \in Messages'
         PROVE  /\ l \in Messages /\ rows'[l].of = rows[l].of
                /\ rows'[l].of = s => Counted(rows', l)
                /\ Unflagged => rows'[l].status # "stopped"
                /\ rows[l].of # s => rows'[l] = rows[l]
    <3>1. CASE l = m
      BY <2>1, <2>2, <2>8, <2>9, <3>1 DEF Counted
    <3>2. CASE l # m
      BY <1>a, <2>8, <3>2 DEF Whole, Counted, Unflagged
    <3> QED BY <3>1, <3>2
  <2>11. ~Ending(y)
    BY <2>6 DEF Ending
  <2>12. /\ Ended(y, rows') /\ Agrees(y.stop, y, rows')
         /\ \A r \in Sessions : Agrees(sess[r].stop, y, rows')
         /\ \A c \in Cancels : Agrees(cancels[c], y, rows')
    BY <2>11 DEF Ended, Agrees
  <2>13. Whole'
    BY <1>0, <1>a, <1>c, <2>6, <2>7, <2>8, <2>10, <2>12, CountsOn
  <2>14. ASSUME Unflagged PROVE Unflagged'
    <3>1. Counts(sess[s], rows) /\ y.stop.at # "save"
      BY <2>7, <2>14 DEF Unflagged
    <3>2. /\ sess[s].chunk = "delta" => rows[m].given = rows[m].text + 1
          /\ sess[s].chunk # "delta" => rows[m].given = rows[m].text + 0
          /\ sess[s].snap.text = rows[m].text
      BY <2>1, <2>7, <3>1 DEF Counts
    <3>3. rows[m].text \in Nat
      BY <1>0, RowTyped DEF RowSet
    <3>4. w.given = w.text + 0 /\ (w.status = "failed" => sess[s].chunk = "error")
      BY <2>2, <2>7, <3>2, <3>3
    <3>5. Counts(y, rows')
      BY <2>1, <2>3, <2>6, <2>8, <3>4 DEF Counts
    <3>6. \A l \in Messages' : /\ l \notin Messages => rows'[l].of = s
                               /\ rows'[l].of = rows[l].of \/ l \notin Messages
                               /\ rows'[l].of = s => rows'[l].status # "stopped"
      BY <2>10, <2>14
    <3> QED BY <1>0, <1>c, <2>6, <2>7, <2>8, <2>10, <2>14, <3>1, <3>5, <3>6, UnflaggedOn
  <2> QED BY <1>a, <2>7, <2>13, <2>14
<1>9. ASSUME NEW s \in Sessions, Publish(s) PROVE Whole' /\ (flag' \/ Unflagged')
  <2>1. PICK e : e = IF sess[s].finished THEN sess[s].sent ELSE Append(sess[s].sent, sess[s].event)
    OBVIOUS
  <2>2. e \in Seq(Nat)
    BY <1>b, <2>1 DEF SessSet
  <2>3. sess[s].at = "publish" /\ rows' = rows /\ cancels' = cancels /\ flag' = flag
    BY <1>9 DEF Publish
  <2>4. PICK y : /\ Becomes(s, y) /\ y.at = "read" /\ y.event = 0 /\ y.sent = e
                 /\ y.chunk = sess[s].chunk /\ y.msg = sess[s].msg
                 /\ y.snap = sess[s].snap /\ SameFate(sess[s], y)
    <3>1. sess' = [sess EXCEPT ![s].at = "read", ![s].event = 0, ![s].sent = e]
      <4>1. CASE sess[s].finished
        <5>1. sess' = [sess EXCEPT ![s].at = "read", ![s].event = 0]
          BY <1>9, <4>1 DEF Publish
        <5> QED BY <1>0, <1>b, <2>1, <4>1, <5>1 DEF SessSet, Sessions
      <4>2. CASE ~sess[s].finished
        BY <1>9, <2>1, <4>2 DEF Publish
      <4> QED BY <4>1, <4>2
    <3> QED BY <1>0, <2>2, <3>1, Publishes
  <2>5. ~Ending(y) /\ Ended(y, rows) /\ y.stop = sess[s].stop
    BY <2>4 DEF Ending, Ended, SameFate
  <2>6. Unflagged => Counts(y, rows)
    BY <2>3, <2>4 DEF Unflagged, Counts
  <2> QED BY <1>1, <2>3, <2>4, <2>5, <2>6
<1>10. ASSUME NEW s \in Sessions, EndStream(s) PROVE Whole' /\ (flag' \/ Unflagged')
  <2>1. PICK y : /\ Becomes(s, y) /\ y.at = "over" /\ y.msg = 0 /\ y.stop = sess[s].stop
    BY <1>0, <1>10, Ends
  <2>2. ~Ending(y) /\ Ended(y, rows) /\ Counts(y, rows) /\ Counts(y, rows') /\ cancels' = cancels
        /\ flag' = flag
    BY <1>10, <2>1 DEF Ending, Ended, EndStream, Counts
  <2>3. CASE rows' = rows
    BY <1>1, <2>1, <2>2, <2>3
  <2>4. CASE rows' # rows
    <3>1. PICK m \in Messages : m = sess[s].msg /\ rows[m].of = s
      BY <1>10, <2>4, EndsRow
    <3>2. PICK w : /\ RowBecomes(m, w) /\ w.status = rows[m].status /\ w.text = rows[m].text
                   /\ w.of = s /\ w.given = rows[m].given
      BY <1>10, <2>4, <3>1, EndsRow
    <3>3. /\ Len(rows') = Len(rows) /\ Messages' = Messages /\ rows'[m] = w
          /\ \A l \in Messages : l # m => rows'[l] = rows[l]
      BY <3>2 DEF RowBecomes, Messages
    <3>4. ASSUME NEW l \in Messages'
          PROVE  /\ l \in Messages /\ rows'[l].of = rows[l].of
                 /\ rows'[l].of = s => Counted(rows', l)
                 /\ Unflagged => rows'[l].status # "stopped"
                 /\ rows[l].of # s => rows'[l] = rows[l]
      <4>1. CASE l = m
        BY <1>a, <3>1, <3>2, <3>3, <4>1 DEF Counted, Whole, Unflagged
      <4>2. CASE l # m
        BY <1>a, <3>3, <4>2 DEF Whole, Counted, Unflagged
      <4> QED BY <4>1, <4>2
    <3>5. /\ Ended(y, rows') /\ Agrees(y.stop, y, rows')
          /\ \A r \in Sessions : Agrees(sess[r].stop, y, rows')
          /\ \A c \in Cancels : Agrees(cancels[c], y, rows')
      BY <2>2 DEF Ended, Agrees
    <3>6. Whole'
      BY <1>0, <1>a, <1>c, <2>1, <2>2, <3>3, <3>4, <3>5, CountsOn
    <3>7. ASSUME Unflagged PROVE Unflagged'
      <4>1. y.stop.at # "save"
        BY <2>1, <3>7 DEF Unflagged
      <4>2. \A l \in Messages' : /\ l \notin Messages => rows'[l].of = s
                                 /\ rows'[l].of = rows[l].of \/ l \notin Messages
                                 /\ rows'[l].of = s => rows'[l].status # "stopped"
        BY <3>4, <3>7
      <4> QED BY <1>0, <1>c, <2>1, <2>2, <3>3, <3>4, <3>7, <4>1, <4>2, UnflaggedOn
    <3> QED BY <1>a, <2>2, <3>6, <3>7
  <2> QED BY <2>3, <2>4
<1>11. ASSUME NEW s \in Sessions, Quit(s) PROVE Whole' /\ (flag' \/ Unflagged')
  <2>1. PICK y : Becomes(s, y) /\ y.at = "over" /\ y.msg = 0 /\ SameFate(sess[s], y)
    BY <1>0, <1>11, Quits
  <2>2. ~Ending(y) /\ Ended(y, rows) /\ Counts(y, rows) /\ y.stop = sess[s].stop
    BY <2>1 DEF Ending, Ended, Counts, SameFate
  <2> QED BY <1>1, <1>11, <2>1, <2>2 DEF Quit
<1>12. ASSUME NEW s \in Sessions, CleanUp(s) PROVE Whole' /\ (flag' \/ Unflagged')
  <2>1. PICK y : /\ Becomes(s, y) /\ y.at = sess[s].at /\ SameCourse(sess[s], y)
                 /\ y.stop = sess[s].stop
    BY <1>0, <1>12, Cleans
  <2>2. /\ Ending(y) => Ending(sess[s]) /\ y.msg = sess[s].msg
        /\ Ended(y, rows) /\ (Unflagged => Counts(y, rows))
    BY <1>a, <2>1, SMTT(20) DEF Ending, Ended, Counts, SameCourse, Whole, Unflagged
  <2> QED BY <1>1, <1>12, <2>1, <2>2 DEF CleanUp
\* A stop moves on, or ends.
<1>13. ASSUME NEW s \in Sessions, NEW y, Becomes(s, y), SameCourse(sess[s], y), y.at = sess[s].at,
              rows' = rows, cancels' = cancels,
              \A r \in Sessions : Agrees(y.stop, sess[r], rows),
              flag' \/ (flag' = flag /\ y.stop.at # "save")
       PROVE  Whole' /\ (flag' \/ Unflagged')
  <2>1. /\ Len(sess') = Len(sess) /\ Sessions' = Sessions
        /\ \A r \in Sessions : sess'[r] = IF r = s THEN y ELSE sess[r]
    BY <1>13 DEF Becomes, Sessions
  <2>2. ASSUME NEW r \in Sessions
        PROVE  SameCourse(sess[r], sess'[r]) /\ sess'[r].at = sess[r].at
    BY <1>13, <2>1 DEF SameCourse
  <2>3. \A r \in Sessions, q \in Sessions : Agrees(sess'[q].stop, sess[r], rows)
    BY <1>a, <1>13, <2>1 DEF Whole
  <2>4. \A r \in Sessions, c \in Cancels : Agrees(cancels'[c], sess[r], rows)
    BY <1>a, <1>13 DEF Whole
  <2>5. Whole'
    BY <1>0, <1>a, <1>c, <1>13, <2>1, <2>2, <2>3, <2>4, StopsCount
  <2>6. ASSUME ~flag' PROVE Unflagged'
    <3>1. Unflagged /\ y.stop.at # "save"
      BY <1>a, <1>13, <2>6
    <3> QED BY <1>13, <2>1, <2>2, <3>1, UnflaggedStays DEF Unflagged
  <2> QED BY <2>5, <2>6
\* What is read of the latest open message agrees with every session.
<1>d. ASSUME NEW z, LatestOpen # 0, z.at = "save", z.msg = LatestOpen, z.snap = rows[LatestOpen],
             NEW r \in Sessions
      PROVE  Agrees(z, sess[r], rows)
  BY <1>a, <1>d DEF Whole, Ended, Agrees
<1>14. ASSUME NEW s \in Sessions, StopFind(s) PROVE Whole' /\ (flag' \/ Unflagged')
  <2>1. rows' = rows /\ cancels' = cancels /\ flag' /\ sess[s].stop \in StopSet
    BY <1>14, <1>b DEF StopFind, SessSet
  <2>2. ASSUME NEW p \in StopSet, sess' = [sess EXCEPT ![s].stop = p],
               \A r \in Sessions : Agrees(p, sess[r], rows)
        PROVE  Whole' /\ (flag' \/ Unflagged')
    <3>1. PICK y : /\ Becomes(s, y) /\ y.stop = p /\ y.at = sess[s].at
                   /\ SameCourse(sess[s], y) /\ y.aborted = sess[s].aborted
                   /\ y.finished = sess[s].finished /\ y.clean = sess[s].clean
                   /\ y.covered = sess[s].covered
      <4>1. sess' = [sess EXCEPT ![s].stop = p]
        BY <2>2
      <4>2. s \in Sessions /\ p \in StopSet
        OBVIOUS
      <4> QED BY <1>0, <4>1, <4>2, StopMoves
    <3> QED BY <1>13, <2>1, <2>2, <3>1
  <2>3. CASE LatestOpen = 0
    <3>1. PICK p : p = [sess[s].stop EXCEPT !.at = "publish"]
      OBVIOUS
    <3>2. p \in StopSet /\ p.at = "publish"
      BY <2>1, <3>1 DEF StopSet
    <3>3. sess' = [sess EXCEPT ![s].stop = p]
      BY <1>14, <2>3, <3>1 DEF StopFind
    <3>4. \A r \in Sessions : Agrees(p, sess[r], rows)
      BY <3>2 DEF Agrees
    <3> QED BY <2>2, <3>2, <3>3, <3>4
  <2>4. CASE LatestOpen # 0
    <3>1. PICK p : p = [at |-> "save", msg |-> LatestOpen, snap |-> rows[LatestOpen]]
      OBVIOUS
    <3>2. p \in StopSet /\ p.at = "save" /\ p.msg = LatestOpen /\ p.snap = rows[LatestOpen]
      <4>1. LatestOpen \in Messages
        BY <1>0, <2>4, LatestFound
      <4>2. LatestOpen \in Nat /\ rows[LatestOpen] \in SnapSet
        BY <1>0, <4>1, RowTyped DEF SnapSet, Messages
      <4> QED BY <3>1, <4>2 DEF StopSet
    <3>3. sess' = [sess EXCEPT ![s].stop = p]
      BY <1>14, <2>4, <3>1 DEF StopFind
    <3>4. \A r \in Sessions : Agrees(p, sess[r], rows)
      BY <1>d, <2>4, <3>2
    <3> QED BY <2>2, <3>2, <3>3, <3>4
  <2> QED BY <2>3, <2>4
\* A message is saved as stopped, over whatever is in progress.
<1>15. ASSUME NEW z, z.at = "save", Read(z, rows), \A r \in Sessions : Agrees(z, sess[r], rows),
              rows' = Saved(z.msg, [z.snap EXCEPT !.status = "stopped"]), flag,  flag' = flag,
              Len(sess') = Len(sess),
              \A r \in Sessions : /\ SameCourse(sess[r], sess'[r]) /\ sess'[r].at = sess[r].at
                                  /\ sess'[r].stop.at = "save" => sess'[r].stop = sess[r].stop,
              \A c \in Cancels : cancels'[c].at = "save" => cancels'[c] = cancels[c]
       PROVE  Whole' /\ (flag' \/ Unflagged')
  <2>1. PICK m \in Messages : m = z.msg
    BY <1>15 DEF Read, Messages
  <2>2. PICK d \in RowSet : d = z.snap /\ d.of = rows[m].of
    BY <1>15, <2>1 DEF Read
  <2>3. rows' = Saved(m, [d EXCEPT !.status = "stopped"])
    BY <1>15, <2>1, <2>2
  <2>4. PICK w : /\ RowBecomes(m, w) /\ w.status = "stopped" /\ w.text = d.text
                 /\ w.given = rows[m].given
    BY <2>2, <2>3, Settles
  <2>5. ASSUME NEW n \in Messages
        PROVE  /\ rows'[n].given = rows[n].given
               /\ \/ rows'[n].text = rows[n].text /\ rows'[n].status = rows[n].status
                  \/ /\ rows'[n].status = "stopped"
                     /\ \A r \in Sessions : Ending(sess[r]) /\ sess[r].msg = n =>
                                              rows'[n].text = rows[n].given
    <3>1. CASE n = m
      BY <1>15, <2>1, <2>2, <2>4, <3>1 DEF RowBecomes, Agrees
    <3>2. CASE n # m
      BY <2>4, <3>2 DEF RowBecomes
    <3> QED BY <3>1, <3>2
  <2>6. \A r \in Sessions, q \in Sessions : Agrees(sess'[q].stop, sess[r], rows)
    BY <1>a, <1>15 DEF Whole, Agrees
  <2>7. \A r \in Sessions, c \in Cancels : Agrees(cancels'[c], sess[r], rows)
    BY <1>a, <1>15 DEF Whole, Agrees
  <2>8. /\ Sessions' = Sessions /\ Len(rows') = Len(rows)
        /\ \A r \in Sessions : SameCourse(sess[r], sess'[r]) /\ sess'[r].at = sess[r].at
    BY <1>15, <2>4 DEF Sessions, RowBecomes
  <2>9. /\ Len(sess) <= Len(sess')
        /\ \A r \in Sessions' \ Sessions : sess'[r].at = "open" /\ sess'[r].stop.at = "none"
    BY <1>0, <1>15, <2>8
  <2>10. Whole'
    BY <1>a, <1>c, <2>5, <2>6, <2>7, <2>8, <2>9, StopsCount
  <2> QED BY <1>15, <2>10
<1>16. ASSUME NEW s \in Sessions, StopSave(s) PROVE Whole' /\ (flag' \/ Unflagged')
  <2>1. PICK z : z = sess[s].stop
    OBVIOUS
  <2>2. /\ z.at = "save" /\ Read(z, rows) /\ \A r \in Sessions : Agrees(z, sess[r], rows)
        /\ rows' = Saved(z.msg, [z.snap EXCEPT !.status = "stopped"])
        /\ flag' = flag /\ cancels' = cancels
    BY <1>a, <1>16, <1>b, <2>1 DEF StopSave, Whole
  <2>3. flag
    BY <1>a, <2>1, <2>2 DEF Unflagged
  <2>4. PICK p : p = [NoStop EXCEPT !.at = "publish"]
    OBVIOUS
  <2>5. p \in StopSet /\ p.at = "publish"
    BY <2>4 DEF StopSet, NoStop, SnapSet
  <2>6. sess' = [sess EXCEPT ![s].stop = p]
    BY <1>16, <2>4 DEF StopSave
  <2>7. PICK y : /\ Becomes(s, y) /\ y.stop = p /\ y.at = sess[s].at
                 /\ SameCourse(sess[s], y) /\ y.aborted = sess[s].aborted
                 /\ y.finished = sess[s].finished /\ y.clean = sess[s].clean
                 /\ y.covered = sess[s].covered
    BY <1>0, <2>5, <2>6, StopMoves
  <2>8. ASSUME NEW r \in Sessions
        PROVE  /\ SameCourse(sess[r], sess'[r]) /\ sess'[r].at = sess[r].at
               /\ sess'[r].stop.at = "save" => sess'[r].stop = sess[r].stop
    <3>1. CASE r = s
      BY <2>5, <2>7, <3>1 DEF Becomes
    <3>2. CASE r # s
      BY <2>7, <3>2 DEF Becomes, SameCourse
    <3> QED BY <3>1, <3>2
  <2>9. Len(sess') = Len(sess)
    BY <2>7 DEF Becomes
  <2> QED BY <1>15, <2>2, <2>3, <2>8, <2>9
<1>17. ASSUME NEW s \in Sessions, StopEnd(s) PROVE Whole' /\ (flag' \/ Unflagged')
  <2>1. PICK y : /\ Becomes(s, y) /\ y.stop = NoStop /\ y.at = sess[s].at
                 /\ y.chunk = sess[s].chunk /\ y.msg = sess[s].msg /\ y.snap = sess[s].snap
    BY <1>0, <1>17, StopEnds
  <2>2. rows' = rows /\ cancels' = cancels /\ flag' = flag
    BY <1>17 DEF StopEnd
  <2>3. /\ Ending(y) => Ending(sess[s]) /\ y.msg = sess[s].msg
        /\ Ended(y, rows) /\ (Unflagged => Counts(y, rows))
    BY <1>a, <2>1 DEF Ending, Ended, Counts, Whole, Unflagged
  <2>4. /\ \A r \in Sessions : Agrees(sess[r].stop, y, rows')
        /\ \A c \in Cancels : Agrees(cancels[c], y, rows')
    BY <1>a, <2>2, <2>3 DEF Whole, Agrees
  <2>5. y.stop.at = "none" /\ Agrees(y.stop, y, rows') /\ Ended(y, rows')
    BY <2>1, <2>2, <2>3 DEF NoStop, Agrees
  <2>6. \A m \in Messages' : /\ m \in Messages /\ rows'[m].of = rows[m].of
                             /\ rows'[m].of = s => Counted(rows', m)
    BY <1>a, <2>2 DEF Whole, Counted, Messages
  <2>7. Whole'
    BY <1>0, <1>a, <1>c, <2>1, <2>2, <2>4, <2>5, <2>6, CountsOn
  <2>8. ASSUME Unflagged PROVE Unflagged'
    <3>1. Counts(y, rows') /\ \A m \in Messages' : rows'[m].status # "stopped"
      BY <2>2, <2>3, <2>8 DEF Unflagged, Messages
    <3> QED BY <1>0, <1>c, <2>1, <2>2, <2>5, <2>6, <2>8, <3>1, UnflaggedOn
  <2> QED BY <1>a, <2>2, <2>7, <2>8
<1>18. ASSUME NEW s \in Sessions, Hear(s) PROVE Whole' /\ (flag' \/ Unflagged')
  BY <1>4, <1>18 DEF Hear
<1>e. ASSUME NEW c \in Cancels, cancels[c].at # "idle"
      PROVE  flag /\ cancels[c] \in [at : {"look", "save", "publish", "done"}, server : Servers,
                                     msg : Nat, snap : SnapSet]
  BY <1>0, <1>a, <1>e, CancelTyped DEF Unflagged, CancelSet
<1>19. ASSUME NEW c \in Cancels, CancelHere(c) PROVE Whole' /\ (flag' \/ Unflagged')
  <2>1. PICK s \in Sessions : sess' = [sess EXCEPT ![s] = Stopping(@)]
    BY <1>19 DEF CancelHere, Current
  <2>2. rows' = rows /\ flag' = flag /\ cancels[c].at = "look"
    BY <1>19 DEF CancelHere
  <2>3. PICK q : q = [cancels[c] EXCEPT !.at = "done"]
    OBVIOUS
  <2>4. q \in CancelSet /\ q.at = "done"
    BY <1>e, <2>2, <2>3 DEF CancelSet
  <2>5. cancels' = [cancels EXCEPT ![c] = q]
    BY <1>19, <2>3 DEF CancelHere
  <2>6. \A d \in Cancels : cancels'[d].at = "save" => cancels'[d] = cancels[d]
    BY <1>0, <2>4, <2>5, CancelMoves
  <2> QED BY <1>4, <1>e, <2>1, <2>2, <2>6
\* A step of a cancellation that leaves the sessions and the messages alone.
<1>20. ASSUME NEW c \in Cancels, NEW q \in CancelSet, cancels' = [cancels EXCEPT ![c] = q],
              cancels[c].at # "idle", \A r \in Sessions : Agrees(q, sess[r], rows),
              UNCHANGED <<sess, rows, flag>>
       PROVE  Whole' /\ (flag' \/ Unflagged')
  <2>1. \A r \in Sessions, d \in Cancels : Agrees(cancels'[d], sess[r], rows)
    BY <1>0, <1>a, <1>20, CancelMoves DEF Whole
  <2>2. Whole'
    BY <1>a, <1>20, <2>1 DEF Whole, Sessions, Messages
  <2> QED BY <1>e, <1>20, <2>2
<1>21. ASSUME NEW c \in Cancels, CancelFind(c) PROVE Whole' /\ (flag' \/ Unflagged')
  <2>1. cancels[c].at = "look" /\ UNCHANGED <<sess, rows, flag>>
    BY <1>21 DEF CancelFind
  <2>2. CASE LatestOpen = 0
    <3>1. PICK q : q = [cancels[c] EXCEPT !.at = "publish"]
      OBVIOUS
    <3>2. q \in CancelSet /\ q.at = "publish"
      BY <1>e, <2>1, <3>1 DEF CancelSet
    <3>3. cancels' = [cancels EXCEPT ![c] = q]
      BY <1>21, <2>2, <3>1 DEF CancelFind
    <3>4. \A r \in Sessions : Agrees(q, sess[r], rows)
      BY <3>2 DEF Agrees
    <3> QED BY <1>20, <2>1, <3>2, <3>3, <3>4
  <2>3. CASE LatestOpen # 0
    <3>1. PICK m \in Messages : m = LatestOpen
      BY <1>0, <2>3, LatestFound
    <3>2. PICK q : q = [cancels[c] EXCEPT !.at = "save", !.msg = m, !.snap = rows[m]]
      OBVIOUS
    <3>3. m \in Nat /\ rows[m] \in SnapSet
      BY <1>0, <3>1, RowTyped DEF SnapSet, Messages
    <3>4. q \in CancelSet /\ q.at = "save" /\ q.msg = m /\ q.snap = rows[m]
      <4>1. q \in [at : {"look", "save", "publish", "done"}, server : Servers, msg : Nat, snap : SnapSet]
            /\ q.at = "save" /\ q.msg = m /\ q.snap = rows[m]
        BY <1>e, <2>1, <3>2, <3>3
      <4> QED BY <4>1 DEF CancelSet
    <3>5. cancels' = [cancels EXCEPT ![c] = q]
      BY <1>21, <2>3, <3>1, <3>2 DEF CancelFind
    <3>6. \A r \in Sessions : Agrees(q, sess[r], rows)
      BY <1>d, <2>3, <3>1, <3>4
    <3> QED BY <1>20, <2>1, <3>4, <3>5, <3>6
  <2> QED BY <2>2, <2>3
<1>22. ASSUME NEW c \in Cancels, CancelSave(c) PROVE Whole' /\ (flag' \/ Unflagged')
  <2>1. PICK z : z = cancels[c]
    OBVIOUS
  <2>2. /\ z.at = "save" /\ Read(z, rows) /\ \A r \in Sessions : Agrees(z, sess[r], rows)
        /\ rows' = Saved(z.msg, [z.snap EXCEPT !.status = "stopped"])
        /\ flag' = flag /\ sess' = sess
    BY <1>a, <1>22, <2>1 DEF CancelSave, Whole, StreamInv, Pointed
  <2>3. flag
    BY <1>e, <2>1, <2>2
  <2>4. PICK q : q = [cancels[c] EXCEPT !.at = "publish", !.snap = NoRow]
    OBVIOUS
  <2>5. q \in CancelSet /\ q.at = "publish"
    BY <1>e, <2>1, <2>2, <2>4 DEF CancelSet, SnapSet
  <2>6. cancels' = [cancels EXCEPT ![c] = q]
    BY <1>22, <2>4 DEF CancelSave
  <2>7. \A d \in Cancels : cancels'[d].at = "save" => cancels'[d] = cancels[d]
    BY <1>0, <2>5, <2>6, CancelMoves
  <2>8. \A r \in Sessions : SameCourse(sess[r], sess'[r])
    BY <2>2 DEF SameCourse
  <2> QED BY <1>15, <2>2, <2>3, <2>7, <2>8
<1>23. ASSUME NEW c \in Cancels, CancelPublish(c) PROVE Whole' /\ (flag' \/ Unflagged')
  <2>1. PICK q : q = [cancels[c] EXCEPT !.at = "done"]
    OBVIOUS
  <2>2. cancels[c].at = "publish" /\ UNCHANGED <<sess, rows, flag>>
    BY <1>23 DEF CancelPublish
  <2>3. q \in CancelSet /\ q.at = "done"
    BY <1>e, <2>1, <2>2 DEF CancelSet
  <2>4. cancels' = [cancels EXCEPT ![c] = q]
    BY <1>23, <2>1 DEF CancelPublish
  <2>5. \A r \in Sessions : Agrees(q, sess[r], rows)
    BY <2>3 DEF Agrees
  <2> QED BY <1>20, <2>2, <2>3, <2>4, <2>5
<1>24. ASSUME NEW c \in Cancels, NEW v \in Servers, Cancel(c, v) PROVE Whole' /\ (flag' \/ Unflagged')
  <2>1. /\ Len(sess') = Len(sess) /\ Sessions' = Sessions
        /\ \A r \in Sessions : /\ SameCourse(sess[r], sess'[r]) /\ sess'[r].at = sess[r].at
                               /\ sess'[r].stop = sess[r].stop
    BY <1>0, <1>24, Covers DEF Sessions
  <2>2. /\ rows' = rows /\ flag'
        /\ cancels' = [cancels EXCEPT ![c] = [at |-> "look", server |-> v, msg |-> 0, snap |-> NoRow]]
    BY <1>24 DEF Cancel
  <2>3. \A d \in Cancels : cancels'[d].at = "save" => cancels'[d] = cancels[d]
    BY <1>0, <2>2 DEF StreamTyped
  <2>4. /\ \A r \in Sessions, q \in Sessions : Agrees(sess'[q].stop, sess[r], rows)
        /\ \A r \in Sessions, d \in Cancels : Agrees(cancels'[d], sess[r], rows)
    BY <1>a, <2>1, <2>3 DEF Whole, Agrees
  <2> QED BY <1>0, <1>a, <1>c, <2>1, <2>2, <2>4, StopsCount
<1>25. ASSUME NEW v \in Servers, StartSession(v) PROVE Whole' /\ (flag' \/ Unflagged')
  <2>1. /\ Len(sess') = Len(sess) + 1
        /\ \A r \in Sessions :
             /\ SameCourse(sess[r], sess'[r]) /\ SameFate(sess[r], sess'[r])
             /\ sess'[r].at = sess[r].at
        /\ sess'[Len(sess) + 1] = Fresh(v)
    BY <1>0, <1>25, Starts
  <2>2. UNCHANGED <<rows, flag, cancels>> /\ \A r \in Sessions : sess'[r].stop = sess[r].stop
    BY <1>25, <2>1 DEF StartSession, SameFate
  <2>3. ASSUME NEW r \in Sessions' \ Sessions
        PROVE  sess'[r].at = "open" /\ sess'[r].stop.at = "none" /\ sess'[r].msg = 0
    <3>1. r = Len(sess) + 1
      BY <1>0, <2>1 DEF Sessions
    <3> QED BY <2>1, <3>1 DEF Fresh, NoStop
  <2>4. /\ \A r \in Sessions, q \in Sessions : Agrees(sess'[q].stop, sess[r], rows)
        /\ \A r \in Sessions, c \in Cancels : Agrees(cancels'[c], sess[r], rows)
    BY <1>a, <2>2 DEF Whole
  <2>5. Whole'
    <3>1. Len(sess) <= Len(sess')
      BY <1>0, <2>1
    <3> QED BY <1>0, <1>a, <1>c, <2>1, <2>2, <2>3, <2>4, <3>1, StopsCount
  <2>6. ASSUME Unflagged PROVE Unflagged'
    <3>1. \A r \in Sessions : sess'[r].stop.at # "save"
      BY <2>2, <2>6 DEF Unflagged
    <3> QED BY <2>1, <2>2, <2>3, <2>6, <3>1, UnflaggedStays
  <2> QED BY <1>a, <2>2, <2>5, <2>6
<1> QED BY <1>3, <1>5, <1>6, <1>7, <1>8, <1>9, <1>10, <1>11, <1>12, <1>14, <1>16, <1>17, <1>18,
           <1>19, <1>21, <1>22, <1>23, <1>24, <1>25 DEF Next
AgentInv == StreamInv /\ Lives /\ Covering /\ Resuming /\ SettlingAll /\ Counting

\* All of these together.
LEMMA AgentAlways == Spec => []AgentInv
<1>1. Init => AgentInv
  <2> SUFFICES ASSUME Init PROVE AgentInv
    OBVIOUS
  <2>1. /\ rows = <<>> /\ sess = <<>> /\ active = FALSE /\ flag = FALSE /\ seq = 0 /\ log = <<>>
        /\ cancels = [c \in Cancels |-> [at |-> "idle"]] /\ lapses = {}
    BY DEF Init
  <2>2. Sessions = {} /\ Messages = {}
    BY <2>1 DEF Sessions, Messages
  <2>3. [at |-> "idle"] \in CancelSet
    BY DEF CancelSet
  <2>4. StreamTyped
    <3>1. <<>> \in Seq(RowSet) /\ <<>> \in Seq(SessSet) /\ <<>> \in Seq(LogSet)
      OBVIOUS
    <3>2. cancels \in [Cancels -> CancelSet]
      BY <2>1, <2>3
    <3> QED BY <2>1, <3>1, <3>2 DEF StreamTyped
  <2>5. \A c \in Cancels : cancels[c].at = "idle"
    BY <2>1
  <2>6. StreamInv
    BY <2>2, <2>4, <2>5 DEF StreamInv, Pointed, Read
  <2>7. Lives /\ Covering /\ SettlingAll
    BY <2>2 DEF Lives, Covering, SettlingAll
  <2>8. Resuming
    BY <2>1, <2>2 DEF Resuming
  <2>9. Counting
    BY <2>2, <2>5 DEF Counting, Whole, Unflagged
  <2> QED BY <2>6, <2>7, <2>8, <2>9 DEF AgentInv
<1>2. AgentInv /\ [Next]_vars => AgentInv'
  BY StreamStep, LifeStep, CoverStep, ResumeStep, SettleStep, CountStep DEF AgentInv
<1> QED BY <1>1, <1>2, PTL DEF Spec

\* A message is settled when its session, which was alone, is gone, unless it
\* lapsed; and one that is successful holds all that was accepted for it.
THEOREM MessagesAlwaysSound == Spec => []MessagesSound
<1>1. AgentInv => MessagesSound
  <2> SUFFICES ASSUME AgentInv, NEW m \in Messages
               PROVE  LET s == rows[m].of IN
                      /\ sess[s].alone /\ Gone(s) /\ ~rows[m].lapse => rows[m].status \in Settled
                      /\ rows[m].status = "success" /\ "cleared" \notin lapses
                           => rows[m].text = rows[m].given
    BY DEF MessagesSound
  <2>1. PICK s \in Sessions : s = rows[m].of
    BY DEF AgentInv, StreamInv, Pointed
  <2>2. rows[m].status \in Open \union Settled
    BY RowTyped DEF AgentInv, StreamInv, StreamTyped, RowSet
  <2>3. ASSUME sess[s].alone, Gone(s), ~rows[m].lapse PROVE rows[m].status \notin Open
    <3>1. sess[s].at = "over" /\ sess[s].stop.at = "none"
      BY <2>3 DEF Gone
    <3>2. Settling(sess[s], s, rows) /\ m \in 1..Len(rows)
      BY DEF AgentInv, SettlingAll, Messages
    <3> QED BY <2>1, <2>3, <3>1, <3>2 DEF Settling, Loose
  <2>4. ASSUME rows[m].status = "success", "cleared" \notin lapses
        PROVE  rows[m].text = rows[m].given
    BY <2>4 DEF AgentInv, Counting, Whole, Counted
  <2> QED BY <2>1, <2>2, <2>3, <2>4
<1> QED BY <1>1, AgentAlways, PTL

\* Once a cancellation has run its course, the sessions that listened when it
\* began are finished, but for those it spared because it stopped another: of
\* these the flag is set, unless the start of a session took it.
THEOREM CancelsAlwaysTakeEffect == Spec => []CancelsTakeEffect
<1>1. AgentInv => CancelsTakeEffect
  <2> SUFFICES ASSUME AgentInv, Quiet, NEW s \in Sessions, sess[s].covered
               PROVE  sess[s].finished \/ ("spared" \in lapses /\ Flagged)
    BY DEF CancelsTakeEffect, Flagged
  <2>1. /\ Flagged
        /\ \/ s \in told \/ sess[s].aborted \/ "spared" \in lapses
           \/ \E c \in Cancels : Pending(cancels[c])
    BY DEF AgentInv, Covering
  <2>2. sess[s].aborted \/ "spared" \in lapses
    BY <2>1 DEF Quiet, Pending
  <2>3. LifeOf(sess[s], s \in listening) /\ sess[s].stop.at = "none"
    BY DEF AgentInv, Lives, Quiet
  <2> QED BY <2>1, <2>2, <2>3 DEF LifeOf
<1> QED BY <1>1, AgentAlways, PTL

\* While a session that is alone runs, a resumed stream finds the mark, and in
\* the log what its subscribers have heard.
THEOREM AlwaysResumable == Spec => []Resumable
<1>1. AgentInv => Resumable
  BY DEF AgentInv, Resuming, Resumable, Resumes
<1> QED BY <1>1, AgentAlways, PTL

(* ------------------------------- side by side ------------------------------- *)

\* A conversation and the answers that are streamed into it: the specification
\* of the run, whose behaviours are about one or the other, has all that the run
\* checks.
THEOREM ChatAlwaysSound == ChatSpec => [](MessagesSound /\ CancelsTakeEffect /\ Resumable /\ ConversationKept)
<1>1. ChatInit => Init /\ TalkInit
  BY DEF ChatInit
<1>2. [ChatNext]_chatVars => [Next]_vars /\ [TalkNext]_talkVars
  BY DEF ChatNext, chatVars
<1>3. ChatSpec => Spec /\ TalkSpec
  BY <1>1, <1>2, PTL DEF ChatSpec, Spec, TalkSpec
<1> QED
  BY <1>3, MessagesAlwaysSound, CancelsAlwaysTakeEffect, AlwaysResumable, ConversationAlwaysKept, PTL
===============================================================================
