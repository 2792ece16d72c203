------------------------- MODULE ResourceTreeProofs -------------------------
(* Proofs about ResourceTree and ResourceAccess, for any number of rows,     *)
(* requests and readers' steps.                                              *)
EXTENDS ResourceAccess, SequenceTheorems, FiniteSetTheorems, WellFoundedInduction, TLAPS

\* Marking a request changes nothing but its two marks.
LEMMA MarkedFields ==
  ASSUME NEW q \in Request, NEW m, NEW n
  PROVE  /\ Marked(q, m, n) \in Request
         /\ Marked(q, m, n).op = q.op
         /\ Marked(q, m, n).rows = q.rows
         /\ Marked(q, m, n).parent = q.parent
         /\ Marked(q, m, n).moved <=> q.moved \/ m
         /\ Marked(q, m, n) # Idle
<1>1. /\ q.moved \in BOOLEAN /\ q.named \in BOOLEAN
      /\ (q.moved \/ m) \in BOOLEAN /\ (q.named \/ n) \in BOOLEAN
  BY DEF Request
<1>2. Marked(q, m, n) \in Request
  BY <1>1 DEF Marked, Request
<1>3. /\ Marked(q, m, n).op = q.op
      /\ Marked(q, m, n).rows = q.rows
      /\ Marked(q, m, n).parent = q.parent
      /\ Marked(q, m, n).moved = (q.moved \/ m)
  BY DEF Marked, Request
<1>4. \A s \in Request : s # Idle
  BY DEF Request, Idle
<1> QED BY <1>1, <1>2, <1>3, <1>4

\* A commit leaves the requests of others what they were, but for the marks.
LEMMA DisturbedFields ==
  ASSUME req \in [Handlers -> Request \union {Idle}],
         NEW h \in Handlers, NEW rows, NEW moves, NEW k \in Handlers
  PROVE  /\ Disturbed(h, rows, moves) \in [Handlers -> Request \union {Idle}]
         /\ Disturbed(h, rows, moves)[h] = req[h]
         /\ req[k] = Idle => Disturbed(h, rows, moves)[k] = Idle
         /\ k # h /\ req[k] # Idle =>
              LET q == Disturbed(h, rows, moves)[k]
              IN /\ q \in Request /\ q # Idle
                 /\ q.op = req[k].op /\ q.rows = req[k].rows /\ q.parent = req[k].parent
                 /\ q.moved <=> req[k].moved \/ (moves /\ ~Together(h, k))
<1>1. \A i \in Handlers : i # h /\ req[i] # Idle =>
        req[i] \in Request
  OBVIOUS
<1>2. \A i \in Handlers : i # h /\ req[i] # Idle =>
        Disturbed(h, rows, moves)[i] =
          Marked(req[i], moves /\ ~Together(h, i), ~Together(h, i) /\ Overtaken(h, i, rows))
  BY DEF Disturbed
<1>3. Disturbed(h, rows, moves) \in [Handlers -> Request \union {Idle}]
  <2>1. ASSUME NEW i \in Handlers, ~(i = h \/ req[i] = Idle)
        PROVE  Marked(req[i], moves /\ ~Together(h, i), ~Together(h, i) /\ Overtaken(h, i, rows)) \in Request
    BY <1>1, <2>1, MarkedFields
  <2> QED BY <2>1 DEF Disturbed
<1>4. /\ Disturbed(h, rows, moves)[h] = req[h]
      /\ req[k] = Idle => Disturbed(h, rows, moves)[k] = Idle
  BY DEF Disturbed
<1>5. ASSUME k # h, req[k] # Idle
      PROVE  LET q == Disturbed(h, rows, moves)[k]
             IN /\ q \in Request /\ q # Idle
                /\ q.op = req[k].op /\ q.rows = req[k].rows /\ q.parent = req[k].parent
                /\ q.moved <=> req[k].moved \/ (moves /\ ~Together(h, k))
  <2> DEFINE m == moves /\ ~Together(h, k)
             n == ~Together(h, k) /\ Overtaken(h, k, rows)
  <2>1. req[k] \in Request
    BY <1>1, <1>5
  <2>2. Disturbed(h, rows, moves)[k] = Marked(req[k], m, n)
    BY <1>2, <1>5
  <2> HIDE DEF m, n
  <2>3. /\ Marked(req[k], m, n) \in Request
        /\ Marked(req[k], m, n).op = req[k].op
        /\ Marked(req[k], m, n).rows = req[k].rows
        /\ Marked(req[k], m, n).parent = req[k].parent
        /\ Marked(req[k], m, n).moved <=> req[k].moved \/ m
        /\ Marked(req[k], m, n) # Idle
    BY <2>1, MarkedFields
  <2> QED BY <2>2, <2>3 DEF m
<1> QED BY <1>3, <1>4, <1>5

\* What a commit does to the requests: its own ends, others stay what they
\* were, and those that move rows learn that a row has moved, batch moves apart.
LEMMA CommitFields ==
  ASSUME req \in [Handlers -> Request \union {Idle}],
         NEW h \in Handlers, NEW rows, NEW moves, Commit(h, rows, moves),
         NEW k \in Handlers
  PROVE  /\ req' \in [Handlers -> Request \union {Idle}]
         /\ req'[h] = Idle
         /\ req[k] = Idle => req'[k] = Idle
         /\ k # h /\ req[k] # Idle =>
              /\ req'[k] \in Request /\ req'[k] # Idle
              /\ req'[k].op = req[k].op /\ req'[k].rows = req[k].rows
              /\ req'[k].parent = req[k].parent
              /\ req'[k].moved <=> req[k].moved \/ (moves /\ ~Together(h, k))
<1> DEFINE D == Disturbed(h, rows, moves)
<1>1. req' = [D EXCEPT ![h] = Idle]
  BY DEF Commit
<1>2. /\ D \in [Handlers -> Request \union {Idle}]
      /\ req[k] = Idle => D[k] = Idle
      /\ k # h /\ req[k] # Idle =>
           /\ D[k] \in Request /\ D[k] # Idle
           /\ D[k].op = req[k].op /\ D[k].rows = req[k].rows /\ D[k].parent = req[k].parent
           /\ D[k].moved <=> req[k].moved \/ (moves /\ ~Together(h, k))
  BY DisturbedFields
<1> HIDE DEF D
<1>3. req' \in [Handlers -> Request \union {Idle}] /\ req'[h] = Idle
  BY <1>1, <1>2
<1>4. k # h => req'[k] = D[k]
  BY <1>1, <1>2
<1> QED BY <1>2, <1>3, <1>4

\* A request that begins has checked what it is about to write.
LEMMA BeginFields ==
  ASSUME req \in [Handlers -> Request \union {Idle}],
         NEW h \in Handlers, NEW op, NEW rows, NEW parent, NEW name,
         op \in {"create", "rename", "move", "batch", "reparent", "check", "restore"},
         rows \in SUBSET Resources, parent \in Parents, name \in Names,
         Begin(h, op, rows, parent, name)
  PROVE  /\ req' \in [Handlers -> Request \union {Idle}]
         /\ req'[h] \in Request
         /\ req'[h].op = op /\ req'[h].rows = rows /\ req'[h].parent = parent
         /\ ~req'[h].moved
         /\ \A k \in Handlers \ {h} : req'[k] = req[k]
<1> DEFINE q == [op |-> op, rows |-> rows, parent |-> parent,
                 name |-> name, moved |-> FALSE, named |-> FALSE]
<1>1. q \in Request
  BY DEF Request
<1>2. q.op = op /\ q.rows = rows /\ q.parent = parent /\ ~q.moved
  OBVIOUS
<1>3. req' = [req EXCEPT ![h] = q]
  BY DEF Begin
<1> HIDE DEF q
<1> QED BY <1>1, <1>2, <1>3

\* The fields of a row and of a request have their types.
LEMMA Fields ==
  ASSUME TypeOK
  PROVE  /\ \A r \in Resources : /\ row[r] \in Row
                                 /\ row[r].parent \in Parents /\ row[r].name \in Names
                                 /\ row[r].state \in {"absent", "live", "trashed"}
         /\ \A h \in Handlers : req[h].op # "idle" => req[h] \in Request /\ req[h] # Idle
         /\ \A h \in Handlers : req[h] # Idle =>
              /\ req[h].op # "idle" /\ req[h] \in Request
              /\ req[h].rows \in SUBSET Resources /\ req[h].parent \in Parents
              /\ req[h].name \in Names
         /\ Idle.op = "idle"
BY DEF TypeOK, Row, Request, Idle

(* ------------------------------- the rows -------------------------------- *)

\* A row is in its own chain, and a chain holds the parents of what it holds.
LEMMA ChainClosed ==
  ASSUME TypeOK, NEW p \in Resources
  PROVE  /\ p \in Chain(p) /\ Chain(p) \subseteq Resources
         /\ \A x \in Chain(p) : row[x].parent # None => row[x].parent \in Chain(p)
<1>1. p \in Chain(p) /\ Chain(p) \subseteq Resources
  BY DEF Chain
<1>2. ASSUME NEW x \in Chain(p), row[x].parent # None
      PROVE  row[x].parent \in Chain(p)
  <2>1. x \in Resources
    BY <1>1
  <2>2. row[x].parent \in Resources
    BY <2>1, <1>2, Fields DEF Parents
  <2>3. ASSUME NEW C \in SUBSET Resources, p \in C /\ Closed(C)
        PROVE  row[x].parent \in C
    <3>1. x \in C
      BY <1>2, <2>3 DEF Chain
    <3> QED BY <3>1, <2>3, <1>2 DEF Closed
  <2> QED BY <2>2, <2>3 DEF Chain
<1> QED BY <1>1, <1>2

\* The rows N come into being; of the others, those that were to come still are.
Arrive(N) ==
  /\ N \subseteq Resources /\ row' \in [Resources -> Row]
  /\ \A r \in N : row[r].state = "absent" /\ row'[r].state # "absent"
  /\ \A r \in Resources \ N : row'[r].state = "absent" <=> row[r].state = "absent"

\* Only the rows R change their place.
Stay(R) == \A r \in Resources \ R : row'[r].parent = row[r].parent

\* New rows do not lengthen the chain of a row that was there.
LEMMA ChainKept ==
  ASSUME TypeOK, TreeShaped, NEW N, Arrive(N), Stay(N),
         NEW p \in Resources \ N,
         NEW x \in Resources,
         \A D \in SUBSET Resources :
           p \in D /\ (\A r \in D : row'[r].parent \in D \union {None}) => x \in D
  PROVE  x \in Chain(p)
<1>1. ASSUME NEW C \in SUBSET Resources, p \in C /\ Closed(C)
      PROVE  x \in C
  <2>1. ASSUME NEW r \in C \ N
        PROVE  row'[r].parent \in (C \ N) \union {None}
    <3>1. row'[r].parent = row[r].parent /\ row[r].parent \in C \union {None}
      BY <1>1, <2>1 DEF Stay, Closed
    <3>2. row[r].parent # None => row[row[r].parent].state # "absent"
      BY <2>1 DEF TreeShaped
    <3>3. row[r].parent \in N => row[row[r].parent].state = "absent" /\ row[r].parent # None
      BY RootAssumption DEF Arrive
    <3> QED BY <3>1, <3>2, <3>3
  <2>2. p \in C \ N /\ C \ N \in SUBSET Resources
    BY <1>1
  <2>3. x \in C \ N
    BY <2>1, <2>2
  <2> QED BY <2>3
<1> QED BY <1>1 DEF Chain

\* Rows that keep their places, and rows that arrive below rows that are there,
\* leave the tree a tree.
LEMMA ShapeKept ==
  ASSUME TypeOK, TreeShaped, NEW N, NEW R \in SUBSET Resources, Arrive(N), Stay(R),
         Root \notin R, N \subseteq R,
         NEW p \in Resources, row[p].state # "absent",
         \A r \in R : row'[r].parent = p /\ row'[r].state # "absent"
  PROVE  TreeShaped'
<1>1. \A r \in Resources : row[r].state # "absent" => row'[r].state # "absent"
  BY DEF Arrive
<1>2. row'[Root].state # "absent" /\ row'[Root].parent = None
  BY <1>1, RootAssumption DEF TreeShaped, Stay
<1>3. ASSUME NEW r \in Resources
      PROVE  /\ row'[r].state = "absent" => row'[r].parent = None
             /\ row'[r].parent # None => row'[row'[r].parent].state # "absent"
  <2>1. CASE r \in R
    BY <2>1, <1>1
  <2>2. CASE r \notin R
    <3>1. row'[r].parent = row[r].parent /\ (row'[r].state = "absent" <=> row[r].state = "absent")
      BY <2>2 DEF Stay, Arrive
    <3>2. row[r].parent \in Parents
      BY Fields
    <3> QED BY <3>1, <3>2, <1>1 DEF TreeShaped, Parents
  <2> QED BY <2>1, <2>2
<1> QED BY <1>2, <1>3 DEF TreeShaped

LEMMA AcyclicKept ==
  ASSUME Acyclic, Stay({}), loose'.moved = loose.moved
  PROVE  Acyclic'
BY DEF Acyclic, Stay

\* Rows that arrive hold nothing, so that they close no circle.
LEMMA AcyclicArrive ==
  ASSUME TypeOK, TreeShaped, Acyclic, NEW N, Arrive(N), Stay(N), loose'.moved = loose.moved,
         NEW p \in Resources, row[p].state # "absent", \A r \in N : row'[r].parent = p
  PROVE  Acyclic'
<1> SUFFICES ASSUME NEW C \in SUBSET (Resources \ loose.moved),
                    \A r \in C : row'[r].parent \in C
             PROVE  C = {}
  BY DEF Acyclic
<1>1. ASSUME NEW r \in C \ N
      PROVE  row[r].parent \in C \ N
  <2>1. r \in Resources /\ row[r].parent \in C
    BY <1>1 DEF Stay
  <2>2. row[r].parent # None
    BY <2>1, RootAssumption
  <2>3. row[row[r].parent].state # "absent"
    BY <2>1, <2>2 DEF TreeShaped
  <2> QED BY <2>1, <2>3 DEF Arrive
<1>2. C \ N = {}
  BY <1>1 DEF Acyclic
<1>3. p \notin N
  BY DEF Arrive
<1> QED BY <1>2, <1>3

\* Rows that move below a row whose chain holds none of them close no circle;
\* those that move unchecked are set apart.
LEMMA AcyclicMove ==
  ASSUME TypeOK, Acyclic, NEW R \in SUBSET Resources, Stay(R), NEW p \in Resources,
         \A r \in R : row'[r].parent = p,
         NEW unchecked \in BOOLEAN, loose'.moved = With(loose.moved, R, unchecked),
         ~unchecked => R \intersect Chain(p) = {}
  PROVE  Acyclic'
<1> SUFFICES ASSUME NEW C \in SUBSET (Resources \ loose'.moved),
                    \A r \in C : row'[r].parent \in C
             PROVE  C = {}
  BY DEF Acyclic
<1>1. C \intersect R = {} => C \in SUBSET (Resources \ loose.moved)
  BY DEF With
<1>2. CASE C \intersect R = {}
  <2>1. \A r \in C : row[r].parent \in C
    BY <1>2 DEF Stay
  <2> QED BY <1>1, <1>2, <2>1 DEF Acyclic
<1>3. CASE C \intersect R # {}
  <2>1. ~unchecked
    BY <1>3 DEF With
  <2>2. p \in C
    BY <1>3
  <2> DEFINE D == C \intersect Chain(p)
  <2>3. \A r \in D : row[r].parent \in D
    <3> SUFFICES ASSUME NEW r \in D PROVE row[r].parent \in D
      OBVIOUS
    <3>1. r \notin R /\ r \in Resources
      BY <2>1
    <3>2. row[r].parent \in C
      BY <3>1 DEF Stay
    <3>3. row[r].parent # None
      BY <3>2, RootAssumption
    <3> QED BY <3>2, <3>3, ChainClosed
  <2>4. D \in SUBSET (Resources \ loose.moved)
    BY <2>1 DEF With
  <2>5. D = {}
    BY <2>3, <2>4 DEF Acyclic
  <2> QED BY <2>2, <2>5, ChainClosed
<1> QED BY <1>2, <1>3

(* ----------------------------- the requests ------------------------------ *)

\* A request goes on with what it had, or ends.
GoesOn(k) ==
  \/ req'[k] = Idle
  \/ /\ req[k] # Idle
     /\ req'[k].op = req[k].op /\ req'[k].rows = req[k].rows
     /\ req'[k].parent = req[k].parent /\ (req[k].moved => req'[k].moved)

LEMMA IdleSound ==
  ASSUME NEW k, req'[k] = Idle
  PROVE  RequestSound(k)'
BY DEF RequestSound, Idle, Moving

\* A request that goes on stays sound while rows arrive that it does not
\* create, and, unless it knows better or moves nothing, none changes its place.
LEMMA SoundKept ==
  ASSUME TypeOK, TreeShaped, NEW k \in Handlers, RequestSound(k), GoesOn(k),
         NEW N, Arrive(N),
         req[k].op = "create" => req[k].rows \intersect N = {},
         req[k].op \in Moving => Stay(N) \/ req'[k].moved
  PROVE  RequestSound(k)'
<1>1. CASE req'[k] = Idle
  BY <1>1, IdleSound
<1>2. CASE req'[k] # Idle
  <2>1. /\ req[k] # Idle /\ req[k] \in Request /\ req[k].rows \in SUBSET Resources
        /\ req[k].parent \in Parents
        /\ req'[k].op = req[k].op /\ req'[k].rows = req[k].rows
        /\ req'[k].parent = req[k].parent /\ (req[k].moved => req'[k].moved)
    BY <1>2, Fields DEF GoesOn
  <2>2. \A r \in Resources : row[r].state # "absent" => row'[r].state # "absent"
    BY DEF Arrive
  <2>3. req'[k].op \in {"create", "move", "batch", "reparent"} =>
          req'[k].parent \in Resources /\ row'[req'[k].parent].state # "absent"
    BY <2>1, <2>2 DEF RequestSound
  <2>4. req'[k].op = "create" => \A r \in req'[k].rows : row'[r].state = "absent"
    BY <2>1 DEF RequestSound, Arrive
  <2>5. req'[k].op \notin {"idle", "create"} => \A r \in req'[k].rows : row'[r].state # "absent"
    BY <2>1, <2>2 DEF RequestSound
  <2>6. /\ req'[k].op \notin {"idle", "create", "rename"} => Root \notin req'[k].rows
        /\ req'[k].op = "reparent" => req'[k].parent = Root
    BY <2>1 DEF RequestSound
  <2>7. ASSUME req'[k].op \in Moving, ~req'[k].moved
        PROVE  req'[k].rows \intersect Chain(req[k].parent)' = {}
    <3> DEFINE p == req[k].parent
    <3>1. /\ p \in Resources /\ row[p].state # "absent"
          /\ req[k].rows \intersect Chain(p) = {}
      BY <2>1, <2>7 DEF RequestSound, Moving
    <3>2. p \in Resources \ N
      BY <3>1 DEF Arrive
    <3>3. Stay(N)
      BY <2>1, <2>7
    <3>4. ASSUME NEW x \in Chain(req[k].parent)'
          PROVE  x \in Chain(p)
      <4>1. x \in Resources
        BY <3>4 DEF Chain
      <4>2. \A D \in SUBSET Resources :
              req'[k].parent \in D /\ (\A r \in D : row'[r].parent \in D \union {None}) => x \in D
        BY <3>4 DEF Chain, Closed
      <4>3. \A D \in SUBSET Resources :
              p \in D /\ (\A r \in D : row'[r].parent \in D \union {None}) => x \in D
        BY <4>2, <2>1
      <4> QED BY <3>2, <3>3, <4>1, <4>3, ChainKept
    <3> QED BY <2>1, <3>1, <3>4
  <2> QED BY <2>3, <2>4, <2>5, <2>6, <2>7 DEF RequestSound, Moving
<1> QED BY <1>1, <1>2

LEMMA ApartKept ==
  ASSUME Apart, \A k \in Handlers : GoesOn(k)
  PROVE  Apart'
<1> SUFFICES ASSUME NEW h \in Handlers, NEW k \in Handlers, h # k
             PROVE  /\ req'[h].op = "create" /\ req'[k].op = "create"
                         => req'[h].rows \intersect req'[k].rows = {}
                    /\ ~(req'[h].op = "batch" /\ req'[k].op = "batch")
  BY DEF Apart
<1>1. GoesOn(h) /\ GoesOn(k) /\ Idle.op = "idle"
  BY DEF Idle
<1> QED BY <1>1 DEF Apart, GoesOn

\* The same when h begins another request, apart from those under way.
LEMMA ApartBegin ==
  ASSUME Apart, NEW h \in Handlers, \A k \in Handlers \ {h} : GoesOn(k),
         req'[h].op = "create" =>
           \A k \in Handlers \ {h} : req[k].op = "create" => req'[h].rows \intersect req[k].rows = {},
         req'[h].op = "batch" => \A k \in Handlers \ {h} : req[k].op # "batch"
  PROVE  Apart'
<1> SUFFICES ASSUME NEW i \in Handlers, NEW k \in Handlers, i # k
             PROVE  /\ req'[i].op = "create" /\ req'[k].op = "create"
                         => req'[i].rows \intersect req'[k].rows = {}
                    /\ ~(req'[i].op = "batch" /\ req'[k].op = "batch")
  BY DEF Apart
<1>0. Idle.op = "idle"
  BY DEF Idle
<1>1. CASE i # h /\ k # h
  BY <1>0, <1>1 DEF Apart, GoesOn
<1>2. CASE i = h
  <2>1. GoesOn(k) /\ k \in Handlers \ {h}
    BY <1>2
  <2> QED BY <1>0, <1>2, <2>1 DEF GoesOn
<1>3. CASE k = h
  <2>1. GoesOn(i) /\ i \in Handlers \ {h}
    BY <1>3
  <2> QED BY <1>0, <1>3, <2>1 DEF GoesOn
<1> QED BY <1>1, <1>2, <1>3

(* ------------------------- a step leaves IInv true ----------------------- *)

\* A handler begins a request that is sound and apart from the others.
LEMMA BeginSound ==
  ASSUME IInv, NEW h \in Handlers, NEW op, NEW rows, NEW parent, NEW name,
         op \in {"create", "rename", "move", "batch", "reparent", "check", "restore"},
         rows \in SUBSET Resources, parent \in Parents, name \in Names,
         Begin(h, op, rows, parent, name),
         op \in {"create", "move", "batch", "reparent"} =>
           parent \in Resources /\ row[parent].state # "absent",
         op = "create" => \A r \in rows : row[r].state = "absent",
         op # "create" => \A r \in rows : row[r].state # "absent",
         op \notin {"create", "rename"} => Root \notin rows,
         op = "reparent" => parent = Root,
         op \in Moving => rows \intersect Chain(parent) = {},
         op = "create" =>
           \A k \in Handlers \ {h} : req[k].op = "create" => rows \intersect req[k].rows = {},
         op = "batch" => \A k \in Handlers \ {h} : req[k].op # "batch"
  PROVE  IInv'
<1>1. TypeOK /\ TreeShaped /\ (\A k \in Handlers : RequestSound(k)) /\ Apart /\ Acyclic
  BY DEF IInv
<1>2. req \in [Handlers -> Request \union {Idle}] /\ row \in [Resources -> Row]
  BY <1>1 DEF TypeOK
<1>3. /\ req' \in [Handlers -> Request \union {Idle}]
      /\ req'[h] \in Request
      /\ req'[h].op = op /\ req'[h].rows = rows /\ req'[h].parent = parent
      /\ ~req'[h].moved
      /\ \A k \in Handlers \ {h} : req'[k] = req[k]
  BY <1>2, BeginFields
<1>4. row' = row /\ loose' = loose /\ commits' = commits
  BY DEF Begin
<1>5. TypeOK' /\ TreeShaped' /\ Acyclic'
  BY <1>1, <1>3, <1>4 DEF TypeOK, TreeShaped, Acyclic
<1>6. \A k \in Handlers \ {h} : GoesOn(k)
  BY <1>3 DEF GoesOn
<1>7. Apart'
  BY <1>1, <1>3, <1>6, ApartBegin
<1>8. ASSUME NEW k \in Handlers PROVE RequestSound(k)'
  <2>1. CASE k = h
    <3>1. Chain(req[h].parent)' = Chain(parent)
      BY <1>3, <1>4 DEF Chain, Closed
    <3> QED BY <1>3, <1>4, <2>1, <3>1 DEF RequestSound, Moving
  <2>2. CASE k # h
    <3>1. Arrive({}) /\ Stay({})
      BY <1>2, <1>4 DEF Arrive, Stay
    <3> QED BY <1>1, <1>6, <2>2, <3>1, SoundKept
  <2> QED BY <2>1, <2>2
<1> QED BY <1>5, <1>7, <1>8 DEF IInv

LEMMA BeginInv ==
  ASSUME IInv, NEW h \in Handlers, BeginStep(h)
  PROVE  IInv'
<1>1. TypeOK /\ TreeShaped /\ Root \in Resources /\ None \notin Resources
  BY RootAssumption DEF IInv
<1>2. \A r \in Resources : row[r].parent \in Parents /\ row[r].name \in Names
  BY <1>1, Fields
<1>3. \A p \in Resources : Reachable(p) => row[p].state # "absent" /\ Root \in Chain(p)
  BY <1>1, ChainClosed DEF Reachable, Live
<1>4. req[h] = Idle
  BY DEF BeginStep, Free
<1>5. ASSUME NEW r \in Resources, BeginRestore(h, r)
      PROVE  IInv'
  <2>1. row[r].state # "absent" /\ r # Root /\ row[Root].state # "absent"
    BY <1>1, <1>5 DEF BeginRestore, TreeShaped
  <2>2. CASE Live(row[r].parent)
    <3>1. Begin(h, "check", {r}, row[r].parent, row[r].name)
      BY <1>5, <2>2 DEF BeginRestore
    <3> QED BY <1>1, <1>2, <2>1, <3>1, BeginSound DEF Moving
  <2>3. CASE ~Live(row[r].parent)
    <3>1. Begin(h, "reparent", {r}, Root, row[r].name)
      BY <1>5, <2>3 DEF BeginRestore
    <3> QED BY <1>1, <1>2, <2>1, <3>1, BeginSound DEF Moving, Parents
  <2> QED BY <2>2, <2>3
<1>6. ASSUME NEW r \in Resources, NEW n \in Names, BeginRename(h, r, n)
      PROVE  IInv'
  <2>1. Begin(h, "rename", {r}, row[r].parent, n) /\ row[r].state # "absent"
    BY <1>6 DEF BeginRename, Live
  <2> QED BY <1>2, <1>6, <2>1, BeginSound DEF Moving
<1>7. ASSUME NEW r \in Resources, NEW p \in Resources, NEW n \in Names, BeginCreate(h, r, p, n)
      PROVE  IInv'
  <2>1. /\ Begin(h, "create", {r}, p, n)
        /\ row[r].state = "absent" /\ row[p].state # "absent"
    BY <1>7 DEF BeginCreate, Live
  <2>2. \A k \in Handlers \ {h} : req[k].op = "create" => {r} \intersect req[k].rows = {}
    BY <1>7 DEF BeginCreate, Idle
  <2> QED BY <1>7, <2>1, <2>2, BeginSound DEF Moving, Parents
<1>8. ASSUME NEW r \in Resources, NEW p \in Resources, NEW n \in Names, BeginMove(h, r, p, n)
      PROVE  IInv'
  <2>1. /\ Begin(h, "move", {r}, p, n) /\ row[r].state # "absent"
        /\ Reachable(p) /\ r \notin Chain(p)
    BY <1>8 DEF BeginMove, Live, MayHold
  <2>2. r # Root /\ row[p].state # "absent"
    BY <1>3, <2>1
  <2> QED BY <1>8, <2>1, <2>2, BeginSound DEF Moving, Parents
<1>9. ASSUME NEW S \in SUBSET Resources, NEW p \in Resources, BeginBatch(h, S, p)
      PROVE  IInv'
  <2> DEFINE moves == Unambiguous({r \in TopLevel(S) : r \notin Chain(p)}, p)
  <2>1. /\ Begin(h, "batch", moves, p, row[p].name)
        /\ Reachable(p) /\ NamespaceFree
    BY <1>9 DEF BeginBatch
  <2>2. \A r \in moves : /\ r \in Resources /\ r \notin Chain(p)
                         /\ row[r].state = "live" /\ row[r].parent # None
    BY DEF Unambiguous, TopLevel, Live
  <2>3. Root \notin moves
    BY <1>1, <2>2 DEF TreeShaped
  <2>4. \A k \in Handlers \ {h} : req[k].op # "batch"
    BY <2>1 DEF NamespaceFree, Batching
  <2> HIDE DEF moves
  <2>5. /\ moves \in SUBSET Resources /\ \A r \in moves : row[r].state # "absent"
        /\ moves \intersect Chain(p) = {} /\ row[p].state # "absent"
    BY <1>3, <2>1, <2>2
  <2> QED BY <1>2, <2>1, <2>3, <2>4, <2>5, BeginSound DEF Parents
<1> QED BY <1>5, <1>6, <1>7, <1>8, <1>9 DEF BeginStep

LEMMA CommitGoesOn ==
  ASSUME IInv, NEW h \in Handlers, NEW rows, NEW moves, Commit(h, rows, moves)
  PROVE  /\ req' \in [Handlers -> Request \union {Idle}] /\ commits' \in 0..MaxCommits
         /\ \A k \in Handlers : GoesOn(k)
         /\ \A k \in Handlers : req'[k] # Idle /\ moves /\ ~Together(h, k) => req'[k].moved
         /\ req'[h] = Idle
<1>1. req \in [Handlers -> Request \union {Idle}]
  BY DEF IInv, TypeOK
<1>2. /\ req' \in [Handlers -> Request \union {Idle}] /\ req'[h] = Idle
      /\ \A k \in Handlers :
           /\ req[k] = Idle => req'[k] = Idle
           /\ k # h /\ req[k] # Idle =>
                /\ req'[k] \in Request /\ req'[k] # Idle
                /\ req'[k].op = req[k].op /\ req'[k].rows = req[k].rows
                /\ req'[k].parent = req[k].parent
                /\ req'[k].moved <=> req[k].moved \/ (moves /\ ~Together(h, k))
  BY <1>1, CommitFields
<1>3. \A k \in Handlers : GoesOn(k)
  BY <1>2 DEF GoesOn
<1>4. commits' \in 0..MaxCommits
  BY BoundAssumption DEF Commit, IInv, TypeOK
<1> QED BY <1>2, <1>3, <1>4

\* Rows that stay where they are: a rename, the trash, the end of a restore,
\* the end of any request.
LEMMA QuietInv ==
  ASSUME IInv, row' \in [Resources -> Row], Arrive({}), Stay({}),
         loose' \in [moved : SUBSET Resources, named : SUBSET Resources],
         loose'.moved = loose.moved, commits' \in 0..MaxCommits,
         req' \in [Handlers -> Request \union {Idle}], \A k \in Handlers : GoesOn(k)
  PROVE  IInv'
<1>1. TypeOK /\ TreeShaped /\ (\A k \in Handlers : RequestSound(k)) /\ Apart /\ Acyclic
  BY DEF IInv
<1>2. TypeOK'
  BY DEF TypeOK
<1>3. TreeShaped'
  <2>1. \A r \in Resources : row'[r].parent = row[r].parent
                             /\ (row'[r].state = "absent" <=> row[r].state = "absent")
    BY DEF Arrive, Stay
  <2>2. \A r \in Resources : row[r].parent \in Parents
    BY <1>1, Fields
  <2> QED BY <1>1, <2>1, <2>2, RootAssumption DEF TreeShaped, Parents
<1>4. \A k \in Handlers : RequestSound(k)'
  BY <1>1, SoundKept
<1>5. Apart' /\ Acyclic'
  BY <1>1, ApartKept, AcyclicKept
<1> QED BY <1>2, <1>3, <1>4, <1>5 DEF IInv

\* Rows that are put below another: a move, a batch move, the first step of a
\* restore.  Those that would move rows learn of it, but for other batch moves,
\* of which there are none.
LEMMA PlaceInv ==
  ASSUME IInv, NEW R \in SUBSET Resources, Arrive({}), Stay(R), Root \notin R,
         NEW p \in Resources, row[p].state # "absent",
         \A r \in R : row'[r].parent = p /\ row'[r].state # "absent",
         loose' \in [moved : SUBSET Resources, named : SUBSET Resources],
         NEW unchecked \in BOOLEAN, loose'.moved = With(loose.moved, R, unchecked),
         ~unchecked => R \intersect Chain(p) = {},
         commits' \in 0..MaxCommits,
         req' \in [Handlers -> Request \union {Idle}], \A k \in Handlers : RequestSound(k)',
         Apart'
  PROVE  IInv'
<1>1. TypeOK /\ TreeShaped /\ Acyclic
  BY DEF IInv
<1>2. TypeOK'
  BY DEF TypeOK, Arrive
<1>3. TreeShaped'
  BY <1>1, ShapeKept
<1>4. Acyclic'
  BY <1>1, AcyclicMove
<1> QED BY <1>2, <1>3, <1>4 DEF IInv

LEMMA CreateInv ==
  ASSUME IInv, NEW h \in Handlers, Create(h)
  PROVE  IInv'
<1>1. /\ TypeOK /\ TreeShaped /\ (\A k \in Handlers : RequestSound(k)) /\ Apart /\ Acyclic
      /\ req[h].op = "create" /\ Commit(h, req[h].rows, FALSE)
  BY DEF IInv, Create
<1>2. /\ req' \in [Handlers -> Request \union {Idle}] /\ commits' \in 0..MaxCommits
      /\ \A k \in Handlers : GoesOn(k)
      /\ req'[h] = Idle
  BY <1>1, CommitGoesOn
<1> DEFINE N == req[h].rows
           p == req[h].parent
<1>3. /\ N \in SUBSET Resources /\ req[h].name \in Names
      /\ p \in Resources /\ row[p].state # "absent"
      /\ \A r \in N : row[r].state = "absent"
  BY <1>1, Fields DEF RequestSound
<1>4. row' = [r \in Resources |-> IF r \in N
        THEN [state |-> "live", parent |-> p, name |-> req[h].name] ELSE row[r]]
  BY DEF Create
<1>5. Root \notin N
  BY <1>1, <1>3 DEF TreeShaped
<1>6. loose' \in [moved : SUBSET Resources, named : SUBSET Resources] /\ loose'.moved = loose.moved
  BY <1>1, <1>3 DEF TypeOK, Create, With
<1>7. \A k \in Handlers : k # h /\ req[k].op = "create" => req[k].rows \intersect N = {}
  BY <1>1 DEF Apart
<1> HIDE DEF N, p
<1>8. row' \in [Resources -> Row]
  <2>1. [state |-> "live", parent |-> p, name |-> req[h].name] \in Row
    BY <1>3 DEF Row, Parents
  <2> QED BY <1>1, <1>4, <2>1 DEF TypeOK
<1>9. /\ \A r \in N : row'[r].state = "live" /\ row'[r].parent = p
      /\ \A r \in Resources \ N : row'[r] = row[r]
  BY <1>3, <1>4
<1>10. Arrive(N) /\ Stay(N)
  BY <1>3, <1>8, <1>9 DEF Arrive, Stay
<1>11. TypeOK' /\ TreeShaped'
  BY <1>1, <1>2, <1>3, <1>5, <1>6, <1>8, <1>9, <1>10, ShapeKept DEF TypeOK
<1>12. Acyclic'
  BY <1>1, <1>3, <1>6, <1>9, <1>10, AcyclicArrive
<1>13. ASSUME NEW k \in Handlers PROVE RequestSound(k)'
  BY <1>1, <1>2, <1>7, <1>10, SoundKept, IdleSound
<1> QED BY <1>1, <1>2, <1>11, <1>12, <1>13, ApartKept DEF IInv

LEMMA PlacedSound ==
  ASSUME IInv, NEW h \in Handlers, req[h].op # "idle", Arrive({}), Commit(h, req[h].rows, TRUE)
  PROVE  (\A k \in Handlers : RequestSound(k)') /\ Apart'
<1>1. TypeOK /\ TreeShaped /\ (\A k \in Handlers : RequestSound(k)) /\ Apart
  BY DEF IInv
<1>2. /\ \A k \in Handlers : GoesOn(k)
      /\ \A k \in Handlers : req'[k] # Idle /\ ~Together(h, k) => req'[k].moved
      /\ req'[h] = Idle
  BY CommitGoesOn
<1>3. ASSUME NEW k \in Handlers PROVE RequestSound(k)'
  <2>1. CASE req'[k] = Idle
    BY <2>1, IdleSound
  <2>2. CASE req'[k] # Idle
    <3>1. ~Together(h, k)
      BY <1>1, <1>2, <2>2 DEF Apart, Together
    <3>2. req'[k].moved
      BY <1>2, <2>2, <3>1
    <3> QED BY <1>1, <1>2, <3>2, SoundKept
  <2> QED BY <2>1, <2>2
<1> QED BY <1>1, <1>2, <1>3, ApartKept

LEMMA MoveInv ==
  ASSUME IInv, NEW h \in Handlers, Move(h) \/ BatchMove(h)
  PROVE  IInv'
<1>1. /\ TypeOK /\ TreeShaped /\ RequestSound(h)
      /\ req[h].op \in Moving /\ Commit(h, req[h].rows, TRUE)
  BY DEF IInv, Move, BatchMove, Moving
<1>2. /\ req' \in [Handlers -> Request \union {Idle}] /\ commits' \in 0..MaxCommits
  BY <1>1, CommitGoesOn
<1> DEFINE R == req[h].rows
           p == req[h].parent
<1>3. /\ R \in SUBSET Resources /\ req[h].name \in Names /\ req[h].moved \in BOOLEAN
      /\ req[h].named \in BOOLEAN
      /\ p \in Resources /\ row[p].state # "absent" /\ Root \notin R
      /\ \A r \in R : row[r].state # "absent"
      /\ ~req[h].moved => R \intersect Chain(p) = {}
  BY <1>1, Fields DEF RequestSound, Moving, Request
<1>4. PICK n \in [Resources -> Names] :
        row' = [r \in Resources |-> IF r \in R
          THEN [row[r] EXCEPT !.parent = p, !.name = n[r]] ELSE row[r]]
  <2>1. CASE Move(h)
    <3>1. [r \in Resources |-> req[h].name] \in [Resources -> Names]
      BY <1>3
    <3> QED BY <2>1, <3>1 DEF Move
  <2>2. CASE BatchMove(h)
    <3> DEFINE n == [r \in Resources |-> row[r].name]
    <3>1. n \in [Resources -> Names]
      BY <1>1, Fields
    <3>2. \A r \in Resources : [row[r] EXCEPT !.parent = p] = [row[r] EXCEPT !.parent = p, !.name = n[r]]
      BY <1>1, Fields DEF Row
    <3>3. row' = [r \in Resources |-> IF r \in R THEN [row[r] EXCEPT !.parent = p] ELSE row[r]]
      BY <2>2 DEF BatchMove
    <3> HIDE DEF n, p, R
    <3> QED BY <3>1, <3>2, <3>3
  <2> QED BY <2>1, <2>2
<1>5. /\ loose' \in [moved : SUBSET Resources, named : SUBSET Resources]
      /\ loose'.moved = With(loose.moved, R, req[h].moved)
  <2>1. loose' = [moved |-> With(loose.moved, R, req[h].moved),
                  named |-> With(loose.named, R, req[h].named)]
    BY DEF Move, BatchMove
  <2> QED BY <1>1, <1>3, <2>1 DEF TypeOK, With
<1> HIDE DEF R, p
<1>6. /\ row' \in [Resources -> Row]
      /\ \A r \in R : row'[r].parent = p /\ row'[r].state = row[r].state
      /\ \A r \in Resources \ R : row'[r] = row[r]
  <2>1. \A r \in Resources : /\ [row[r] EXCEPT !.parent = p, !.name = n[r]] \in Row
                             /\ [row[r] EXCEPT !.parent = p, !.name = n[r]].parent = p
                             /\ [row[r] EXCEPT !.parent = p, !.name = n[r]].state = row[r].state
    BY <1>1, <1>3, <1>4, Fields DEF Row, Parents
  <2> QED BY <1>1, <1>3, <1>4, <2>1 DEF TypeOK
<1>7. Arrive({}) /\ Stay(R)
  BY <1>3, <1>6 DEF Arrive, Stay
<1>8. (\A k \in Handlers : RequestSound(k)') /\ Apart'
  BY <1>1, <1>7, PlacedSound DEF Moving
<1> QED BY <1>2, <1>3, <1>5, <1>6, <1>7, <1>8, PlaceInv

LEMMA ReparentInv ==
  ASSUME IInv, NEW h \in Handlers, Reparent(h)
  PROVE  IInv'
<1> DEFINE R == req[h].rows
           moves == TRUE
           D == Disturbed(h, R, moves)
<1>1. /\ TypeOK /\ TreeShaped /\ (\A k \in Handlers : RequestSound(k)) /\ Apart
      /\ req[h].op = "reparent"
  BY DEF IInv, Reparent
<1>2. /\ R \in SUBSET Resources /\ req[h] \in Request /\ req[h] # Idle
      /\ Root \notin R /\ Root \in Resources /\ row[Root].state # "absent"
      /\ \A r \in R : row[r].state # "absent"
  BY <1>1, Fields, RootAssumption DEF RequestSound, TreeShaped
<1>3. req' = [D EXCEPT ![h].op = "check"]
  BY DEF Reparent
<1>4. /\ D \in [Handlers -> Request \union {Idle}] /\ D[h] = req[h]
      /\ \A k \in Handlers :
           /\ req[k] = Idle => D[k] = Idle
           /\ k # h /\ req[k] # Idle =>
                /\ D[k] \in Request /\ D[k] # Idle
                /\ D[k].op = req[k].op /\ D[k].rows = req[k].rows /\ D[k].parent = req[k].parent
                /\ D[k].moved <=> req[k].moved \/ (moves /\ ~Together(h, k))
  <2>1. req \in [Handlers -> Request \union {Idle}]
    BY <1>1 DEF TypeOK
  <2>2. ASSUME NEW k \in Handlers
        PROVE  /\ D \in [Handlers -> Request \union {Idle}] /\ D[h] = req[h]
               /\ req[k] = Idle => D[k] = Idle
               /\ k # h /\ req[k] # Idle =>
                    /\ D[k] \in Request /\ D[k] # Idle
                    /\ D[k].op = req[k].op /\ D[k].rows = req[k].rows
                    /\ D[k].parent = req[k].parent
                    /\ D[k].moved <=> req[k].moved \/ (moves /\ ~Together(h, k))
    <3> HIDE DEF moves
    <3> QED BY <2>1, DisturbedFields
  <2> HIDE DEF D, R, moves
  <2> QED BY <2>2
<1>5. \A k \in Handlers : ~Together(h, k)
  BY <1>1 DEF Together
<1>6. /\ [req[h] EXCEPT !.op = "check"] \in Request
      /\ [req[h] EXCEPT !.op = "check"].op = "check"
      /\ [req[h] EXCEPT !.op = "check"].rows = R
  BY <1>2 DEF Request
<1>7. row' = [r \in Resources |-> IF r \in R THEN [row[r] EXCEPT !.parent = Root] ELSE row[r]]
  BY DEF Reparent
<1>8. /\ loose' \in [moved : SUBSET Resources, named : SUBSET Resources]
      /\ loose'.moved = With(loose.moved, R, FALSE)
  <2>1. loose' = [moved |-> loose.moved \ R, named |-> loose.named \union R]
    BY DEF Reparent
  <2> QED BY <1>1, <1>2, <2>1 DEF TypeOK, With
<1>9. commits' \in 0..MaxCommits
  BY <1>1, BoundAssumption DEF Reparent, TypeOK
<1> HIDE DEF R, D
<1>10. /\ req' \in [Handlers -> Request \union {Idle}]
       /\ req'[h] = [req[h] EXCEPT !.op = "check"]
       /\ \A k \in Handlers \ {h} : req'[k] = D[k]
  BY <1>3, <1>4, <1>6
<1>11. \A k \in Handlers \ {h} : GoesOn(k) /\ (req'[k] # Idle => req'[k].moved)
  BY <1>4, <1>5, <1>10 DEF GoesOn
<1>12. /\ row' \in [Resources -> Row]
       /\ \A r \in R : row'[r].parent = Root /\ row'[r].state = row[r].state
       /\ \A r \in Resources \ R : row'[r] = row[r]
  <2>1. \A r \in Resources : /\ [row[r] EXCEPT !.parent = Root] \in Row
                             /\ [row[r] EXCEPT !.parent = Root].parent = Root
                             /\ [row[r] EXCEPT !.parent = Root].state = row[r].state
    BY <1>1, <1>2, Fields DEF Row, Parents
  <2> QED BY <1>1, <1>2, <1>7, <2>1 DEF TypeOK
<1>13. Arrive({}) /\ Stay(R)
  BY <1>2, <1>12 DEF Arrive, Stay
<1>14. ASSUME NEW k \in Handlers PROVE RequestSound(k)'
  <2>1. CASE k = h
    <3>1. req'[h].op = "check" /\ req'[h].rows = R
      BY <1>6, <1>10
    <3> QED BY <1>2, <1>12, <2>1, <3>1 DEF RequestSound, Moving
  <2>2. CASE k # h
    <3>1. GoesOn(k) /\ (req'[k] # Idle => req'[k].moved)
      BY <1>11, <2>2
    <3>2. CASE req'[k] = Idle
      BY <3>2, IdleSound
    <3>3. CASE req'[k] # Idle
      BY <1>1, <1>13, <3>1, <3>3, SoundKept
    <3> QED BY <3>2, <3>3
  <2> QED BY <2>1, <2>2
<1>15. Apart'
  <2>1. req'[h].op = "check"
    BY <1>6, <1>10
  <2> QED BY <1>1, <1>11, <2>1, ApartBegin
<1>16. R \intersect Chain(Root) = {}
  <2>1. {Root} \in SUBSET Resources /\ Closed({Root})
    BY <1>1, <1>2 DEF Closed, TreeShaped
  <2> QED BY <1>2, <2>1 DEF Chain
<1>17. \A r \in R : row'[r].parent = Root /\ row'[r].state # "absent"
  BY <1>2, <1>12
<1>18. FALSE \in BOOLEAN /\ (~FALSE => R \intersect Chain(Root) = {})
  BY <1>16
<1>19. \A k \in Handlers : RequestSound(k)'
  BY <1>14
<1> QED BY <1>2, <1>8, <1>9, <1>10, <1>13, <1>15, <1>17, <1>18, <1>19, PlaceInv

LEMMA CheckRestoreInv ==
  ASSUME IInv, NEW h \in Handlers, CheckRestore(h)
  PROVE  IInv'
<1>1. /\ TypeOK /\ TreeShaped /\ (\A k \in Handlers : RequestSound(k)) /\ Apart /\ Acyclic
      /\ req[h].op = "check"
  BY DEF IInv, CheckRestore
<1>2. /\ req[h] \in Request /\ req[h].rows \in SUBSET Resources /\ Root \notin req[h].rows
      /\ \A r \in req[h].rows : row[r].state # "absent"
  BY <1>1, Fields DEF RequestSound
<1>3. PICK r \in req[h].rows :
        req' = [req EXCEPT ![h] =
          IF Taken(row[r].parent, req[h].name, {r}) THEN Idle
          ELSE [req[h] EXCEPT !.op = "restore", !.parent = row[r].parent,
                              !.named = row[r].name # req[h].name]]
  BY DEF CheckRestore
<1>4. row' = row /\ loose' = loose /\ commits' = commits
  BY DEF CheckRestore
<1> DEFINE q == [req[h] EXCEPT !.op = "restore", !.parent = row[r].parent,
                               !.named = row[r].name # req[h].name]
<1>5. q \in Request /\ q.op = "restore" /\ q.rows = req[h].rows
  <2>1. row[r].parent \in Parents /\ (row[r].name # req[h].name) \in BOOLEAN
    BY <1>1, <1>2, Fields
  <2> QED BY <1>2, <2>1 DEF Request
<1> HIDE DEF q
<1>6. /\ req' \in [Handlers -> Request \union {Idle}]
      /\ req'[h] \in {Idle, q}
      /\ \A k \in Handlers \ {h} : req'[k] = req[k]
  BY <1>1, <1>3, <1>5 DEF TypeOK, q
<1>7. TypeOK' /\ TreeShaped' /\ Acyclic'
  BY <1>1, <1>4, <1>6 DEF TypeOK, TreeShaped, Acyclic
<1>8. \A k \in Handlers \ {h} : GoesOn(k)
  BY <1>6 DEF GoesOn
<1>9. req'[h].op \in {"idle", "restore"}
  BY <1>5, <1>6 DEF Idle
<1>10. Apart'
  BY <1>1, <1>8, <1>9, ApartBegin
<1>11. ASSUME NEW k \in Handlers PROVE RequestSound(k)'
  <2>1. CASE k = h
    <3>1. CASE req'[h] = Idle
      BY <2>1, <3>1, IdleSound
    <3>2. CASE req'[h] = q
      BY <1>2, <1>4, <1>5, <2>1, <3>2 DEF RequestSound, Moving
    <3> QED BY <1>6, <3>1, <3>2
  <2>2. CASE k # h
    <3>1. Arrive({}) /\ Stay({})
      BY <1>1, <1>4 DEF Arrive, Stay, TypeOK
    <3> QED BY <1>1, <1>8, <2>2, <3>1, SoundKept
  <2> QED BY <2>1, <2>2
<1> QED BY <1>7, <1>10, <1>11 DEF IInv

\* A request that ends without a write.
LEMMA EndInv ==
  ASSUME IInv, NEW h \in Handlers, req' = [req EXCEPT ![h] = Idle],
         UNCHANGED <<row, loose, commits>>
  PROVE  IInv'
<1>1. req' \in [Handlers -> Request \union {Idle}] /\ \A k \in Handlers : GoesOn(k)
  BY DEF IInv, TypeOK, GoesOn
<1>2. Arrive({}) /\ Stay({}) /\ row' \in [Resources -> Row]
  BY DEF IInv, TypeOK, Arrive, Stay
<1> QED BY <1>1, <1>2, QuietInv DEF IInv, TypeOK

LEMMA RenameInv ==
  ASSUME IInv, NEW h \in Handlers, Rename(h)
  PROVE  IInv'
<1>1. /\ TypeOK /\ req[h].op = "rename" /\ Commit(h, req[h].rows, FALSE)
      /\ row' = [r \in Resources |-> IF r \in req[h].rows
            THEN [row[r] EXCEPT !.name = req[h].name] ELSE row[r]]
      /\ loose' = [loose EXCEPT !.named = With(@, req[h].rows, req[h].named)]
  BY DEF IInv, Rename
<1>2. /\ req' \in [Handlers -> Request \union {Idle}] /\ commits' \in 0..MaxCommits
      /\ \A k \in Handlers : GoesOn(k)
  BY <1>1, CommitGoesOn
<1>3. req[h].rows \in SUBSET Resources /\ req[h].name \in Names
  BY <1>1, Fields
<1>4. \A r \in Resources : /\ [row[r] EXCEPT !.name = req[h].name] \in Row
                           /\ [row[r] EXCEPT !.name = req[h].name].parent = row[r].parent
                           /\ [row[r] EXCEPT !.name = req[h].name].state = row[r].state
  BY <1>1, <1>3, Fields DEF Row
<1>5. /\ row' \in [Resources -> Row]
      /\ \A r \in Resources : row'[r].parent = row[r].parent /\ row'[r].state = row[r].state
  BY <1>1, <1>4 DEF TypeOK
<1>6. Arrive({}) /\ Stay({})
  BY <1>5 DEF Arrive, Stay
<1>7. loose' \in [moved : SUBSET Resources, named : SUBSET Resources] /\ loose'.moved = loose.moved
  BY <1>1, <1>3 DEF TypeOK, With
<1> QED BY <1>2, <1>5, <1>6, <1>7, QuietInv

LEMMA TrashInv ==
  ASSUME IInv, NEW r \in Resources, Trash(r)
  PROVE  IInv'
<1>1. /\ TypeOK /\ row' = [row EXCEPT ![r].state = "trashed"] /\ row[r].state = "live"
      /\ loose' = [loose EXCEPT !.named = @ \ {r}] /\ req' = req
      /\ commits < MaxCommits /\ commits' = commits + 1
  BY DEF IInv, Trash, Live
<1>2. \A k \in Handlers : GoesOn(k)
  BY <1>1 DEF GoesOn
<1>3. /\ [row[r] EXCEPT !.state = "trashed"] \in Row
      /\ [row[r] EXCEPT !.state = "trashed"].parent = row[r].parent
      /\ [row[r] EXCEPT !.state = "trashed"].state = "trashed"
  BY <1>1, Fields DEF Row
<1>4. /\ row' \in [Resources -> Row]
      /\ \A s \in Resources : /\ row'[s].parent = row[s].parent
                              /\ row'[s].state = "absent" <=> row[s].state = "absent"
  BY <1>1, <1>3 DEF TypeOK
<1>5. Arrive({}) /\ Stay({})
  BY <1>4 DEF Arrive, Stay
<1>6. /\ loose' \in [moved : SUBSET Resources, named : SUBSET Resources] /\ loose'.moved = loose.moved
      /\ commits' \in 0..MaxCommits /\ req' \in [Handlers -> Request \union {Idle}]
  BY <1>1, BoundAssumption DEF TypeOK
<1> QED BY <1>2, <1>4, <1>5, <1>6, QuietInv

LEMMA RestoreInv ==
  ASSUME IInv, NEW h \in Handlers, Restore(h)
  PROVE  IInv'
<1>1. TypeOK /\ req[h].op = "restore"
  BY DEF IInv, Restore
<1>2. req[h].rows \in SUBSET Resources
  BY <1>1, Fields
<1>3. PICK r \in req[h].rows :
       IF row[r].state = "trashed"
       THEN /\ row' = [row EXCEPT ![r].state = "live"]
            /\ loose' = [loose EXCEPT !.named =
                 With(@, {r}, req[h].named \/ row[r].parent # req[h].parent)]
            /\ Commit(h, {r}, FALSE)
       ELSE /\ req' = [req EXCEPT ![h] = Idle]
            /\ UNCHANGED <<row, loose, commits>>
  BY DEF Restore
<1>4. CASE row[r].state = "trashed"
  <2>1. /\ req' \in [Handlers -> Request \union {Idle}] /\ commits' \in 0..MaxCommits
        /\ \A k \in Handlers : GoesOn(k)
    BY <1>3, <1>4, CommitGoesOn
  <2>2. r \in Resources
    BY <1>2
  <2>3. /\ [row[r] EXCEPT !.state = "live"] \in Row
        /\ [row[r] EXCEPT !.state = "live"].parent = row[r].parent
        /\ [row[r] EXCEPT !.state = "live"].state = "live"
    BY <1>1, <2>2, Fields DEF Row
  <2>4. /\ row' \in [Resources -> Row]
        /\ \A s \in Resources : /\ row'[s].parent = row[s].parent
                                /\ row'[s].state = "absent" <=> row[s].state = "absent"
    BY <1>1, <1>3, <1>4, <2>2, <2>3 DEF TypeOK
  <2>5. Arrive({}) /\ Stay({})
    BY <2>4 DEF Arrive, Stay
  <2>6. loose' \in [moved : SUBSET Resources, named : SUBSET Resources] /\ loose'.moved = loose.moved
    BY <1>1, <1>3, <1>4, <2>2 DEF TypeOK, With
  <2> QED BY <2>1, <2>4, <2>5, <2>6, QuietInv
<1>5. CASE row[r].state # "trashed"
  BY <1>3, <1>5, EndInv
<1> QED BY <1>4, <1>5

(* ------------------------------- theorems -------------------------------- *)

LEMMA InitInv == Init => IInv
<1> SUFFICES ASSUME Init PROVE IInv
  OBVIOUS
<1>1. \A r \in Resources :
        /\ row[r].state = IF r = Root \/ InitialParent[r] # None THEN "live" ELSE "absent"
        /\ row[r].parent = InitialParent[r] /\ row[r].name = InitialName[r]
        /\ row[r] \in Row
  BY InitialAssumption DEF Init, Row, Parents
<1>2. \A h \in Handlers : req[h] = Idle
  BY DEF Init
<1>3. TypeOK
  <2>1. row \in [Resources -> Row]
    BY <1>1 DEF Init
  <2> QED BY <2>1, BoundAssumption, SMTT(20) DEF Init, TypeOK
<1>4. TreeShaped
  BY <1>1, RootAssumption, InitialAssumption DEF TreeShaped
<1>5. (\A h \in Handlers : RequestSound(h)) /\ Apart
  BY <1>2 DEF RequestSound, Apart, Idle, Moving
<1>6. Acyclic
  BY <1>1, InitialAssumption DEF Acyclic
<1> QED BY <1>3, <1>4, <1>5, <1>6 DEF IInv

LEMMA StepInv == IInv /\ [Next]_vars => IInv'
<1> SUFFICES ASSUME IInv, [Next]_vars PROVE IInv'
  OBVIOUS
<1>1. CASE UNCHANGED vars
  <2>1. row' = row /\ req' = req /\ loose' = loose /\ commits' = commits
    BY <1>1 DEF vars
  <2>2. TypeOK' /\ TreeShaped' /\ Apart' /\ Acyclic'
    BY <2>1 DEF IInv, TypeOK, TreeShaped, Apart, Acyclic
  <2>3. ASSUME NEW h \in Handlers PROVE RequestSound(h)'
    <3>1. /\ TypeOK /\ TreeShaped /\ RequestSound(h) /\ Arrive({}) /\ Stay({})
          /\ (req[h] # Idle => GoesOn(h)) /\ (req[h] = Idle => GoesOn(h))
      BY <2>1 DEF IInv, TypeOK, Arrive, Stay, GoesOn
    <3> QED BY <3>1, SoundKept
  <2> QED BY <2>2, <2>3 DEF IInv
<1>2. ASSUME NEW h \in Handlers, Step(h) PROVE IInv'
  <2>1. CASE BeginStep(h)
    BY <2>1, BeginInv
  <2>2. CASE Create(h)
    BY <2>2, CreateInv
  <2>3. CASE Rename(h)
    BY <2>3, RenameInv
  <2>4. CASE Move(h) \/ BatchMove(h)
    BY <2>4, MoveInv
  <2>5. CASE Reparent(h)
    BY <2>5, ReparentInv
  <2>6. CASE CheckRestore(h)
    BY <2>6, CheckRestoreInv
  <2>7. CASE Restore(h)
    BY <2>7, RestoreInv
  <2>8. CASE Abort(h)
    BY <2>8, EndInv DEF Abort
  <2> QED BY <1>2, <2>1, <2>2, <2>3, <2>4, <2>5, <2>6, <2>7, <2>8 DEF Step
<1>3. ASSUME NEW r \in Resources, Trash(r) PROVE IInv'
  BY <1>3, TrashInv
<1> QED BY <1>1, <1>2, <1>3 DEF Next

\* The tree and the requests under way have their types.
THEOREM TypeCorrect == Spec => []TypeOK
<1>1. IInv => TypeOK
  BY DEF IInv
<1> QED BY <1>1, InitInv, StepInv, PTL DEF Spec

\* Whatever the number of rows and of requests, and however moves, batch moves,
\* restores and creations interleave, no resource comes to hang off itself but
\* through a row that a move put there after another had moved a row.
THEOREM TreeAcyclic == Spec => []Acyclic
<1>1. IInv => Acyclic
  BY DEF IInv
<1> QED BY <1>1, InitInv, StepInv, PTL DEF Spec

(* --------------------------------- names --------------------------------- *)

\* No other row of its folder has the row's name, if it has one.
Alone(r) ==
  row[r].name # Unnamed => \A s \in Resources \ {r} : ~(Live(s) /\ row[s].parent = row[r].parent /\ row[s].name = row[r].name)

\* Requests but batch moves write one row.
OneRow(h) == req[h].op \notin {"idle", "batch"} => \E r \in Resources : req[h].rows = {r}

\* Nobody but the rows of a request has the name it checked, where it checked
\* it, as long as no commit said otherwise.
Unmet(h) ==
  /\ req[h].op \in {"create", "rename", "move", "restore"} /\ req[h].name # Unnamed =>
       \A s \in Resources \ req[h].rows :
         ~(Live(s) /\ row[s].parent = req[h].parent /\ row[s].name = req[h].name)
  /\ req[h].op = "batch" =>
       \A r \in req[h].rows : \A s \in Resources \ {r} :
         /\ ~(Live(s) /\ row[s].parent = req[h].parent /\ row[s].name = row[r].name)
         /\ s \in req[h].rows => row[s].name # row[r].name
  /\ req[h].op = "rename" => \A r \in req[h].rows : row[r].parent = req[h].parent
  /\ req[h].op = "restore" => \A r \in req[h].rows : row[r].name = req[h].name

NameSound(h) == OneRow(h) /\ (req[h] # Idle /\ ~req[h].named => Unmet(h))

NameInv == NamesUnique /\ \A h \in Handlers : NameSound(h)

LEMMA MarkedNames ==
  ASSUME NEW q \in Request, NEW m, NEW n
  PROVE  /\ Marked(q, m, n).name = q.name
         /\ Marked(q, m, n).named <=> q.named \/ n
<1>1. q.moved \in BOOLEAN /\ q.named \in BOOLEAN
  BY DEF Request
<1>2. Marked(q, m, n).name = q.name /\ Marked(q, m, n).named = (q.named \/ n)
  BY DEF Marked, Request
<1> QED BY <1>1, <1>2

\* A request that still trusts the name it checked was not overtaken.
LEMMA TrustFields ==
  ASSUME TypeOK, NEW h \in Handlers, NEW R, NEW moves, NEW k \in Handlers, k # h,
         req[k] # Idle, ~Together(h, k)
  PROVE  LET q == Disturbed(h, R, moves)[k]
         IN /\ q \in Request /\ q.op = req[k].op /\ q.rows = req[k].rows
            /\ q.parent = req[k].parent /\ q.name = req[k].name
            /\ ~q.named => ~req[k].named /\ ~Overtaken(h, k, R)
<1>1. req[k] \in Request
  BY DEF TypeOK
<1> DEFINE m == moves /\ ~Together(h, k)
           n == ~Together(h, k) /\ Overtaken(h, k, R)
<1>2. Disturbed(h, R, moves)[k] = Marked(req[k], m, n)
  BY DEF Disturbed
<1>3. n <=> Overtaken(h, k, R)
  OBVIOUS
<1> HIDE DEF m, n
<1>4. /\ Marked(req[k], m, n).name = req[k].name
      /\ Marked(req[k], m, n).named <=> req[k].named \/ n
  BY <1>1, MarkedNames
<1>5. /\ Marked(req[k], m, n) \in Request
      /\ Marked(req[k], m, n).op = req[k].op
      /\ Marked(req[k], m, n).rows = req[k].rows
      /\ Marked(req[k], m, n).parent = req[k].parent
  BY <1>1, MarkedFields
<1> QED BY <1>2, <1>3, <1>4, <1>5

\* The rows R are written, the others are not.
Written(R) == R \in SUBSET Resources /\ \A s \in Resources \ R : row'[s] = row[s]

LEMMA TrustKept ==
  ASSUME TypeOK, NEW h \in Handlers, NEW R, Written(R), NEW moves, NEW k \in Handlers, k # h,
         ~Together(h, k), NameSound(k), req'[k] = Disturbed(h, R, moves)[k]
  PROVE  NameSound(k)'
<1>1. CASE req[k] = Idle
  <2>1. req'[k] = Idle
    BY <1>1 DEF Disturbed
  <2> QED BY <2>1 DEF NameSound, OneRow, Idle
<1>2. CASE req[k] # Idle
  <2>1. PICK q : q = req'[k]
    OBVIOUS
  <2>2. /\ q \in Request /\ q.op = req[k].op /\ q.rows = req[k].rows
        /\ q.parent = req[k].parent /\ q.name = req[k].name
        /\ ~q.named => ~req[k].named /\ ~Overtaken(h, k, R)
    BY <1>2, <2>1, TrustFields
  <2>3. OneRow(k)'
    BY <2>1, <2>2 DEF NameSound, OneRow
  <2>4. ASSUME ~q.named PROVE Unmet(k)'
    <3>1. Unmet(k) /\ ~Overtaken(h, k, R) /\ q.rows \in SUBSET Resources
      BY <1>2, <2>2, <2>4 DEF NameSound, Request
    <3>2. ASSUME NEW s \in R PROVE s \notin q.rows /\ ~(row'[s].parent = q.parent /\ row'[s].name \in Checked(req[k]))
      BY <2>2, <3>1 DEF Overtaken
    <3>3. ASSUME NEW s \in Resources \ R PROVE row'[s] = row[s]
      BY DEF Written
    <3>4. ASSUME NEW r \in q.rows PROVE r \in Resources \ R
      BY <3>1, <3>2
    <3>5. CASE q.op = "batch"
      <4>1. \A r \in q.rows : row[r].name \in Checked(req[k])
        BY <2>2, <3>5 DEF Checked
      <4>2. ASSUME NEW r \in q.rows, NEW s \in Resources \ {r}
            PROVE  /\ ~(row'[s].state = "live" /\ row'[s].parent = q.parent /\ row'[s].name = row'[r].name)
                   /\ s \in q.rows => row'[s].name # row'[r].name
        <5>1. row'[r] = row[r]
          BY <3>3, <3>4
        <5>2. CASE s \in R
          BY <3>2, <4>1, <5>1, <5>2
        <5>3. CASE s \notin R
          BY <2>2, <3>1, <3>3, <3>5, <5>1, <5>3 DEF Unmet, Live
        <5> QED BY <5>2, <5>3
      <4> QED BY <2>1, <3>5, <4>2 DEF Unmet, Live
    <3>6. CASE q.op # "batch"
      <4>1. Checked(req[k]) = {q.name}
        BY <2>2, <3>6 DEF Checked
      <4>2. ASSUME q.op \in {"create", "rename", "move", "restore"}, q.name # Unnamed,
                   NEW s \in Resources \ q.rows
            PROVE  ~(row'[s].state = "live" /\ row'[s].parent = q.parent /\ row'[s].name = q.name)
        <5>1. CASE s \in R
          BY <3>2, <4>1, <5>1
        <5>2. CASE s \notin R
          BY <2>2, <3>1, <3>3, <4>2, <5>2 DEF Unmet, Live
        <5> QED BY <5>1, <5>2
      <4>3. ASSUME q.op = "rename", NEW r \in q.rows PROVE row'[r].parent = q.parent
        BY <2>2, <3>1, <3>3, <3>4, <4>3 DEF Unmet
      <4>4. ASSUME q.op = "restore", NEW r \in q.rows PROVE row'[r].name = q.name
        BY <2>2, <3>1, <3>3, <3>4, <4>4 DEF Unmet
      <4> QED BY <2>1, <3>6, <4>2, <4>3, <4>4 DEF Unmet, Live
    <3> QED BY <3>5, <3>6
  <2> QED BY <2>1, <2>3, <2>4 DEF NameSound
<1> QED BY <1>1, <1>2

\* A request stays as sound as it was while nothing but the trash takes rows.
Dimmed ==
  \A s \in Resources : /\ row'[s].parent = row[s].parent /\ row'[s].name = row[s].name
                       /\ Live(s)' => Live(s)

LEMMA DimmedSound ==
  ASSUME TypeOK, Dimmed, NEW k \in Handlers, NameSound(k), req'[k] = req[k] \/ req'[k] = Idle
  PROVE  NameSound(k)'
<1>1. CASE req'[k] = Idle
  BY <1>1 DEF NameSound, OneRow, Idle
<1>2. CASE req'[k] = req[k] /\ req[k] # Idle
  <2>1. OneRow(k)'
    BY <1>2 DEF NameSound, OneRow
  <2>2. ASSUME ~req[k].named PROVE Unmet(k)'
    <3>1. Unmet(k) /\ req[k].rows \in SUBSET Resources
      BY <1>2, <2>2, Fields DEF NameSound
    <3> QED BY <1>2, <3>1 DEF Unmet, Dimmed
  <2> QED BY <1>2, <2>1, <2>2 DEF NameSound
<1> QED BY <1>1, <1>2

\* Names stay apart when what is written has a name of its own.
LEMMA NamesKept ==
  ASSUME NamesUnique, NEW R, Written(R), loose.named \ R \subseteq loose'.named,
         \A r \in R : r \in loose'.named \/ ~Live(r)' \/ Alone(r)'
  PROVE  NamesUnique'
<1> SUFFICES ASSUME NEW r \in Resources, NEW s \in Resources, r # s, Live(r)', Live(s)',
                    row'[r].parent = row'[s].parent, row'[r].name = row'[s].name,
                    row'[r].name # Unnamed
             PROVE  r \in loose'.named \/ s \in loose'.named
  BY DEF NamesUnique
<1>1. CASE r \in R
  BY <1>1 DEF Alone
<1>2. CASE s \in R
  BY <1>2 DEF Alone
<1>3. CASE r \notin R /\ s \notin R
  <2>1. row'[r] = row[r] /\ row'[s] = row[s]
    BY <1>3 DEF Written
  <2> QED BY <1>3, <2>1 DEF NamesUnique, Live
<1> QED BY <1>1, <1>2, <1>3

LEMMA NamesDimmed ==
  ASSUME NamesUnique, Dimmed,
         \A s \in Resources : Live(s)' /\ s \in loose.named => s \in loose'.named
  PROVE  NamesUnique'
BY DEF NamesUnique, Dimmed

\* Other requests than the one that commits.
LEMMA CommitTrust ==
  ASSUME TypeOK, NameInv, NEW h \in Handlers, NEW R, Written(R), NEW moves,
         \A k \in Handlers \ {h} : ~Together(h, k),
         req' = [Disturbed(h, R, moves) EXCEPT ![h] = Idle]
  PROVE  \A k \in Handlers : NameSound(k)'
<1> SUFFICES ASSUME NEW k \in Handlers PROVE NameSound(k)'
  OBVIOUS
<1>1. Disturbed(h, R, moves) \in [Handlers -> Request \union {Idle}]
  BY DisturbedFields DEF TypeOK
<1>2. CASE k = h
  <2>1. req'[k] = Idle
    BY <1>1, <1>2
  <2> QED BY <2>1 DEF NameSound, OneRow, Idle
<1>3. CASE k # h
  <2>1. req'[k] = Disturbed(h, R, moves)[k]
    BY <1>1, <1>3
  <2> QED BY <1>3, <2>1, TrustKept DEF NameInv
<1> QED BY <1>2, <1>3

LEMMA SameDimmed == ASSUME UNCHANGED row PROVE Dimmed
BY DEF Dimmed, Live

\* A request that begins has found the name free.
LEMMA BeginTrust ==
  ASSUME IInv, NameInv, NEW h \in Handlers, NEW op, NEW rows, NEW parent, NEW name,
         op \in {"create", "rename", "move", "batch", "reparent", "check", "restore"},
         rows \in SUBSET Resources, parent \in Parents, name \in Names,
         Begin(h, op, rows, parent, name),
         op # "batch" => \E r \in Resources : rows = {r},
         op # "restore",
         op \in {"create", "rename", "move"} /\ name # Unnamed =>
           \A s \in Resources \ rows : ~(Live(s) /\ row[s].parent = parent /\ row[s].name = name),
         op = "batch" =>
           \A r \in rows : \A s \in Resources \ {r} :
             /\ ~(Live(s) /\ row[s].parent = parent /\ row[s].name = row[r].name)
             /\ s \in rows => row[s].name # row[r].name,
         op = "rename" => \A r \in rows : row[r].parent = parent
  PROVE  NameInv'
<1>1. TypeOK /\ row' = row /\ loose' = loose /\ NamesUnique /\ Dimmed
  BY SameDimmed DEF IInv, NameInv, Begin
<1>2. NamesUnique'
  BY <1>1, NamesDimmed
<1>3. PICK q : q = [op |-> op, rows |-> rows, parent |-> parent,
                    name |-> name, moved |-> FALSE, named |-> FALSE]
  OBVIOUS
<1>4. q.op = op /\ q.rows = rows /\ q.parent = parent /\ q.name = name
  BY <1>3
<1>5. req' = [req EXCEPT ![h] = q]
  BY <1>3 DEF Begin
<1>6. req'[h] = q /\ \A k \in Handlers \ {h} : req'[k] = req[k]
  BY <1>1, <1>5 DEF TypeOK
<1>7. ASSUME NEW k \in Handlers, k # h PROVE NameSound(k)'
  <2>1. NameSound(k) /\ req'[k] = req[k]
    BY <1>6, <1>7 DEF NameInv
  <2> QED BY <1>1, <2>1, DimmedSound
<1>8. OneRow(h)'
  BY <1>4, <1>6 DEF OneRow
<1>9. Unmet(h)'
  BY <1>1, <1>4, <1>6 DEF Unmet, Live
<1> QED BY <1>2, <1>7, <1>8, <1>9 DEF NameInv, NameSound

LEMMA BeginNames ==
  ASSUME IInv, NameInv, NEW h \in Handlers, BeginStep(h)
  PROVE  NameInv'
<1>1. \A r \in Resources : row[r].parent \in Parents /\ row[r].name \in Names
  BY Fields DEF IInv
<1>2. ASSUME NEW r \in Resources, BeginRestore(h, r) PROVE NameInv'
  <2>1. Root \in Parents
    BY RootAssumption DEF Parents
  <2>2. CASE Begin(h, "check", {r}, row[r].parent, row[r].name)
    <3>1. {r} \in SUBSET Resources
      OBVIOUS
    <3> QED BY <1>1, <2>2, <3>1, BeginTrust
  <2>3. CASE Begin(h, "reparent", {r}, Root, row[r].name)
    <3>1. {r} \in SUBSET Resources
      OBVIOUS
    <3> QED BY <1>1, <2>1, <2>3, <3>1, BeginTrust
  <2> QED BY <1>2, <2>2, <2>3 DEF BeginRestore
<1>3. ASSUME NEW r \in Resources, NEW n \in Names, BeginRename(h, r, n) PROVE NameInv'
  <2>1. /\ Begin(h, "rename", {r}, row[r].parent, n)
        /\ n # Unnamed =>
             \A s \in Resources \ {r} : ~(Live(s) /\ row[s].parent = row[r].parent /\ row[s].name = n)
    BY <1>3 DEF BeginRename, Conflicts, Taken
  <2>2. {r} \in SUBSET Resources
    OBVIOUS
  <2> QED BY <1>1, <2>1, <2>2, BeginTrust
<1>4. ASSUME NEW r \in Resources, NEW p \in Resources, NEW n \in Names, BeginCreate(h, r, p, n) PROVE NameInv'
  <2>1. /\ Begin(h, "create", {r}, p, n)
        /\ n # Unnamed => \A s \in Resources \ {r} : ~(Live(s) /\ row[s].parent = p /\ row[s].name = n)
    BY <1>4 DEF BeginCreate, Conflicts, Taken
  <2>2. {r} \in SUBSET Resources /\ p \in Parents
    BY DEF Parents
  <2> QED BY <2>1, <2>2, BeginTrust
<1>5. ASSUME NEW r \in Resources, NEW p \in Resources, NEW n \in Names, BeginMove(h, r, p, n) PROVE NameInv'
  <2>1. /\ Begin(h, "move", {r}, p, n)
        /\ n # Unnamed => \A s \in Resources \ {r} : ~(Live(s) /\ row[s].parent = p /\ row[s].name = n)
    BY <1>5 DEF BeginMove, Conflicts, Taken
  <2>2. {r} \in SUBSET Resources /\ p \in Parents
    BY DEF Parents
  <2> QED BY <2>1, <2>2, BeginTrust
<1>6. ASSUME NEW S \in SUBSET Resources, NEW p \in Resources, BeginBatch(h, S, p) PROVE NameInv'
  <2> DEFINE T == {r \in TopLevel(S) : r \notin Chain(p)}
             moves == Unambiguous(T, p)
  <2>1. Begin(h, "batch", moves, p, row[p].name)
    BY <1>6 DEF BeginBatch
  <2>2. T \subseteq Resources /\ p \in Parents
    BY DEF TopLevel, Parents
  <2> HIDE DEF T
  <2>3. moves \in SUBSET Resources
    BY <2>2 DEF Unambiguous
  <2>4. ASSUME NEW r \in moves, NEW s \in Resources \ {r}
        PROVE  /\ ~(Live(s) /\ row[s].parent = p /\ row[s].name = row[r].name)
               /\ s \in moves => row[s].name # row[r].name
    BY <2>2 DEF Unambiguous, Taken
  <2> HIDE DEF moves
  <2> QED BY <1>1, <2>1, <2>2, <2>3, <2>4, BeginTrust
<1> QED BY <1>2, <1>3, <1>4, <1>5, <1>6 DEF BeginStep

\* What is taken into the rows whose name was not checked, and what is not.
LEMMA WithFields ==
  ASSUME NEW L, NEW R, NEW add
  PROVE  L \ R \subseteq With(L, R, add) /\ (add => R \subseteq With(L, R, add))
BY DEF With

LEMMA WrittenAlone ==
  ASSUME NEW r \in Resources, Written({r}),
         row'[r].name # Unnamed =>
           \A s \in Resources \ {r} :
             ~(Live(s) /\ row[s].parent = row'[r].parent /\ row[s].name = row'[r].name)
  PROVE  Alone(r)'
BY DEF Written, Alone, Live

\* A request that writes one row under a name it may trust.
LEMMA PlacedName ==
  ASSUME IInv, NameInv, NEW h \in Handlers, req[h].op \in {"create", "rename", "move"},
         \A r \in req[h].rows :
           /\ row'[r].name = req[h].name
           /\ req[h].named \/ row'[r].parent = req[h].parent,
         Written(req[h].rows),
         loose'.named = With(loose.named, req[h].rows, req[h].named),
         NEW moves, Commit(h, req[h].rows, moves)
  PROVE  NameInv'
<1>1. TypeOK /\ NamesUnique /\ NameSound(h) /\ req[h] # Idle
  BY DEF IInv, NameInv, Idle
<1>2. PICK r \in Resources : req[h].rows = {r}
  BY <1>1 DEF NameSound, OneRow
<1>3. ~req[h].named => Alone(r)'
  <2>1. SUFFICES ASSUME ~req[h].named PROVE Alone(r)'
    OBVIOUS
  <2>2. Unmet(h)
    BY <1>1, <2>1 DEF NameSound
  <2>3. req[h].name # Unnamed =>
          \A s \in Resources \ {r} :
            ~(Live(s) /\ row[s].parent = req[h].parent /\ row[s].name = req[h].name)
    BY <1>2, <2>2 DEF Unmet
  <2>4. row'[r].parent = req[h].parent /\ row'[r].name = req[h].name
    BY <1>2, <2>1
  <2> QED BY <1>2, <2>3, <2>4, WrittenAlone
<1>4. /\ loose.named \ req[h].rows \subseteq loose'.named
      /\ req[h].named => req[h].rows \subseteq loose'.named
  BY WithFields
<1>5. NamesUnique'
  BY <1>1, <1>2, <1>3, <1>4, NamesKept
<1>6. \A k \in Handlers \ {h} : ~Together(h, k)
  BY DEF Together
<1>7. req' = [Disturbed(h, req[h].rows, moves) EXCEPT ![h] = Idle]
  BY DEF Commit
<1>8. \A k \in Handlers : NameSound(k)'
  BY <1>1, <1>6, <1>7, CommitTrust
<1> QED BY <1>5, <1>8 DEF NameInv

LEMMA CreateNames ==
  ASSUME IInv, NameInv, NEW h \in Handlers, Create(h)
  PROVE  NameInv'
<1>1. TypeOK /\ req[h].op = "create" /\ Commit(h, req[h].rows, FALSE)
  BY DEF IInv, Create
<1>2. req[h].rows \in SUBSET Resources
  BY <1>1, Fields
<1>3. row' = [r \in Resources |-> IF r \in req[h].rows
        THEN [state |-> "live", parent |-> req[h].parent, name |-> req[h].name] ELSE row[r]]
  BY DEF Create
<1>4. Written(req[h].rows)
  BY <1>2, <1>3 DEF Written
<1>5. \A r \in req[h].rows : row'[r].name = req[h].name /\ row'[r].parent = req[h].parent
  BY <1>2, <1>3
<1>6. loose'.named = With(loose.named, req[h].rows, req[h].named)
  BY <1>1 DEF Create, TypeOK
<1> QED BY <1>1, <1>4, <1>5, <1>6, PlacedName

LEMMA RenameNames ==
  ASSUME IInv, NameInv, NEW h \in Handlers, Rename(h)
  PROVE  NameInv'
<1>1. TypeOK /\ req[h].op = "rename" /\ Commit(h, req[h].rows, FALSE) /\ NameSound(h) /\ req[h] # Idle
  <2>1. req[h].op = "rename" /\ Commit(h, req[h].rows, FALSE)
    BY DEF Rename
  <2>2. req[h] # Idle
    BY <2>1 DEF Idle
  <2> QED BY <2>1, <2>2 DEF IInv, NameInv
<1>2. req[h].rows \in SUBSET Resources
  BY <1>1, Fields
<1>3. row' = [r \in Resources |-> IF r \in req[h].rows
        THEN [row[r] EXCEPT !.name = req[h].name] ELSE row[r]]
  BY DEF Rename
<1>4. Written(req[h].rows)
  BY <1>2, <1>3 DEF Written
<1>5. ASSUME NEW r \in req[h].rows
      PROVE  row'[r].name = req[h].name /\ (req[h].named \/ row'[r].parent = req[h].parent)
  <2>1. row[r] \in Row /\ row'[r] = [row[r] EXCEPT !.name = req[h].name]
    BY <1>1, <1>2, <1>3, Fields
  <2>2. row'[r].name = req[h].name /\ row'[r].parent = row[r].parent
    BY <2>1 DEF Row
  <2>3. ~req[h].named => row[r].parent = req[h].parent
    BY <1>1 DEF NameSound, Unmet
  <2> QED BY <2>2, <2>3
<1>6. loose'.named = With(loose.named, req[h].rows, req[h].named)
  BY <1>1 DEF Rename, TypeOK
<1> QED BY <1>1, <1>4, <1>5, <1>6, PlacedName

LEMMA MoveNames ==
  ASSUME IInv, NameInv, NEW h \in Handlers, Move(h)
  PROVE  NameInv'
<1>1. TypeOK /\ req[h].op = "move" /\ Commit(h, req[h].rows, TRUE)
  BY DEF IInv, Move
<1>2. req[h].rows \in SUBSET Resources
  BY <1>1, Fields
<1>3. row' = [r \in Resources |-> IF r \in req[h].rows
        THEN [row[r] EXCEPT !.parent = req[h].parent, !.name = req[h].name] ELSE row[r]]
  BY DEF Move
<1>4. Written(req[h].rows)
  BY <1>2, <1>3 DEF Written
<1>5. ASSUME NEW r \in req[h].rows
      PROVE  row'[r].name = req[h].name /\ row'[r].parent = req[h].parent
  <2>1. row[r] \in Row /\ row'[r] = [row[r] EXCEPT !.parent = req[h].parent, !.name = req[h].name]
    BY <1>1, <1>2, <1>3, Fields
  <2> QED BY <2>1 DEF Row
<1>6. loose'.named = With(loose.named, req[h].rows, req[h].named)
  BY DEF Move
<1> QED BY <1>1, <1>4, <1>5, <1>6, PlacedName

\* The rows of a batch move keep their names, and those were free.
LEMMA BatchNames ==
  ASSUME IInv, NameInv, NEW h \in Handlers, BatchMove(h)
  PROVE  NameInv'
<1> DEFINE R == req[h].rows
<1>1. /\ TypeOK /\ Apart /\ NamesUnique /\ NameSound(h)
      /\ req[h].op = "batch" /\ req[h] # Idle /\ Commit(h, R, TRUE)
  <2>1. req[h].op = "batch" /\ Commit(h, R, TRUE)
    BY DEF BatchMove
  <2>2. req[h] # Idle
    BY <2>1 DEF Idle
  <2> QED BY <2>1, <2>2 DEF IInv, NameInv
<1>2. R \in SUBSET Resources
  BY <1>1, Fields
<1>3. row' = [r \in Resources |-> IF r \in R THEN [row[r] EXCEPT !.parent = req[h].parent] ELSE row[r]]
  BY DEF BatchMove
<1>4. Written(R)
  BY <1>2, <1>3 DEF Written
<1>5. ASSUME NEW r \in R
      PROVE  row'[r].name = row[r].name /\ row'[r].parent = req[h].parent
  <2>1. row[r] \in Row /\ row'[r] = [row[r] EXCEPT !.parent = req[h].parent]
    BY <1>1, <1>2, <1>3, Fields
  <2> QED BY <2>1 DEF Row
<1>6. loose'.named = With(loose.named, R, req[h].named)
  BY DEF BatchMove
<1>7. loose.named \ R \subseteq loose'.named /\ (req[h].named => R \subseteq loose'.named)
  BY <1>6, WithFields
<1> HIDE DEF R
<1>8. ASSUME NEW r \in R, ~req[h].named PROVE Alone(r)'
  <2>1. \A s \in Resources \ {r} :
          /\ ~(Live(s) /\ row[s].parent = req[h].parent /\ row[s].name = row[r].name)
          /\ s \in R => row[s].name # row[r].name
    BY <1>1, <1>8 DEF NameSound, Unmet, R
  <2>2. ASSUME NEW s \in Resources \ {r}
        PROVE  ~(row'[s].state = "live" /\ row'[s].parent = row'[r].parent /\ row'[s].name = row'[r].name)
    <3>1. CASE s \in R
      BY <1>5, <2>1, <3>1
    <3>2. CASE s \notin R
      <4>1. row'[s] = row[s]
        BY <1>4, <3>2 DEF Written
      <4> QED BY <1>5, <2>1, <4>1 DEF Live
    <3> QED BY <3>1, <3>2
  <2> QED BY <2>2 DEF Alone, Live
<1>9. NamesUnique'
  BY <1>1, <1>4, <1>7, <1>8, NamesKept
<1>10. \A k \in Handlers \ {h} : ~Together(h, k)
  BY <1>1 DEF Apart, Together
<1>11. req' = [Disturbed(h, R, TRUE) EXCEPT ![h] = Idle]
  BY <1>1 DEF Commit
<1>12. \A k \in Handlers : NameSound(k)'
  BY <1>1, <1>4, <1>10, <1>11, CommitTrust
<1> QED BY <1>9, <1>12 DEF NameInv

\* A restore that moves its resource first tells who checked a name under the
\* root; that resource's own name counts as unchecked.
LEMMA ReparentNames ==
  ASSUME IInv, NameInv, NEW h \in Handlers, Reparent(h)
  PROVE  NameInv'
<1> DEFINE R == req[h].rows
           D == Disturbed(h, R, TRUE)
<1>1. TypeOK /\ NamesUnique /\ NameSound(h) /\ req[h].op = "reparent"
  <2>1. req[h].op = "reparent"
    BY DEF Reparent
  <2> QED BY <2>1 DEF IInv, NameInv
<1>2. R \in SUBSET Resources /\ req[h] \in Request /\ req[h] # Idle
  BY <1>1, Fields
<1>3. Written(R)
  <2>1. row' = [r \in Resources |-> IF r \in R THEN [row[r] EXCEPT !.parent = Root] ELSE row[r]]
    BY DEF Reparent
  <2> QED BY <1>2, <2>1 DEF Written
<1>4. loose'.named = loose.named \union R
  BY DEF Reparent
<1>5. NamesUnique'
  BY <1>1, <1>3, <1>4, NamesKept
<1>6. req' = [D EXCEPT ![h].op = "check"]
  BY DEF Reparent
<1>7. D \in [Handlers -> Request \union {Idle}] /\ D[h] = req[h]
  <2>1. req \in [Handlers -> Request \union {Idle}]
    BY <1>1 DEF TypeOK
  <2>2. \A moves : /\ Disturbed(h, R, moves) \in [Handlers -> Request \union {Idle}]
                   /\ Disturbed(h, R, moves)[h] = req[h]
    BY <2>1, DisturbedFields
  <2> QED BY <2>2
<1>8. \A k \in Handlers \ {h} : ~Together(h, k)
  BY <1>1 DEF Together
<1> HIDE DEF R, D
<1>9. ASSUME NEW k \in Handlers, k # h PROVE NameSound(k)'
  <2>1. req'[k] = D[k]
    BY <1>6, <1>7, <1>9
  <2> QED BY <1>1, <1>3, <1>8, <1>9, <2>1, TrustKept DEF NameInv, D
<1>10. NameSound(h)'
  <2>1. req'[h] = [req[h] EXCEPT !.op = "check"]
    BY <1>6, <1>7
  <2>2. req'[h].op = "check" /\ req'[h].rows = req[h].rows
    BY <1>2, <2>1 DEF Request
  <2>3. OneRow(h)
    BY <1>1 DEF NameSound
  <2>4. \E r \in Resources : req[h].rows = {r}
    BY <1>1, <2>3 DEF OneRow
  <2> QED BY <2>2, <2>4 DEF NameSound, OneRow, Unmet
<1> QED BY <1>5, <1>9, <1>10 DEF NameInv

LEMMA CheckNames ==
  ASSUME IInv, NameInv, NEW h \in Handlers, CheckRestore(h)
  PROVE  NameInv'
<1>1. /\ TypeOK /\ NamesUnique /\ req[h].op = "check" /\ NameSound(h)
      /\ row' = row /\ loose' = loose
  BY DEF IInv, NameInv, CheckRestore
<1>2. req[h] \in Request /\ req[h] # Idle /\ req[h].rows \in SUBSET Resources
  BY <1>1, Fields
<1>3. PICK r \in req[h].rows :
        req' = [req EXCEPT ![h] =
          IF Taken(row[r].parent, req[h].name, {r}) THEN Idle
          ELSE [req[h] EXCEPT !.op = "restore", !.parent = row[r].parent,
                              !.named = row[r].name # req[h].name]]
  BY DEF CheckRestore
<1>4. Dimmed
  BY <1>1, SameDimmed
<1>5. NamesUnique'
  BY <1>1, <1>4, NamesDimmed
<1>6. ASSUME NEW k \in Handlers, k # h PROVE NameSound(k)'
  <2>1. req'[k] = req[k]
    BY <1>1, <1>3, <1>6 DEF TypeOK
  <2> QED BY <1>1, <1>4, <2>1, DimmedSound DEF NameInv
<1>7. NameSound(h)'
  <2>1. req[h].rows = {r}
    BY <1>1 DEF NameSound, OneRow
  <2>2. CASE Taken(row[r].parent, req[h].name, {r})
    <3>1. req'[h] = Idle
      BY <1>1, <1>3, <2>2 DEF TypeOK
    <3> QED BY <3>1 DEF NameSound, OneRow, Idle
  <2>3. CASE ~Taken(row[r].parent, req[h].name, {r})
    <3>1. PICK q : q = [req[h] EXCEPT !.op = "restore", !.parent = row[r].parent,
                                      !.named = row[r].name # req[h].name]
      OBVIOUS
    <3>2. /\ q.op = "restore" /\ q.rows = {r} /\ q.parent = row[r].parent /\ q.name = req[h].name
          /\ q.named = (row[r].name # req[h].name)
      BY <1>2, <2>1, <3>1 DEF Request
    <3>3. req'[h] = q
      BY <1>1, <1>3, <2>3, <3>1 DEF TypeOK
    <3>4. r \in Resources
      BY <1>2
    <3>5. \A s \in Resources \ {r} : ~(Live(s) /\ row[s].parent = row[r].parent /\ row[s].name = req[h].name)
      BY <2>3 DEF Taken
    <3>6. OneRow(h)'
      BY <3>2, <3>3, <3>4 DEF OneRow
    <3>7. ASSUME ~q.named PROVE Unmet(h)'
      BY <1>1, <3>2, <3>3, <3>4, <3>5, <3>7 DEF Unmet, Live
    <3> QED BY <3>3, <3>6, <3>7 DEF NameSound
  <2> QED BY <2>2, <2>3
<1> QED BY <1>5, <1>6, <1>7 DEF NameInv

LEMMA RestoreNames ==
  ASSUME IInv, NameInv, NEW h \in Handlers, Restore(h)
  PROVE  NameInv'
<1>1. TypeOK /\ NamesUnique /\ req[h].op = "restore" /\ NameSound(h)
  BY DEF IInv, NameInv, Restore
<1>2. req[h] \in Request /\ req[h] # Idle /\ req[h].rows \in SUBSET Resources
  BY <1>1, Fields
<1>3. PICK r \in req[h].rows :
       IF row[r].state = "trashed"
       THEN /\ row' = [row EXCEPT ![r].state = "live"]
            /\ loose' = [loose EXCEPT !.named =
                 With(@, {r}, req[h].named \/ row[r].parent # req[h].parent)]
            /\ Commit(h, {r}, FALSE)
       ELSE /\ req' = [req EXCEPT ![h] = Idle]
            /\ UNCHANGED <<row, loose, commits>>
  BY DEF Restore
<1>4. CASE row[r].state = "trashed"
  <2>1. r \in Resources /\ req[h].rows = {r}
    BY <1>1, <1>2 DEF NameSound, OneRow
  <2>2. row' = [row EXCEPT ![r].state = "live"]
    BY <1>3, <1>4
  <2>3. Written({r}) /\ row'[r] = [row[r] EXCEPT !.state = "live"]
    BY <1>1, <2>1, <2>2 DEF Written, TypeOK
  <2>4. row'[r].parent = row[r].parent /\ row'[r].name = row[r].name
    <3>1. row[r] \in Row
      BY <1>1, <2>1, Fields
    <3> QED BY <2>3, <3>1 DEF Row
  <2>5. PICK b : b = (req[h].named \/ row[r].parent # req[h].parent)
    OBVIOUS
  <2>6. loose'.named = With(loose.named, {r}, b)
    BY <1>1, <1>3, <1>4, <2>5 DEF TypeOK
  <2>7. loose.named \ {r} \subseteq loose'.named /\ (b => {r} \subseteq loose'.named)
    BY <2>6, WithFields
  <2>8. ASSUME ~b PROVE Alone(r)'
    <3>1. Unmet(h) /\ row[r].parent = req[h].parent
      BY <1>1, <1>2, <2>5, <2>8 DEF NameSound
    <3>2. row[r].name = req[h].name
      BY <1>1, <2>1, <3>1 DEF Unmet
    <3>3. row'[r].name # Unnamed =>
            \A s \in Resources \ {r} :
              ~(Live(s) /\ row[s].parent = row'[r].parent /\ row[s].name = row'[r].name)
      BY <1>1, <2>1, <2>4, <3>1, <3>2 DEF Unmet
    <3> QED BY <2>1, <2>3, <3>3, WrittenAlone
  <2>9. NamesUnique'
    BY <1>1, <2>3, <2>7, <2>8, NamesKept
  <2>10. \A k \in Handlers \ {h} : ~Together(h, k)
    BY <1>1 DEF Together
  <2>11. req' = [Disturbed(h, {r}, FALSE) EXCEPT ![h] = Idle]
    BY <1>3, <1>4 DEF Commit
  <2>12. \A k \in Handlers : NameSound(k)'
    BY <1>1, <2>3, <2>10, <2>11, CommitTrust
  <2> QED BY <2>9, <2>12 DEF NameInv
<1>5. CASE row[r].state # "trashed"
  <2>1. req' = [req EXCEPT ![h] = Idle] /\ row' = row /\ loose' = loose
    BY <1>3, <1>5
  <2>2. Dimmed
    BY <2>1, SameDimmed
  <2>3. \A k \in Handlers : req'[k] = req[k] \/ req'[k] = Idle
    BY <1>1, <2>1 DEF TypeOK
  <2>4. \A k \in Handlers : NameSound(k)'
    BY <1>1, <2>2, <2>3, DimmedSound DEF NameInv
  <2>5. NamesUnique'
    BY <1>1, <2>1, <2>2, NamesDimmed
  <2> QED BY <2>4, <2>5 DEF NameInv
<1> QED BY <1>4, <1>5

\* The trash takes a row, or a request ends without a write.
LEMMA QuietNames ==
  ASSUME IInv, NameInv, Dimmed, \A k \in Handlers : req'[k] = req[k] \/ req'[k] = Idle,
         \A s \in Resources : Live(s)' /\ s \in loose.named => s \in loose'.named
  PROVE  NameInv'
<1>1. \A k \in Handlers : NameSound(k)'
  BY DimmedSound DEF IInv, NameInv
<1>2. NamesUnique'
  BY NamesDimmed DEF NameInv
<1> QED BY <1>1, <1>2 DEF NameInv

LEMMA TrashNames ==
  ASSUME IInv, NameInv, NEW r \in Resources, Trash(r)
  PROVE  NameInv'
<1>1. /\ TypeOK /\ row' = [row EXCEPT ![r].state = "trashed"] /\ req' = req
      /\ loose' = [loose EXCEPT !.named = @ \ {r}]
  BY DEF IInv, Trash
<1>2. row[r] \in Row
  BY <1>1, Fields
<1>3. /\ row'[r].state = "trashed" /\ row'[r].parent = row[r].parent /\ row'[r].name = row[r].name
      /\ \A s \in Resources \ {r} : row'[s] = row[s]
  BY <1>1, <1>2 DEF TypeOK, Row
<1>4. Dimmed
  BY <1>3 DEF Dimmed, Live
<1>5. \A s \in Resources : Live(s)' /\ s \in loose.named => s \in loose'.named
  BY <1>1, <1>3 DEF TypeOK, Live
<1> QED BY <1>1, <1>4, <1>5, QuietNames

LEMMA InitNames == Init => NameInv
<1> SUFFICES ASSUME Init PROVE NameInv
  OBVIOUS
<1>1. \A r \in Resources :
        /\ row[r].state = IF r = Root \/ InitialParent[r] # None THEN "live" ELSE "absent"
        /\ row[r].parent = InitialParent[r] /\ row[r].name = InitialName[r]
  BY DEF Init
<1>2. NamesUnique
  BY <1>1, InitialAssumption DEF NamesUnique, Live
<1>3. \A h \in Handlers : NameSound(h)
  BY DEF Init, NameSound, OneRow, Idle
<1> QED BY <1>2, <1>3 DEF NameInv

LEMMA StepNames == IInv /\ NameInv /\ [Next]_vars => NameInv'
<1> SUFFICES ASSUME IInv, NameInv, [Next]_vars PROVE NameInv'
  OBVIOUS
<1>1. CASE UNCHANGED vars
  <2>1. row' = row /\ req' = req /\ loose' = loose
    BY <1>1 DEF vars
  <2>2. Dimmed
    BY <2>1, SameDimmed
  <2> QED BY <2>1, <2>2, QuietNames
<1>2. ASSUME NEW h \in Handlers, Step(h) PROVE NameInv'
  <2>1. CASE BeginStep(h)
    BY <2>1, BeginNames
  <2>2. CASE Create(h)
    BY <2>2, CreateNames
  <2>3. CASE Rename(h)
    BY <2>3, RenameNames
  <2>4. CASE Move(h)
    BY <2>4, MoveNames
  <2>5. CASE BatchMove(h)
    BY <2>5, BatchNames
  <2>6. CASE Reparent(h)
    BY <2>6, ReparentNames
  <2>7. CASE CheckRestore(h)
    BY <2>7, CheckNames
  <2>8. CASE Restore(h)
    BY <2>8, RestoreNames
  <2>9. CASE Abort(h)
    <3>1. req' = [req EXCEPT ![h] = Idle] /\ row' = row /\ loose' = loose /\ TypeOK
      BY <2>9 DEF Abort, IInv
    <3>2. Dimmed
      BY <3>1, SameDimmed
    <3>3. \A k \in Handlers : req'[k] = req[k] \/ req'[k] = Idle
      BY <3>1 DEF TypeOK
    <3> QED BY <3>1, <3>2, <3>3, QuietNames
  <2> QED BY <1>2, <2>1, <2>2, <2>3, <2>4, <2>5, <2>6, <2>7, <2>8, <2>9 DEF Step
<1>3. ASSUME NEW r \in Resources, Trash(r) PROVE NameInv'
  BY <1>3, TrashNames
<1> QED BY <1>1, <1>2, <1>3 DEF Next

\* However creations, renames, moves, batch moves and restores interleave, two
\* resources of a folder have different names, but where a name was written
\* that another request had taken since its check.
THEOREM NamesAlwaysUnique == Spec => []NamesUnique
<1>1. NameInv => NamesUnique
  BY DEF NameInv
<1>2. Init => IInv /\ NameInv
  BY InitInv, InitNames
<1>3. IInv /\ NameInv /\ [Next]_vars => (IInv /\ NameInv)'
  BY StepInv, StepNames
<1> QED BY <1>1, <1>2, <1>3, PTL DEF Spec

(* -------------------------- the tree while read -------------------------- *)

\* No step of ResourceAccess is a step of the tree that ResourceTree has not.
LEMMA TreeStep == AccessNext => [Next]_vars
<1> SUFFICES ASSUME AccessNext PROVE [Next]_vars
  OBVIOUS
<1>1. CASE ChangeTree
  BY <1>1 DEF ChangeTree, Next
<1>2. CASE \E c \in Changeable : SetEntry(c[1], c[2], c[3])
  BY <1>2 DEF SetEntry
<1>3. CASE \E r \in Watched : BeginCheck(r) \/ BeginFilter(r) \/ BeginList(r)
  BY <1>3 DEF BeginCheck, BeginFilter, BeginList, Ask
<1>4. CASE ReadRow \/ ReadRows \/ ReadEntries \/ Answer
  BY <1>4 DEF ReadRow, ReadRows, ReadEntries, Answer
<1> QED BY <1>1, <1>2, <1>3, <1>4 DEF AccessNext

\* Permission checks, listings and changes of permissions leave the tree as
\* creations, moves and restores make it, so nothing hangs off itself while
\* they run either.
THEOREM TreeAcyclicWhileRead == AccessSpec => []Acyclic
<1>1. AccessInit => Init
  BY DEF AccessInit
<1>2. [AccessNext]_accessVars => [Next]_vars
  BY TreeStep DEF accessVars
<1>3. AccessSpec => Spec
  BY <1>1, <1>2, PTL DEF AccessSpec, Spec
<1> QED BY <1>3, TreeAcyclic, PTL

(* ------------------------------- ways up --------------------------------- *)

\* Chain, WayUp, Reachable and Allowed of any rows w and entries e, so that what
\* is shown of them holds before a step and after it.
ClosedIn(w, C) == \A r \in C : w[r].parent \in C \union {None}
ChainIn(w, r) == {x \in Resources : \A C \in SUBSET (Resources \ {x}) : r \in C => ~ClosedIn(w, C)}
WayIn(w, r) ==
  LET up[k \in 1..Cardinality(ChainIn(w, r))] == IF k = 1 THEN r ELSE w[up[k - 1]].parent IN up
ReachIn(w, r) == Root \in ChainIn(w, r) /\ \A x \in ChainIn(w, r) : w[x].state = "live"
Levels(w, e, r) == [s \in Sources |-> Nearest(e[s], WayIn(w, r))]
AllowedIn(w, e, r) == ReachIn(w, r) /\ Allows(Levels(w, e, r))

LEMMA AsIn ==
  ASSUME NEW r
  PROVE  /\ Chain(r) = ChainIn(row, r) /\ WayUp(r) = WayIn(row, r)
         /\ Reachable(r) <=> ReachIn(row, r)
         /\ Allowed(r) <=> AllowedIn(row, entry, r)
<1>1. Chain(r) = ChainIn(row, r)
  BY DEF Chain, ChainIn, Closed, ClosedIn
<1>2. WayUp(r) = WayIn(row, r)
  BY <1>1 DEF WayUp, WayIn
<1>3. Reachable(r) <=> ReachIn(row, r)
  BY <1>1 DEF Reachable, ReachIn, Live
<1>4. Allowed(r) <=> AllowedIn(row, entry, r)
  BY <1>2, <1>3 DEF Allowed, AllowedIn, Levels
<1> QED BY <1>1, <1>2, <1>3, <1>4

LEMMA AsInNext ==
  ASSUME NEW r
  PROVE  /\ Chain(r)' = ChainIn(row', r) /\ WayUp(r)' = WayIn(row', r)
         /\ Reachable(r)' <=> ReachIn(row', r)
         /\ Allowed(r)' <=> AllowedIn(row', entry', r)
<1>1. Chain(r)' = ChainIn(row', r)
  BY DEF Chain, ChainIn, Closed, ClosedIn
<1>2. WayUp(r)' = WayIn(row', r)
  BY <1>1 DEF WayUp, WayIn
<1>3. Reachable(r)' <=> ReachIn(row', r)
  BY <1>1 DEF Reachable, ReachIn, Live
<1>4. Allowed(r)' <=> AllowedIn(row', entry', r)
  BY <1>2, <1>3 DEF Allowed, AllowedIn, Levels
<1> QED BY <1>1, <1>2, <1>3, <1>4

LEMMA ChainInClosed ==
  ASSUME NEW w \in [Resources -> Row], NEW p \in Resources
  PROVE  /\ p \in ChainIn(w, p) /\ ChainIn(w, p) \subseteq Resources
         /\ \A x \in ChainIn(w, p) : w[x].parent # None => w[x].parent \in ChainIn(w, p)
<1>1. p \in ChainIn(w, p) /\ ChainIn(w, p) \subseteq Resources
  BY DEF ChainIn
<1>2. ASSUME NEW x \in ChainIn(w, p), w[x].parent # None
      PROVE  w[x].parent \in ChainIn(w, p)
  <2>1. x \in Resources
    BY <1>1
  <2>2. w[x] \in Row
    BY <2>1
  <2>3. w[x].parent \in Resources
    BY <2>2, <1>2 DEF Parents, Row
  <2>4. ASSUME NEW C \in SUBSET Resources, p \in C /\ ClosedIn(w, C)
        PROVE  w[x].parent \in C
    <3>1. x \in C
      BY <1>2, <2>4 DEF ChainIn
    <3> QED BY <3>1, <2>4, <1>2 DEF ClosedIn
  <2> QED BY <2>3, <2>4 DEF ChainIn
<1> QED BY <1>1, <1>2

\* A closed set that holds a row holds its chain.
LEMMA ChainInLeast ==
  ASSUME NEW w, NEW p, NEW D \in SUBSET Resources, p \in D, ClosedIn(w, D)
  PROVE  ChainIn(w, p) \subseteq D
BY DEF ChainIn

LEMMA ChainInSub ==
  ASSUME NEW w \in [Resources -> Row], NEW p \in Resources, NEW x \in ChainIn(w, p)
  PROVE  ChainIn(w, x) \subseteq ChainIn(w, p)
<1>1. ChainIn(w, p) \in SUBSET Resources /\ ClosedIn(w, ChainIn(w, p))
  BY ChainInClosed DEF ClosedIn
<1> QED BY <1>1, ChainInLeast

LEMMA ChainInStep ==
  ASSUME NEW w \in [Resources -> Row], NEW p \in Resources
  PROVE  /\ w[p].parent = None => ChainIn(w, p) = {p}
         /\ w[p].parent # None =>
              /\ w[p].parent \in Resources
              /\ ChainIn(w, p) = {p} \union ChainIn(w, w[p].parent)
<1>1. w[p] \in Row
  OBVIOUS
<1>2. ASSUME w[p].parent = None PROVE ChainIn(w, p) = {p}
  <2>1. ClosedIn(w, {p})
    BY <1>2 DEF ClosedIn
  <2>2. ChainIn(w, p) \subseteq {p}
    BY <2>1, ChainInLeast
  <2> QED BY <2>2, ChainInClosed
<1>3. ASSUME w[p].parent # None
      PROVE  /\ w[p].parent \in Resources
             /\ ChainIn(w, p) = {p} \union ChainIn(w, w[p].parent)
  <2>1. w[p].parent \in Resources
    BY <1>1, <1>3 DEF Parents, Row
  <2>2. PICK q \in Resources : q = w[p].parent
    BY <2>1
  <2> DEFINE D == {p} \union ChainIn(w, q)
  <2>3. q \in ChainIn(w, q) /\ ChainIn(w, q) \in SUBSET Resources
    BY ChainInClosed
  <2>4. ClosedIn(w, D)
    <3>1. \A x \in ChainIn(w, q) : w[x].parent # None => w[x].parent \in ChainIn(w, q)
      BY ChainInClosed
    <3> QED BY <2>2, <2>3, <3>1 DEF ClosedIn
  <2>5. ChainIn(w, p) \subseteq D
    BY <2>3, <2>4, ChainInLeast
  <2>6. q \in ChainIn(w, p) /\ p \in ChainIn(w, p)
    BY <1>3, <2>2, ChainInClosed
  <2>7. ChainIn(w, q) \subseteq ChainIn(w, p)
    BY <2>6, ChainInSub
  <2> QED BY <2>1, <2>2, <2>5, <2>6, <2>7
<1> QED BY <1>2, <1>3

\* Where nothing hangs off itself, a row is not above what it hangs off.
LEMMA ChainInOnce ==
  ASSUME NEW w \in [Resources -> Row],
         \A C \in SUBSET Resources : (\A r \in C : w[r].parent \in C) => C = {},
         NEW x \in Resources, w[x].parent # None, NEW y \in ChainIn(w, w[x].parent)
  PROVE  x \notin ChainIn(w, y)
<1> SUFFICES ASSUME x \in ChainIn(w, y) PROVE FALSE
  OBVIOUS
<1>1. /\ w[x].parent \in Resources /\ ChainIn(w, x) = {x} \union ChainIn(w, w[x].parent)
      /\ y \in Resources
  BY ChainInStep, ChainInClosed
<1>2. x \in ChainIn(w, w[x].parent)
  BY <1>1, ChainInSub
<1> DEFINE C == {z \in ChainIn(w, x) : x \in ChainIn(w, z)}
<1>3. ASSUME NEW z \in C PROVE w[z].parent \in C
  <2>1. z \in Resources /\ z \in ChainIn(w, x) /\ x \in ChainIn(w, z)
    BY ChainInClosed
  <2>2. w[z].parent # None
    BY <2>1, ChainInStep
  <2>3. /\ w[z].parent \in Resources
        /\ ChainIn(w, z) = {z} \union ChainIn(w, w[z].parent)
    BY <2>1, <2>2, ChainInStep
  <2>4. w[z].parent \in ChainIn(w, x)
    BY <2>1, <2>2, ChainInClosed
  <2>5. x \in ChainIn(w, w[z].parent)
    BY <1>2, <2>1, <2>3
  <2> QED BY <2>4, <2>5
<1>4. C \in SUBSET Resources /\ x \in C
  BY <1>1, ChainInClosed
<1> HIDE DEF C
<1> QED BY <1>3, <1>4


LEMMA Smallest ==
  ASSUME NEW T, T \subseteq Nat, T # {}
  PROVE  \E x \in T : \A y \in T : x <= y
<1>1. IsWellFoundedOn(OpToRel(<, Nat), Nat)
  BY NatLessThanWellFounded
<1>2. PICK R : R = OpToRel(<, Nat)
  OBVIOUS
<1>3. ASSUME NEW x \in Nat, NEW y \in Nat, y < x PROVE <<y, x>> \in R
  BY <1>2, <1>3 DEF OpToRel
<1>4. PICK x \in T : \A y \in T : ~(<<y, x>> \in R)
  BY <1>1, <1>2, WFMin
<1>5. ASSUME NEW y \in T PROVE x <= y
  <2>1. x \in Nat /\ y \in Nat /\ ~(y < x)
    BY <1>3, <1>4
  <2> QED BY <2>1
<1> QED BY <1>5

\* The way from a row up to one that hangs nowhere.
IsWay(w, s, r) ==
  /\ s \in Seq(Resources) /\ Len(s) >= 1 /\ s[1] = r
  /\ \A k \in 1..(Len(s) - 1) : s[k + 1] = w[s[k]].parent
  /\ w[s[Len(s)]].parent = None

LEMMA WayExists ==
  ASSUME NEW w \in [Resources -> Row], w[Root].parent = None, NEW r \in Resources, ReachIn(w, r)
  PROVE  \E s : IsWay(w, s, r)
<1> DEFINE A == {x \in Resources : \E s : IsWay(w, s, x)}
           D == Resources \ A
<1>1. ASSUME NEW x \in Resources, w[x].parent = None PROVE x \in A
  <2>1. IsWay(w, <<x>>, x)
    BY <1>1 DEF IsWay
  <2> QED BY <2>1
<1>2. ASSUME NEW x \in Resources, w[x].parent \in A PROVE x \in A
  <2>1. PICK s : IsWay(w, s, w[x].parent)
    BY <1>2
  <2>2. /\ s \in Seq(Resources) /\ Len(s) >= 1 /\ s[1] = w[x].parent /\ Len(s) \in Nat
        /\ \A k \in 1..(Len(s) - 1) : s[k + 1] = w[s[k]].parent
        /\ w[s[Len(s)]].parent = None
    BY <2>1, LenProperties DEF IsWay
  <2>3. PICK t : t = <<x>> \o s
    OBVIOUS
  <2>4. /\ <<x>> \in Seq(Resources) /\ Len(<<x>>) = 1 /\ <<x>>[1] = x
    OBVIOUS
  <2>5. /\ t \in Seq(Resources) /\ Len(t) = 1 + Len(s)
        /\ \A i \in 1 .. 1 + Len(s) : t[i] = IF i <= 1 THEN <<x>>[i] ELSE s[i - 1]
    BY <2>2, <2>3, <2>4, ConcatProperties
  <2>6. t[1] = x /\ \A i \in 2 .. Len(t) : t[i] = s[i - 1]
    BY <2>2, <2>4, <2>5
  <2>7. ASSUME NEW k \in 1..(Len(t) - 1) PROVE t[k + 1] = w[t[k]].parent
    <3>1. k \in Nat /\ k >= 1 /\ k <= Len(s) /\ t[k + 1] = s[k]
      BY <2>2, <2>5, <2>6
    <3>2. CASE k = 1
      BY <2>2, <2>6, <3>1, <3>2
    <3>3. CASE k > 1
      <4>1. t[k] = s[k - 1] /\ k - 1 \in 1..(Len(s) - 1) /\ (k - 1) + 1 = k
        BY <2>2, <2>5, <2>6, <3>1, <3>3
      <4> QED BY <2>2, <3>1, <4>1
    <3> QED BY <3>1, <3>2, <3>3
  <2>8. t[Len(t)] = s[Len(s)]
    BY <2>2, <2>5, <2>6
  <2>9. IsWay(w, t, x)
    BY <2>2, <2>5, <2>6, <2>7, <2>8 DEF IsWay
  <2> QED BY <2>9
<1>3. SUFFICES ASSUME r \notin A PROVE FALSE
  OBVIOUS
<1> HIDE DEF A
<1>4. Root \in A
  BY <1>1, RootAssumption
<1>5. ClosedIn(w, D)
  <2>1. ASSUME NEW x \in D PROVE w[x].parent \in D \union {None}
    <3>1. w[x] \in Row /\ x \in Resources
      BY <2>1
    <3>2. w[x].parent \in Resources \union {None}
      BY <3>1 DEF Row, Parents
    <3> QED BY <1>2, <2>1, <3>1, <3>2
  <2> QED BY <2>1 DEF ClosedIn
<1>6. Root \notin D /\ D \in SUBSET Resources /\ r \in D
  BY <1>3, <1>4
<1>7. ChainIn(w, r) \subseteq D
  BY <1>5, <1>6, ChainInLeast
<1> QED BY <1>6, <1>7 DEF ReachIn

\* The rows of a way are the chain, each once.
LEMMA WayRange ==
  ASSUME NEW w \in [Resources -> Row], NEW r \in Resources, NEW s, IsWay(w, s, r)
  PROVE  ChainIn(w, r) = {s[k] : k \in 1..Len(s)}
<1>1. /\ s \in Seq(Resources) /\ Len(s) >= 1 /\ s[1] = r /\ Len(s) \in Nat
      /\ \A k \in 1..(Len(s) - 1) : s[k + 1] = w[s[k]].parent
      /\ w[s[Len(s)]].parent = None
      /\ \A k \in 1..Len(s) : s[k] \in Resources
  BY LenProperties DEF IsWay
<1> DEFINE D == {s[k] : k \in 1..Len(s)}
<1>2. ClosedIn(w, D)
  <2>1. ASSUME NEW k \in 1..Len(s) PROVE w[s[k]].parent \in D \union {None}
    <3>1. CASE k = Len(s)
      BY <1>1, <3>1
    <3>2. CASE k # Len(s)
      <4>1. k \in 1..(Len(s) - 1) /\ k + 1 \in 1..Len(s)
        BY <1>1, <3>2
      <4> QED BY <1>1, <4>1
    <3> QED BY <3>1, <3>2
  <2> QED BY <2>1 DEF ClosedIn
<1>3. r \in D /\ D \in SUBSET Resources
  BY <1>1
<1>4. ChainIn(w, r) \subseteq D
  BY <1>2, <1>3, ChainInLeast
<1>5. ASSUME NEW k \in 1..Len(s) PROVE s[k] \in ChainIn(w, r)
  <2> DEFINE T == {i \in 1..Len(s) : s[i] \notin ChainIn(w, r)}
  <2>1. SUFFICES ASSUME T # {} PROVE FALSE
    OBVIOUS
  <2>2. T \subseteq Nat
    OBVIOUS
  <2>3. PICK i \in T : \A j \in T : i <= j
    BY <2>1, <2>2, Smallest
  <2>4. i \in 1..Len(s) /\ s[i] \notin ChainIn(w, r)
    OBVIOUS
  <2>5. i # 1
    BY <1>1, <2>4, ChainInClosed
  <2>6. i - 1 \in 1..(Len(s) - 1) /\ i - 1 \in 1..Len(s) /\ (i - 1) + 1 = i /\ ~(i <= i - 1)
    BY <1>1, <2>4, <2>5
  <2>7. s[i - 1] \in ChainIn(w, r)
    BY <2>3, <2>6
  <2>8. s[i] = w[s[i - 1]].parent /\ s[i] \in Resources
    BY <1>1, <2>4, <2>6
  <2>9. w[s[i - 1]].parent # None
    BY <2>8, RootAssumption
  <2> QED BY <2>4, <2>7, <2>8, <2>9, ChainInClosed
<1> QED BY <1>4, <1>5

LEMMA WayOnce ==
  ASSUME NEW w, NEW r, NEW s, IsWay(w, s, r),
         NEW i \in 1..Len(s), NEW j \in 1..Len(s), i < j
  PROVE  s[i] # s[j]
<1>1. /\ s \in Seq(Resources) /\ Len(s) >= 1 /\ s[1] = r /\ Len(s) \in Nat
      /\ \A k \in 1..(Len(s) - 1) : s[k + 1] = w[s[k]].parent
      /\ w[s[Len(s)]].parent = None
      /\ \A k \in 1..Len(s) : s[k] \in Resources
  BY LenProperties DEF IsWay
<1>2. SUFFICES ASSUME s[i] = s[j] PROVE FALSE
  OBVIOUS
<1> DEFINE m == Len(s) - j
           T == {k \in 0..m : s[i + k] # s[j + k]}
<1>3. i \in Nat /\ j \in Nat /\ m \in Nat /\ i + m < Len(s) /\ i >= 1
  BY <1>1
<1>4. T = {}
  <2>1. SUFFICES ASSUME T # {} PROVE FALSE
    OBVIOUS
  <2>2. T \subseteq Nat
    OBVIOUS
  <2>3. PICK k \in T : \A l \in T : k <= l
    BY <2>1, <2>2, Smallest
  <2>4. k \in 0..m /\ s[i + k] # s[j + k]
    OBVIOUS
  <2>5. k # 0
    BY <1>2, <1>3, <2>4
  <2>6. k - 1 \in 0..m /\ ~(k <= k - 1)
    BY <1>3, <2>4, <2>5
  <2>7. s[i + (k - 1)] = s[j + (k - 1)]
    BY <2>3, <2>6
  <2>8. /\ i + (k - 1) \in 1..(Len(s) - 1) /\ (i + (k - 1)) + 1 = i + k
        /\ j + (k - 1) \in 1..(Len(s) - 1) /\ (j + (k - 1)) + 1 = j + k
    BY <1>1, <1>3, <2>4, <2>5
  <2>9. s[i + k] = w[s[i + (k - 1)]].parent /\ s[j + k] = w[s[j + (k - 1)]].parent
    BY <1>1, <2>8
  <2> QED BY <2>4, <2>7, <2>9
<1>5. s[i + m] = s[j + m] /\ j + m = Len(s)
  <2>1. \A k \in 0..m : s[i + k] = s[j + k]
    BY <1>4
  <2>2. m \in 0..m /\ j + m = Len(s)
    BY <1>1, <1>3
  <2> QED BY <2>1, <2>2
<1>6. /\ i + m \in 1..(Len(s) - 1) /\ (i + m) + 1 \in 1..Len(s)
  BY <1>1, <1>3
<1>7. s[(i + m) + 1] = w[s[Len(s)]].parent /\ s[(i + m) + 1] \in Resources
  BY <1>1, <1>5, <1>6
<1> QED BY <1>1, <1>7, RootAssumption

LEMMA WayCard ==
  ASSUME NEW w \in [Resources -> Row], NEW r \in Resources, NEW s, IsWay(w, s, r)
  PROVE  Cardinality(ChainIn(w, r)) = Len(s)
<1>1. /\ s \in Seq(Resources) /\ Len(s) \in Nat /\ DOMAIN s = 1..Len(s) /\ s \in [1..Len(s) -> Resources]
  BY LenProperties DEF IsWay
<1>2. ChainIn(w, r) = {s[k] : k \in 1..Len(s)}
  BY WayRange
<1>3. ASSUME NEW i \in 1..Len(s), NEW j \in 1..Len(s), s[i] = s[j] PROVE i = j
  <2>1. ~(i < j) /\ ~(j < i)
    BY <1>3, WayOnce
  <2> QED BY <1>1, <2>1
<1>4. s \in [1..Len(s) -> ChainIn(w, r)]
  BY <1>1, <1>2
<1>5. s \in Bijection(1..Len(s), ChainIn(w, r))
  BY <1>2, <1>3, <1>4 DEF Bijection, Injection, Surjection, IsInjective
<1>6. ExistsBijection(1..Len(s), ChainIn(w, r))
  BY <1>5 DEF ExistsBijection
<1>7. IsFiniteSet(1..Len(s)) /\ Cardinality(1..Len(s)) = Len(s)
  <2>1. Len(s) \in Int /\ 1 \in Int /\ Len(s) >= 1
    BY <1>1 DEF IsWay
  <2>2. IsFiniteSet(1..Len(s)) /\ Cardinality(1..Len(s)) = IF 1 > Len(s) THEN 0 ELSE Len(s) - 1 + 1
    BY <2>1, FS_Interval
  <2> QED BY <2>1, <2>2
<1> QED BY <1>6, <1>7, FS_Bijection

LEMMA WayIs ==
  ASSUME NEW w \in [Resources -> Row], NEW r \in Resources, NEW s, IsWay(w, s, r)
  PROVE  WayIn(w, r) = s
<1>1. /\ s \in Seq(Resources) /\ Len(s) \in Nat /\ s \in [1..Len(s) -> Resources] /\ s[1] = r
      /\ \A k \in 1..(Len(s) - 1) : s[k + 1] = w[s[k]].parent
  BY LenProperties DEF IsWay
<1>2. Cardinality(ChainIn(w, r)) = Len(s)
  BY WayCard
<1> DEFINE n == Len(s)
           up == WayIn(w, r)
<1>3. ASSUME NEW k \in 1..n PROVE s[k] = IF k = 1 THEN r ELSE w[s[k - 1]].parent
  <2>1. CASE k # 1
    <3>1. k - 1 \in 1..(n - 1) /\ (k - 1) + 1 = k
      BY <1>1, <2>1
    <3> QED BY <1>1, <2>1, <3>1
  <2> QED BY <1>1, <2>1
<1>4. s = [k \in 1..n |-> IF k = 1 THEN r ELSE w[s[k - 1]].parent]
  BY <1>1, <1>3
<1>5. up = [k \in 1..n |-> IF k = 1 THEN r ELSE w[up[k - 1]].parent]
  <2>1. up = CHOOSE f : f = [k \in 1..n |-> IF k = 1 THEN r ELSE w[f[k - 1]].parent]
    BY <1>2 DEF WayIn
  <2> HIDE DEF up
  <2> QED BY <1>4, <2>1
<1> HIDE DEF up, n
<1>6. up \in [1..n -> {up[k] : k \in 1..n}] /\ \A k \in 1..n : up[k] = IF k = 1 THEN r ELSE w[up[k - 1]].parent
  BY <1>5
<1> DEFINE T == {k \in 1..n : up[k] # s[k]}
<1>7. T = {}
  <2>1. SUFFICES ASSUME T # {} PROVE FALSE
    OBVIOUS
  <2>2. T \subseteq Nat
    OBVIOUS
  <2>3. PICK k \in T : \A l \in T : k <= l
    BY <2>1, <2>2, Smallest
  <2>4. k \in 1..n /\ up[k] # s[k] /\ n \in Nat
    BY <1>1 DEF n
  <2>5. k # 1
    BY <1>1, <1>6, <2>4
  <2>6. k - 1 \in 1..n /\ ~(k <= k - 1)
    BY <2>4, <2>5
  <2>7. up[k - 1] = s[k - 1]
    BY <2>3, <2>6
  <2>8. s[k] = w[s[k - 1]].parent
    BY <1>3, <2>4, <2>5
  <2>9. up[k] = w[up[k - 1]].parent
    BY <1>6, <2>4, <2>5
  <2> QED BY <2>4, <2>7, <2>8, <2>9
<1>8. \A k \in 1..n : up[k] = s[k]
  BY <1>7
<1>9. s \in [1..n -> Resources]
  BY <1>1 DEF n
<1>10. up = s
  <2>1. up = [k \in 1..n |-> up[k]]
    BY <1>6
  <2>2. s = [k \in 1..n |-> s[k]]
    BY <1>9
  <2> QED BY <1>8, <2>1, <2>2
<1> QED BY <1>10 DEF up

LEMMA WayUpwards ==
  ASSUME NEW w \in [Resources -> Row], w[Root].parent = None, NEW r \in Resources, ReachIn(w, r)
  PROVE  IsWay(w, WayIn(w, r), r)
BY WayExists, WayIs

\* A walk from r that has read the rows of p and goes on with n.
Leads(w, p, r, n) ==
  /\ p = <<>> => n = r
  /\ p # <<>> => /\ p[1] = r /\ n = w[p[Len(p)]].parent
                 /\ \A k \in 1..(Len(p) - 1) : p[k + 1] = w[p[k]].parent

LEMMA LeadsOn ==
  ASSUME NEW w \in [Resources -> Row], NEW p \in Seq(Resources), NEW r \in Resources, NEW n \in Resources,
         Leads(w, p, r, n), NEW k \in 1..Len(p)
  PROVE  n \in ChainIn(w, p[k])
<1>1. /\ Len(p) \in Nat /\ p[1] = r /\ n = w[p[Len(p)]].parent
      /\ \A i \in 1..(Len(p) - 1) : p[i + 1] = w[p[i]].parent
      /\ \A i \in 1..Len(p) : p[i] \in Resources
  BY LenProperties DEF Leads
<1>2. n # None
  BY RootAssumption
<1> DEFINE T == {m \in 0..(Len(p) - 1) : n \notin ChainIn(w, p[Len(p) - m])}
<1>3. T = {}
  <2>1. SUFFICES ASSUME T # {} PROVE FALSE
    OBVIOUS
  <2>2. T \subseteq Nat
    OBVIOUS
  <2>3. PICK m \in T : \A l \in T : m <= l
    BY <2>1, <2>2, Smallest
  <2>4. m \in 0..(Len(p) - 1) /\ n \notin ChainIn(w, p[Len(p) - m]) /\ Len(p) - m \in 1..Len(p)
    BY <1>1
  <2>5. PICK x \in Resources : x = p[Len(p) - m]
    BY <1>1, <2>4
  <2>6. CASE m = 0
    <3>1. n = w[x].parent
      BY <1>1, <2>5, <2>6
    <3> QED BY <1>2, <2>4, <2>5, <3>1, ChainInClosed
  <2>7. CASE m # 0
    <3>1. /\ m - 1 \in 0..(Len(p) - 1) /\ ~(m <= m - 1)
          /\ Len(p) - m \in 1..(Len(p) - 1) /\ (Len(p) - m) + 1 = Len(p) - (m - 1)
          /\ Len(p) - (m - 1) \in 1..Len(p)
      BY <1>1, <2>4, <2>7
    <3>2. n \in ChainIn(w, p[Len(p) - (m - 1)])
      BY <2>3, <3>1
    <3>3. p[Len(p) - (m - 1)] = w[x].parent /\ p[Len(p) - (m - 1)] \in Resources
      BY <1>1, <2>5, <3>1
    <3>4. w[x].parent # None
      BY <3>3, RootAssumption
    <3>5. ChainIn(w, x) = {x} \union ChainIn(w, w[x].parent)
      BY <3>4, ChainInStep
    <3> QED BY <2>4, <2>5, <3>2, <3>3, <3>5
  <2> QED BY <2>6, <2>7
<1>4. \A m \in 0..(Len(p) - 1) : n \in ChainIn(w, p[Len(p) - m])
  BY <1>3
<1>5. Len(p) - k \in 0..(Len(p) - 1) /\ Len(p) - (Len(p) - k) = k
  BY <1>1
<1> QED BY <1>4, <1>5

\* What is read and what is above make the chain.
LEMMA LeadsChain ==
  ASSUME NEW w \in [Resources -> Row], NEW p \in Seq(Resources), NEW r \in Resources, NEW n \in Parents,
         Leads(w, p, r, n)
  PROVE  /\ n = None => ChainIn(w, r) = {p[k] : k \in 1..Len(p)}
         /\ n # None => ChainIn(w, r) = {p[k] : k \in 1..Len(p)} \union ChainIn(w, n)
<1>0. n # None => n \in Resources
  BY DEF Parents
<1>1. CASE p = <<>>
  <2>1. n = r /\ n # None /\ Len(p) = 0
    BY <1>1, RootAssumption DEF Leads
  <2> QED BY <2>1
<1>2. CASE p # <<>>
  <2>1. /\ Len(p) \in Nat /\ Len(p) >= 1 /\ p[1] = r /\ n = w[p[Len(p)]].parent
        /\ \A i \in 1..(Len(p) - 1) : p[i + 1] = w[p[i]].parent
        /\ \A i \in 1..Len(p) : p[i] \in Resources
    BY <1>2, LenProperties, EmptySeq DEF Leads
  <2>2. CASE n = None
    <3>1. IsWay(w, p, r)
      BY <2>1, <2>2 DEF IsWay
    <3> QED BY <2>2, <3>1, WayRange
  <2>3. CASE n # None
    <3>1. n \in Resources
      BY <1>0, <2>3
    <3> DEFINE D == {p[k] : k \in 1..Len(p)} \union ChainIn(w, n)
    <3>2. ChainIn(w, n) \in SUBSET Resources /\ n \in ChainIn(w, n)
      BY <3>1, ChainInClosed
    <3>3. ClosedIn(w, D)
      <4>1. ASSUME NEW k \in 1..Len(p) PROVE w[p[k]].parent \in D
        <5>1. CASE k = Len(p)
          BY <2>1, <3>2, <5>1
        <5>2. CASE k # Len(p)
          <6>1. k \in 1..(Len(p) - 1) /\ k + 1 \in 1..Len(p)
            BY <2>1, <5>2
          <6> QED BY <2>1, <6>1
        <5> QED BY <5>1, <5>2
      <4>2. \A x \in ChainIn(w, n) : w[x].parent \in ChainIn(w, n) \union {None}
        BY <3>1, ChainInClosed
      <4> QED BY <4>1, <4>2 DEF ClosedIn
    <3>4. r \in D /\ D \in SUBSET Resources
      BY <2>1, <3>2
    <3>5. ChainIn(w, r) \subseteq D
      BY <3>3, <3>4, ChainInLeast
    <3>6. ASSUME NEW k \in 1..Len(p) PROVE p[k] \in ChainIn(w, r)
      <4> DEFINE T == {i \in 1..Len(p) : p[i] \notin ChainIn(w, r)}
      <4>1. SUFFICES ASSUME T # {} PROVE FALSE
        OBVIOUS
      <4>2. T \subseteq Nat
        OBVIOUS
      <4>3. PICK i \in T : \A j \in T : i <= j
        BY <4>1, <4>2, Smallest
      <4>4. i \in 1..Len(p) /\ p[i] \notin ChainIn(w, r)
        OBVIOUS
      <4>5. i # 1
        BY <2>1, <4>4, ChainInClosed
      <4>6. i - 1 \in 1..(Len(p) - 1) /\ i - 1 \in 1..Len(p) /\ (i - 1) + 1 = i /\ ~(i <= i - 1)
        BY <2>1, <4>4, <4>5
      <4>7. p[i - 1] \in ChainIn(w, r)
        BY <4>3, <4>6
      <4>8. p[i] = w[p[i - 1]].parent /\ p[i] \in Resources
        BY <2>1, <4>4, <4>6
      <4>9. w[p[i - 1]].parent # None
        BY <4>8, RootAssumption
      <4> QED BY <4>4, <4>7, <4>8, <4>9, ChainInClosed
    <3>7. Len(p) \in 1..Len(p)
      BY <2>1
    <3>8. p[Len(p)] \in ChainIn(w, r)
      BY <3>6, <3>7
    <3>9. n \in ChainIn(w, r)
      BY <2>1, <2>3, <3>8, ChainInClosed
    <3>10. ChainIn(w, n) \subseteq ChainIn(w, r)
      BY <3>9, ChainInSub
    <3>11. ChainIn(w, r) = D
      BY <3>5, <3>6, <3>10
    <3> QED BY <2>3, <3>11
  <2> QED BY <2>2, <2>3
<1> QED BY <1>1, <1>2

\* A way goes on where the walk does.
LEMMA LeadsWay ==
  ASSUME NEW w \in [Resources -> Row], NEW p \in Seq(Resources), NEW r \in Resources, NEW n \in Resources,
         Leads(w, p, r, n), NEW s, IsWay(w, s, n)
  PROVE  IsWay(w, p \o s, r)
<1>1. /\ s \in Seq(Resources) /\ Len(s) >= 1 /\ s[1] = n /\ Len(s) \in Nat
      /\ \A k \in 1..(Len(s) - 1) : s[k + 1] = w[s[k]].parent
      /\ w[s[Len(s)]].parent = None
  BY LenProperties DEF IsWay
<1>2. CASE p = <<>>
  <2>1. n = r /\ p \o s = s
    BY <1>1, <1>2, ConcatEmptySeq DEF Leads
  <2> QED BY <2>1
<1>3. CASE p # <<>>
  <2>1. /\ Len(p) \in Nat /\ Len(p) >= 1 /\ p[1] = r /\ n = w[p[Len(p)]].parent
        /\ \A i \in 1..(Len(p) - 1) : p[i + 1] = w[p[i]].parent
    BY <1>3, LenProperties, EmptySeq DEF Leads
  <2>2. PICK t : t = p \o s
    OBVIOUS
  <2>3. /\ t \in Seq(Resources) /\ Len(t) = Len(p) + Len(s)
        /\ \A i \in 1 .. Len(p) + Len(s) : t[i] = IF i <= Len(p) THEN p[i] ELSE s[i - Len(p)]
    BY <1>1, <2>2, ConcatProperties
  <2>4. ASSUME NEW k \in 1..(Len(t) - 1) PROVE t[k + 1] = w[t[k]].parent
    <3>1. k \in 1..(Len(p) + Len(s)) /\ k + 1 \in 1..(Len(p) + Len(s))
      BY <1>1, <2>1, <2>3
    <3>2. CASE k < Len(p)
      <4>1. t[k] = p[k] /\ t[k + 1] = p[k + 1] /\ k \in 1..(Len(p) - 1)
        BY <2>1, <2>3, <3>1, <3>2
      <4> QED BY <2>1, <4>1
    <3>3. CASE k = Len(p)
      <4>1. t[k] = p[k] /\ t[k + 1] = s[1]
        BY <1>1, <2>1, <2>3, <3>1, <3>3
      <4> QED BY <1>1, <2>1, <3>3, <4>1
    <3>4. CASE k > Len(p)
      <4>1. /\ t[k] = s[k - Len(p)] /\ t[k + 1] = s[(k - Len(p)) + 1]
            /\ k - Len(p) \in 1..(Len(s) - 1)
        BY <1>1, <2>1, <2>3, <3>1, <3>4
      <4> QED BY <1>1, <4>1
    <3> QED BY <2>1, <3>2, <3>3, <3>4
  <2>5. t[1] = r /\ t[Len(t)] = s[Len(s)] /\ Len(t) >= 1
    BY <1>1, <2>1, <2>3
  <2>6. IsWay(w, t, r)
    BY <1>1, <2>3, <2>4, <2>5 DEF IsWay
  <2> QED BY <2>2, <2>6
<1> QED BY <1>2, <1>3

RootedIn(w) ==
  /\ w[Root].parent = None
  /\ \A r \in Resources \ {Root} : w[r].parent = None => w[r].state = "absent"

(* -------------------------------- reading -------------------------------- *)

\* What a walk will find, and answer, if nothing changes any more.
Rest(w, n) == IF n = None THEN <<>> ELSE WayIn(w, n)
Ends(w, n) == n = None \/ ReachIn(w, n)
LEMMA LeadsEnds ==
  ASSUME NEW w \in [Resources -> Row], RootedIn(w),
         NEW p \in Seq(Resources), NEW r \in Resources, NEW n \in Parents, Leads(w, p, r, n),
         \A k \in 1..Len(p) : w[p[k]].state = "live"
  PROVE  /\ Ends(w, n) <=> ReachIn(w, r)
         /\ ReachIn(w, r) => WayIn(w, r) = p \o Rest(w, n)
         /\ \A f : f \in Range(p) \/ (n # None /\ f \in ChainIn(w, n)) <=> f \in ChainIn(w, r)
<1>0. /\ n # None => n \in Resources
      /\ Range(p) = {p[k] : k \in 1..Len(p)} /\ \A i \in 1..Len(p) : p[i] \in Resources
  BY LenProperties DEF Parents, Range
<1>1. /\ n = None => ChainIn(w, r) = {p[k] : k \in 1..Len(p)}
      /\ n # None => ChainIn(w, r) = {p[k] : k \in 1..Len(p)} \union ChainIn(w, n)
  BY LeadsChain
<1>2. \A f : f \in Range(p) \/ (n # None /\ f \in ChainIn(w, n)) <=> f \in ChainIn(w, r)
  BY <1>0, <1>1
<1>3. CASE n = None
  <2>1. p # <<>>
    BY <1>3, RootAssumption DEF Leads
  <2>2. /\ Len(p) \in Nat /\ Len(p) >= 1 /\ p[1] = r /\ n = w[p[Len(p)]].parent
        /\ \A i \in 1..(Len(p) - 1) : p[i + 1] = w[p[i]].parent
    BY <2>1, LenProperties, EmptySeq DEF Leads
  <2>3. IsWay(w, p, r)
    BY <1>3, <2>2 DEF IsWay
  <2>4. WayIn(w, r) = p \o Rest(w, n)
    BY <1>3, <2>3, WayIs, ConcatEmptySeq DEF Rest
  <2>5. p[Len(p)] \in Resources /\ w[p[Len(p)]].state = "live"
    BY <1>0, <2>2
  <2>6. p[Len(p)] = Root
    BY <1>3, <2>2, <2>5 DEF RootedIn
  <2>7. Root \in ChainIn(w, r)
    BY <1>1, <1>3, <2>2, <2>6
  <2>8. ReachIn(w, r)
    BY <1>1, <1>3, <2>7 DEF ReachIn
  <2> QED BY <1>2, <1>3, <2>4, <2>8 DEF Ends
<1>4. CASE n # None
  <2>1. n \in Resources /\ ChainIn(w, r) = {p[k] : k \in 1..Len(p)} \union ChainIn(w, n)
    BY <1>0, <1>1, <1>4
  <2>2. ReachIn(w, n) => ReachIn(w, r)
    BY <2>1 DEF ReachIn
  <2>3. ASSUME ReachIn(w, r) PROVE ReachIn(w, n)
    <3>1. Root \in {p[k] : k \in 1..Len(p)} \union ChainIn(w, n)
      BY <2>1, <2>3 DEF ReachIn
    <3>2. ASSUME NEW k \in 1..Len(p), p[k] = Root PROVE Root \in ChainIn(w, n)
      <4>1. n \in ChainIn(w, Root)
        BY <2>1, <3>2, LeadsOn
      <4>2. ChainIn(w, Root) = {Root}
        BY RootAssumption, ChainInStep DEF RootedIn
      <4> QED BY <2>1, <4>1, <4>2, ChainInClosed
    <3>3. Root \in ChainIn(w, n)
      BY <3>1, <3>2
    <3> QED BY <2>1, <2>3, <3>3 DEF ReachIn
  <2>4. ASSUME ReachIn(w, r) PROVE WayIn(w, r) = p \o Rest(w, n)
    <3>1. IsWay(w, WayIn(w, n), n)
      BY <2>1, <2>3, <2>4, WayUpwards DEF RootedIn
    <3>2. IsWay(w, p \o WayIn(w, n), r)
      BY <2>1, <3>1, LeadsWay
    <3> QED BY <1>4, <3>2, WayIs DEF Rest
  <2> QED BY <1>2, <1>4, <2>2, <2>3, <2>4 DEF Ends
<1> QED BY <1>3, <1>4

\* Rows that stay as they are above n leave the way from n as it is.
LEMMA UpwardsKept ==
  ASSUME NEW w \in [Resources -> Row], w[Root].parent = None, NEW v \in [Resources -> Row],
         NEW n \in Resources, \A x \in ChainIn(w, n) : v[x] = w[x]
  PROVE  /\ ChainIn(v, n) = ChainIn(w, n)
         /\ ReachIn(v, n) <=> ReachIn(w, n)
         /\ ReachIn(w, n) => WayIn(v, n) = WayIn(w, n)
<1>1. n \in ChainIn(w, n) /\ ChainIn(w, n) \in SUBSET Resources
  BY ChainInClosed
<1>2. ClosedIn(v, ChainIn(w, n))
  BY <1>1, ChainInClosed DEF ClosedIn
<1>3. ChainIn(v, n) \subseteq ChainIn(w, n)
  BY <1>1, <1>2, ChainInLeast
<1>4. ChainIn(v, n) \in SUBSET Resources /\ n \in ChainIn(v, n)
  BY ChainInClosed
<1>5. ClosedIn(w, ChainIn(v, n))
  BY <1>3, <1>4, ChainInClosed DEF ClosedIn
<1>6. ChainIn(v, n) = ChainIn(w, n)
  BY <1>3, <1>4, <1>5, ChainInLeast
<1>7. ReachIn(v, n) <=> ReachIn(w, n)
  BY <1>6 DEF ReachIn
<1>8. ASSUME ReachIn(w, n) PROVE WayIn(v, n) = WayIn(w, n)
  <2>1. PICK s : s = WayIn(w, n)
    OBVIOUS
  <2>2. IsWay(w, s, n)
    BY <1>8, <2>1, WayUpwards
  <2>3. /\ s \in Seq(Resources) /\ Len(s) >= 1 /\ s[1] = n /\ Len(s) \in Nat
        /\ \A k \in 1..(Len(s) - 1) : s[k + 1] = w[s[k]].parent
        /\ w[s[Len(s)]].parent = None
    BY <2>2, LenProperties DEF IsWay
  <2>4. \A k \in 1..Len(s) : v[s[k]] = w[s[k]]
    BY <2>2, WayRange
  <2>5. Len(s) \in 1..Len(s) /\ \A k \in 1..(Len(s) - 1) : k \in 1..Len(s)
    BY <2>3
  <2>6. IsWay(v, s, n)
    BY <2>3, <2>4, <2>5 DEF IsWay
  <2> QED BY <2>1, <2>6, WayIs
<1> QED BY <1>6, <1>7, <1>8

(* ----------------------------- nearest entry ----------------------------- *)

LEMMA NearestIs ==
  ASSUME NEW e \in [Resources -> Entry], NEW p \in Seq(Resources)
  PROVE  \/ Nearest(e, p) = "unset" /\ \A i \in 1..Len(p) : e[p[i]] = "unset"
         \/ \E i \in 1..Len(p) : /\ e[p[i]] # "unset" /\ Nearest(e, p) = e[p[i]]
                                 /\ \A j \in 1..Len(p) : j < i => e[p[j]] = "unset"
<1>1. DOMAIN p = 1..Len(p) /\ Len(p) \in Nat
  BY LenProperties
<1>2. PICK T : T = {i \in 1..Len(p) : e[p[i]] # "unset"}
  OBVIOUS
<1>3. Nearest(e, p) = IF T = {} THEN "unset" ELSE e[p[Min(T)]]
  BY <1>1, <1>2 DEF Nearest
<1>4. CASE T = {}
  BY <1>2, <1>3, <1>4
<1>5. CASE T # {}
  <2>1. T \subseteq Nat
    BY <1>1, <1>2
  <2>2. \E i \in T : \A j \in T : i <= j
    BY <1>5, <2>1, Smallest
  <2>3. Min(T) \in T /\ \A j \in T : Min(T) <= j
    BY <2>2 DEF Min
  <2>4. PICK i \in T : i = Min(T)
    BY <2>3
  <2>5. i \in 1..Len(p) /\ e[p[i]] # "unset" /\ Nearest(e, p) = e[p[i]]
    BY <1>2, <1>3, <1>5, <2>4
  <2>6. ASSUME NEW j \in 1..Len(p), j < i PROVE e[p[j]] = "unset"
    <3>1. ~(i <= j)
      BY <2>5, <2>6
    <3> QED BY <1>2, <2>3, <2>4, <3>1
  <2> QED BY <2>5, <2>6
<1> QED BY <1>4, <1>5

LEMMA NearestIn ==
  ASSUME NEW e \in [Resources -> Entry], NEW p \in Seq(Resources)
  PROVE  Nearest(e, p) \in Entry
<1>1. \A i \in 1..Len(p) : e[p[i]] \in Entry
  BY LenProperties
<1> QED BY <1>1, NearestIs DEF Entry

LEMMA NearestConcat ==
  ASSUME NEW e \in [Resources -> Entry], NEW p \in Seq(Resources), NEW s \in Seq(Resources)
  PROVE  Nearest(e, p \o s) = IF Nearest(e, p) # "unset" THEN Nearest(e, p) ELSE Nearest(e, s)
<1>1. PICK t : t = p \o s
  OBVIOUS
<1>2. /\ t \in Seq(Resources) /\ Len(t) = Len(p) + Len(s) /\ Len(p) \in Nat /\ Len(s) \in Nat
      /\ \A i \in 1 .. Len(p) + Len(s) : t[i] = IF i <= Len(p) THEN p[i] ELSE s[i - Len(p)]
  BY <1>1, ConcatProperties, LenProperties
<1>3. \A i \in 1..Len(p) : i \in 1..Len(t) /\ t[i] = p[i]
  BY <1>2
<1>4. \A i \in 1..Len(s) : i + Len(p) \in 1..Len(t) /\ t[i + Len(p)] = s[i]
  <2>1. ASSUME NEW i \in 1..Len(s)
        PROVE  i + Len(p) \in 1..Len(t) /\ t[i + Len(p)] = s[i]
    <3>1. PICK j : j = i + Len(p)
      OBVIOUS
    <3>2. j \in 1 .. Len(p) + Len(s) /\ ~(j <= Len(p)) /\ j - Len(p) = i
      BY <1>2, <3>1
    <3> QED BY <1>2, <3>1, <3>2
  <2> QED BY <2>1
<1>5. \A i \in 1..Len(t) : i \in 1..Len(p) \/ (i - Len(p) \in 1..Len(s) /\ t[i] = s[i - Len(p)])
  BY <1>2
<1>6. \/ Nearest(e, t) = "unset" /\ \A i \in 1..Len(t) : e[t[i]] = "unset"
      \/ \E i \in 1..Len(t) : /\ e[t[i]] # "unset" /\ Nearest(e, t) = e[t[i]]
                              /\ \A j \in 1..Len(t) : j < i => e[t[j]] = "unset"
  BY <1>2, NearestIs
<1>7. ASSUME NEW i \in 1..Len(t), e[t[i]] # "unset", Nearest(e, t) = e[t[i]],
             \A j \in 1..Len(t) : j < i => e[t[j]] = "unset"
      PROVE  Nearest(e, t) = IF Nearest(e, p) # "unset" THEN Nearest(e, p) ELSE Nearest(e, s)
  <2>1. CASE Nearest(e, p) # "unset"
    <3>1. PICK k \in 1..Len(p) : /\ e[p[k]] # "unset" /\ Nearest(e, p) = e[p[k]]
                                 /\ \A j \in 1..Len(p) : j < k => e[p[j]] = "unset"
      BY <2>1, NearestIs
    <3>2. ~(k < i)
      BY <1>3, <1>7, <3>1
    <3>3. i \in 1..Len(p)
      BY <1>2, <3>2
    <3>4. ~(i < k)
      BY <1>3, <1>7, <3>1, <3>3
    <3>5. i = k
      BY <1>2, <3>2, <3>4
    <3> QED BY <1>3, <1>7, <2>1, <3>1, <3>5
  <2>2. CASE Nearest(e, p) = "unset"
    <3>1. \A j \in 1..Len(p) : e[p[j]] = "unset"
      BY <2>2, NearestIs
    <3>2. i - Len(p) \in 1..Len(s) /\ t[i] = s[i - Len(p)]
      BY <1>3, <1>5, <1>7, <3>1
    <3>3. Nearest(e, s) # "unset"
      BY <1>7, <3>2, NearestIs
    <3>4. PICK k \in 1..Len(s) : /\ e[s[k]] # "unset" /\ Nearest(e, s) = e[s[k]]
                                 /\ \A j \in 1..Len(s) : j < k => e[s[j]] = "unset"
      BY <3>3, NearestIs
    <3>5. ~(i - Len(p) < k)
      BY <1>7, <3>2, <3>4
    <3>6. k + Len(p) \in 1..Len(t) /\ t[k + Len(p)] = s[k]
      BY <1>4
    <3>7. ~(k + Len(p) < i)
      BY <1>7, <3>4, <3>6
    <3>8. i - Len(p) = k
      BY <1>2, <3>5, <3>7
    <3> QED BY <1>7, <2>2, <3>2, <3>4, <3>8
  <2> QED BY <2>1, <2>2
<1>8. ASSUME Nearest(e, t) = "unset", \A i \in 1..Len(t) : e[t[i]] = "unset"
      PROVE  Nearest(e, p) = "unset" /\ Nearest(e, s) = "unset"
  <2>1. \A i \in 1..Len(p) : e[p[i]] = "unset"
    BY <1>3, <1>8
  <2>2. \A i \in 1..Len(s) : e[s[i]] = "unset"
    BY <1>4, <1>8
  <2>3. Nearest(e, p) = "unset"
    BY <2>1, NearestIs
  <2>4. Nearest(e, s) = "unset"
    BY <2>2, NearestIs
  <2> QED BY <2>3, <2>4
<1> QED BY <1>1, <1>6, <1>7, <1>8

LEMMA NearestSame ==
  ASSUME NEW e \in [Resources -> Entry], NEW d \in [Resources -> Entry], NEW p \in Seq(Resources),
         \A i \in 1..Len(p) : d[p[i]] = e[p[i]]
  PROVE  Nearest(d, p) = Nearest(e, p)
<1>1. DOMAIN p = 1..Len(p)
  BY LenProperties
<1>2. {i \in DOMAIN p : d[p[i]] # "unset"} = {i \in DOMAIN p : e[p[i]] # "unset"}
  BY <1>1
<1>3. PICK T : T = {i \in DOMAIN p : e[p[i]] # "unset"}
  OBVIOUS
<1>4. T # {} => Min(T) \in 1..Len(p)
  <2>1. T \subseteq Nat /\ T \subseteq 1..Len(p)
    BY <1>1, <1>3
  <2>2. T # {} => \E i \in T : \A j \in T : i <= j
    BY <2>1, Smallest
  <2> QED BY <2>1, <2>2 DEF Min
<1> QED BY <1>2, <1>3, <1>4 DEF Nearest

LEMMA NearestShort ==
  ASSUME NEW e \in [Resources -> Entry]
  PROVE  Nearest(e, <<>>) = "unset" /\ \A x \in Resources : Nearest(e, <<x>>) = e[x]
<1>1. <<>> \in Seq(Resources) /\ Len(<<>>) = 0
  BY EmptySeq
<1>2. Nearest(e, <<>>) = "unset"
  <2>1. PICK p : p = <<>>
    OBVIOUS
  <2>2. p \in Seq(Resources) /\ ~(\E i \in 1..Len(p) : TRUE)
    BY <1>1, <2>1
  <2>3. Nearest(e, p) = "unset"
    BY <2>2, NearestIs
  <2> QED BY <2>1, <2>3
<1>3. ASSUME NEW x \in Resources PROVE Nearest(e, <<x>>) = e[x]
  <2>1. <<x>> \in Seq(Resources) /\ Len(<<x>>) = 1 /\ <<x>>[1] = x
    OBVIOUS
  <2>2. PICK p : p = <<x>>
    OBVIOUS
  <2>3. p \in Seq(Resources) /\ 1..Len(p) = {1} /\ p[1] = x
    BY <2>1, <2>2
  <2>4. Nearest(e, p) = e[x]
    BY <2>3, NearestIs
  <2> QED BY <2>2, <2>4
<1> QED BY <1>2, <1>3

(* --------------------------- what a reader knows ------------------------- *)

Coming(w, e, q) ==
  [s \in Sources |->
     IF s # "global" THEN Nearest(e[s], q.path \o Rest(w, q.next))
     ELSE IF q.found["global"] # "unset" THEN q.found["global"] ELSE Nearest(e["global"], Rest(w, q.next))]
Foreseen(w, e, q) == Ends(w, q.next) /\ Allows(Coming(w, e, q))
ShownAhead(w, q, f) ==
  Ends(w, q.next) /\ (f \in Range(q.path) \/ (q.next # None /\ f \in ChainIn(w, q.next)))

\* And what it will answer once the rows are read.
Telling(e, q) == [s \in Sources |-> IF s \in Range(q.todo) THEN Nearest(e[s], q.path) ELSE q.found[s]]

Entitled(q) == q.kind = "filter" => q.hung

\* As long as nothing changed, what has been read is as it is.
RowsFresh(w, e, q) ==
  /\ Leads(w, q.path, q.of, q.next)
  /\ \A k \in 1..Len(q.path) : w[q.path[k]].state = "live"
  /\ q.found["global"] = Nearest(e["global"], q.path)
  /\ q.possible = {AllowedIn(w, e, q.of)}
  /\ \A f \in Shared : q.shown[f] = {ReachIn(w, q.of) /\ f \in ChainIn(w, q.of)}
  /\ q.hung = ReachIn(w, q.of)

RowsSound(w, e, q) ==
  /\ q.changes = 0 => RowsFresh(w, e, q)
  /\ Entitled(q) => /\ Foreseen(w, e, q) \in q.possible
                    /\ \A f \in Shared : ShownAhead(w, q, f) \in q.shown[f]
  /\ q.kind = "filter" /\ q.hung => Ends(w, q.next)
  /\ q.next # None => \A k \in 1..Len(q.path) : q.path[k] \notin ChainIn(w, q.next)
  /\ q.kind = "list" => q.path = <<>> /\ q.next = q.of
  /\ q.path = <<>> => q.next = q.of /\ q.found["global"] = "unset"
  /\ Len(q.todo) = 2 /\ ~q.looped

EntriesSound(w, e, q) ==
  /\ ~q.looped
  /\ Entitled(q) => /\ Allows(Telling(e, q)) \in q.possible
                    /\ q.kind # "list" => \A f \in Shared : (f \in Range(q.path)) \in q.shown[f]
  /\ q.changes = 0 /\ Entitled(q) =>
       /\ ReachIn(w, q.of) /\ q.path = WayIn(w, q.of)
       /\ q.possible = {AllowedIn(w, e, q.of)}
       /\ \A s \in Sources : s \notin Range(q.todo) => q.found[s] = Nearest(e[s], q.path)

Todos == {<<"user", "group">>, <<"group", "user">>, <<"user">>, <<"group">>}

Query ==
  [phase : {"rows", "entries"}, kind : {"check", "filter", "list"}, of : Watched, next : Parents,
   path : Seq(Resources), looped : BOOLEAN, found : [Sources -> Entry], todo : Todos,
   possible : SUBSET BOOLEAN, shown : [Shared -> SUBSET BOOLEAN], changes : {0, 1, 2},
   hung : BOOLEAN, knotted : BOOLEAN]

Entries == [Sources -> [Resources -> Entry]]

NoCircle(w) == \A C \in SUBSET Resources : (\A r \in C : w[r].parent \in C) => C = {}

LEMMA QueryFields ==
  ASSUME NEW q \in Query
  PROVE  /\ q.of \in Resources /\ q.next \in Parents /\ (q.next # None => q.next \in Resources)
         /\ q.path \in Seq(Resources) /\ q.found \in [Sources -> Entry] /\ q.todo \in Todos
         /\ q.changes \in {0, 1, 2} /\ q.hung \in BOOLEAN /\ q.knotted \in BOOLEAN /\ q.looped \in BOOLEAN
         /\ q.kind \in {"check", "filter", "list"} /\ q.phase \in {"rows", "entries"}
         /\ q.possible \in SUBSET BOOLEAN /\ q.shown \in [Shared -> SUBSET BOOLEAN]
BY AccessAssumption DEF Query, Parents

\* What is left of a walk that comes to the root.
LEMMA RestFields ==
  ASSUME NEW w \in [Resources -> Row], w[Root].parent = None, NEW n \in Parents, Ends(w, n)
  PROVE  /\ Rest(w, n) \in Seq(Resources)
         /\ \A k \in 1..Len(Rest(w, n)) : n # None /\ Rest(w, n)[k] \in ChainIn(w, n)
<1>1. CASE n = None
  BY <1>1, EmptySeq DEF Rest
<1>2. CASE n # None
  <2>1. n \in Resources /\ ReachIn(w, n) /\ Rest(w, n) = WayIn(w, n)
    BY <1>2 DEF Parents, Ends, Rest
  <2>2. IsWay(w, WayIn(w, n), n)
    BY <2>1, WayUpwards
  <2>3. ChainIn(w, n) = {WayIn(w, n)[k] : k \in 1..Len(WayIn(w, n))}
    BY <2>1, <2>2, WayRange
  <2> QED BY <1>2, <2>1, <2>2, <2>3 DEF IsWay
<1> QED BY <1>1, <1>2

\* A walk whose rows are as it read them will find what is right now.
LEMMA FreshForeseen ==
  ASSUME NEW w \in [Resources -> Row], RootedIn(w), NEW e \in Entries, NEW q \in Query,
         Leads(w, q.path, q.of, q.next), \A k \in 1..Len(q.path) : w[q.path[k]].state = "live",
         q.found["global"] = Nearest(e["global"], q.path)
  PROVE  /\ Foreseen(w, e, q) <=> AllowedIn(w, e, q.of)
         /\ \A f : ShownAhead(w, q, f) <=> ReachIn(w, q.of) /\ f \in ChainIn(w, q.of)
<1>1. q.of \in Resources /\ q.next \in Parents /\ q.path \in Seq(Resources)
  BY QueryFields
<1>2. /\ Ends(w, q.next) <=> ReachIn(w, q.of)
      /\ ReachIn(w, q.of) => WayIn(w, q.of) = q.path \o Rest(w, q.next)
      /\ \A f : f \in Range(q.path) \/ (q.next # None /\ f \in ChainIn(w, q.next)) <=> f \in ChainIn(w, q.of)
  BY <1>1, LeadsEnds
<1>3. ASSUME ReachIn(w, q.of) PROVE Coming(w, e, q) = Levels(w, e, q.of)
  <2>1. Rest(w, q.next) \in Seq(Resources)
    BY <1>1, <1>2, <1>3, RestFields DEF RootedIn
  <2>2. e["global"] \in [Resources -> Entry]
    BY DEF Entries, Sources
  <2>3. Nearest(e["global"], q.path \o Rest(w, q.next)) =
          IF Nearest(e["global"], q.path) # "unset" THEN Nearest(e["global"], q.path)
          ELSE Nearest(e["global"], Rest(w, q.next))
    BY <1>1, <2>1, <2>2, NearestConcat
  <2> QED BY <1>2, <1>3, <2>3 DEF Coming, Levels
<1>4. Foreseen(w, e, q) <=> AllowedIn(w, e, q.of)
  BY <1>2, <1>3 DEF Foreseen, AllowedIn
<1> QED BY <1>2, <1>4 DEF ShownAhead

\* Rows that stay as they are leave what a walk will find as it is.
LEMMA KeptForeseen ==
  ASSUME NEW w \in [Resources -> Row], w[Root].parent = None, NEW v \in [Resources -> Row],
         NEW e \in Entries, NEW q \in Query, NEW r, r.next = q.next, r.path = q.path, r.found = q.found,
         q.next # None => \A x \in ChainIn(w, q.next) : v[x] = w[x]
  PROVE  /\ Foreseen(v, e, r) <=> Foreseen(w, e, q)
         /\ \A f : ShownAhead(v, r, f) <=> ShownAhead(w, q, f)
         /\ Ends(v, q.next) <=> Ends(w, q.next)
         /\ q.next # None => ChainIn(v, q.next) = ChainIn(w, q.next)
<1>1. q.next # None => q.next \in Resources
  BY QueryFields
<1>2. q.next # None =>
        /\ ChainIn(v, q.next) = ChainIn(w, q.next)
        /\ ReachIn(v, q.next) <=> ReachIn(w, q.next)
        /\ ReachIn(w, q.next) => WayIn(v, q.next) = WayIn(w, q.next)
  BY <1>1, UpwardsKept
<1>3. Ends(v, q.next) <=> Ends(w, q.next)
  BY <1>2 DEF Ends
<1>4. Ends(w, q.next) => Rest(v, q.next) = Rest(w, q.next)
  BY <1>2 DEF Ends, Rest
<1>5. Ends(w, q.next) => Coming(v, e, r) = Coming(w, e, q)
  BY <1>4 DEF Coming
<1>6. Foreseen(v, e, r) <=> Foreseen(w, e, q)
  BY <1>3, <1>5 DEF Foreseen
<1>7. \A f : ShownAhead(v, r, f) <=> ShownAhead(w, q, f)
  BY <1>2, <1>3 DEF ShownAhead
<1> QED BY <1>2, <1>3, <1>6, <1>7

\* A walk does not come back where nothing hangs off itself.
LEMMA LeadsApart ==
  ASSUME NEW w \in [Resources -> Row], NoCircle(w),
         NEW p \in Seq(Resources), NEW r \in Resources, NEW n \in Resources, Leads(w, p, r, n),
         NEW k \in 1..Len(p)
  PROVE  p[k] \notin ChainIn(w, n)
<1>1. /\ Len(p) \in Nat /\ Len(p) >= 1 /\ p[1] = r /\ n = w[p[Len(p)]].parent /\ n # None
      /\ \A i \in 1..(Len(p) - 1) : p[i + 1] = w[p[i]].parent
      /\ \A i \in 1..Len(p) : p[i] \in Resources
  BY LenProperties, RootAssumption DEF Leads
<1>2. w[p[k]].parent # None /\ n \in ChainIn(w, w[p[k]].parent)
  <2>1. CASE k = Len(p)
    BY <1>1, <2>1, ChainInClosed
  <2>2. CASE k # Len(p)
    <3>1. k \in 1..(Len(p) - 1) /\ k + 1 \in 1..Len(p)
      BY <1>1, <2>2
    <3>2. p[k + 1] = w[p[k]].parent /\ p[k + 1] \in Resources
      BY <1>1, <3>1
    <3>3. n \in ChainIn(w, p[k + 1])
      BY <3>1, LeadsOn
    <3> QED BY <3>2, <3>3, RootAssumption
  <2> QED BY <2>1, <2>2
<1> QED BY <1>1, <1>2, ChainInOnce DEF NoCircle

(* ------------------------- what a commit changes ------------------------- *)

\* Every row but the root that is there hangs off another, and a batch move
\* that no commit has disturbed moves rows none of which is above another.
Rooted == \A r \in Resources \ {Root} : row[r].parent = None => row[r].state = "absent"

BatchFlat(h) ==
  req[h].op = "batch" /\ ~req[h].moved => \A r \in req[h].rows : Chain(r) \intersect req[h].rows = {r}

Grown == IInv /\ NameInv /\ Rooted /\ \A h \in Handlers : BatchFlat(h)

\* No way goes over two of the rows that v has otherwise.
Flat(w, v) ==
  \E R \in SUBSET Resources :
    /\ \A x \in Resources \ R : v[x] = w[x]
    /\ \A x \in R : ChainIn(w, x) \intersect R = {x}

\* What a step does to the rows: nothing, or a commit changes them.
Still == row' = row /\ loose' = loose /\ commits' = commits
Committed ==
  /\ row' \in [Resources -> Row] /\ commits' # commits
  /\ loose'.moved = {} => Flat(row, row')

LEMMA FlatKept ==
  ASSUME TypeOK, TreeShaped, row' \in [Resources -> Row], NEW k \in Handlers, RequestSound(k), BatchFlat(k),
         GoesOn(k), NEW N, Arrive(N), req'[k].op = "batch" => Stay(N) \/ req'[k].moved
  PROVE  BatchFlat(k)'
<1> SUFFICES ASSUME req'[k].op = "batch", ~req'[k].moved, NEW r \in req'[k].rows
             PROVE  Chain(r)' \intersect req'[k].rows = {r}
  BY DEF BatchFlat
<1>1. req'[k] # Idle
  BY DEF Idle
<1>2. /\ req[k] # Idle /\ req'[k].op = req[k].op /\ req'[k].rows = req[k].rows
      /\ req[k].op = "batch" /\ ~req[k].moved /\ Stay(N)
  BY <1>1 DEF GoesOn
<1>3. req[k].rows \in SUBSET Resources /\ r \in Resources
  BY <1>2, Fields
<1>4. row[r].state # "absent"
  BY <1>2 DEF RequestSound
<1>5. r \in Resources \ N
  BY <1>3, <1>4 DEF Arrive
<1>6. Chain(r) \intersect req[k].rows = {r}
  BY <1>2 DEF BatchFlat
<1>7. Chain(r)' = ChainIn(row', r)
  BY AsInNext
<1>8. r \in ChainIn(row', r) /\ ChainIn(row', r) \subseteq Resources
  BY <1>3, ChainInClosed
<1>9. ASSUME NEW x \in ChainIn(row', r) PROVE x \in Chain(r)
  <2>1. x \in Resources
    BY <1>8, <1>9
  <2>2. ASSUME NEW D \in SUBSET Resources, r \in D /\ (\A s \in D : row'[s].parent \in D \union {None})
        PROVE  x \in D
    <3>1. ClosedIn(row', D)
      BY <2>2 DEF ClosedIn
    <3> QED BY <1>3, <1>9, <2>2, <3>1, ChainInLeast
  <2> QED BY <1>2, <1>5, <2>1, <2>2, ChainKept
<1> QED BY <1>2, <1>6, <1>7, <1>8, <1>9

LEMMA RootedKept ==
  ASSUME Rooted, NEW N, Arrive(N), \A r \in N : row'[r].parent # None,
         \A r \in Resources : row'[r].parent = row[r].parent \/ row'[r].parent # None
  PROVE  Rooted'
BY DEF Rooted, Arrive

\* A commit of rows of which none is above another.
LEMMA OneFlat ==
  ASSUME TypeOK, NEW w \in [Resources -> Row], NEW v, NEW r \in Resources, \A x \in Resources \ {r} : v[x] = w[x]
  PROVE  Flat(w, v)
<1>1. ChainIn(w, r) \intersect {r} = {r}
  BY ChainInClosed
<1>2. {r} \in SUBSET Resources /\ \A x \in {r} : ChainIn(w, x) \intersect {r} = {x}
  BY <1>1
<1> QED BY <1>2 DEF Flat

LEMMA GrownFields ==
  ASSUME Grown
  PROVE  /\ IInv /\ NameInv /\ Rooted /\ TypeOK /\ TreeShaped /\ Apart /\ Acyclic /\ row \in [Resources -> Row]
         /\ \A h \in Handlers : RequestSound(h) /\ OneRow(h) /\ BatchFlat(h)
BY DEF Grown, IInv, NameInv, NameSound, TypeOK

\* The rows of a commit of others stay where they are or the batches learn of it.
LEMMA CommitGrown ==
  ASSUME Grown, IInv', NameInv', NEW h \in Handlers, NEW rows, NEW moves, Commit(h, rows, moves),
         NEW N, Arrive(N), \A r \in N : row'[r].parent # None, moves \/ Stay(N),
         \A r \in Resources : row'[r].parent = row[r].parent \/ row'[r].parent # None
  PROVE  Grown'
<1>1. /\ IInv /\ TypeOK /\ TreeShaped /\ Apart /\ row' \in [Resources -> Row]
      /\ \A k \in Handlers : RequestSound(k) /\ BatchFlat(k)
  BY GrownFields DEF Arrive
<1>2. /\ \A k \in Handlers : GoesOn(k)
      /\ \A k \in Handlers : req'[k] # Idle /\ moves /\ ~Together(h, k) => req'[k].moved
      /\ req'[h] = Idle
  BY <1>1, CommitGoesOn
<1>3. ASSUME NEW k \in Handlers PROVE BatchFlat(k)'
  <2>1. req'[k].op = "batch" => Stay(N) \/ req'[k].moved
    <3>1. SUFFICES ASSUME req'[k].op = "batch", moves PROVE req'[k].moved
      OBVIOUS
    <3>2. req'[k] # Idle
      BY <3>1 DEF Idle
    <3>3. k # h
      BY <1>2, <3>2
    <3>4. ~Together(h, k)
      BY <1>1, <3>3 DEF Apart, Together
    <3> QED BY <1>2, <3>1, <3>2, <3>4
  <2> QED BY <1>1, <1>2, <2>1, FlatKept
<1>4. Rooted'
  BY GrownFields, RootedKept
<1> QED BY <1>3, <1>4 DEF Grown

LEMMA CommitCounts ==
  ASSUME TypeOK, NEW h, NEW rows, NEW moves, Commit(h, rows, moves)
  PROVE  commits' # commits
BY DEF Commit, TypeOK

\* A step after which no row has changed and no request but those that begin
\* or end has.
LEMMA StillGrown ==
  ASSUME Grown, IInv', NameInv', Still, \A k \in Handlers : BatchFlat(k)' \/ GoesOn(k)
  PROVE  Grown'
<1>1. /\ IInv /\ TypeOK /\ TreeShaped /\ row \in [Resources -> Row] /\ row' = row
      /\ \A k \in Handlers : RequestSound(k) /\ BatchFlat(k)
  BY GrownFields DEF Still
<1>2. Arrive({}) /\ Stay({})
  BY <1>1 DEF Arrive, Stay
<1>3. Rooted'
  BY <1>1, GrownFields DEF Rooted
<1>4. ASSUME NEW k \in Handlers PROVE BatchFlat(k)'
  BY <1>1, <1>2, FlatKept
<1> QED BY <1>3, <1>4 DEF Grown

LEMMA CreateGrown ==
  ASSUME Grown, IInv', NameInv', NEW h \in Handlers, Create(h)
  PROVE  Grown' /\ Committed
<1>1. /\ TypeOK /\ RequestSound(h) /\ OneRow(h) /\ req[h].op = "create" /\ Commit(h, req[h].rows, FALSE)
      /\ row \in [Resources -> Row] /\ row' \in [Resources -> Row]
  BY GrownFields DEF Create, IInv, TypeOK
<1>2. PICK r \in Resources : req[h].rows = {r}
  BY <1>1 DEF OneRow
<1>3. req[h].parent \in Resources /\ row[r].state = "absent"
  BY <1>1, <1>2 DEF RequestSound
<1>4. row' = [x \in Resources |-> IF x \in req[h].rows
       THEN [state |-> "live", parent |-> req[h].parent, name |-> req[h].name] ELSE row[x]]
  BY DEF Create
<1>5. row'[r].state = "live" /\ row'[r].parent = req[h].parent /\ \A x \in Resources \ {r} : row'[x] = row[x]
  BY <1>2, <1>4
<1>6. Arrive({r}) /\ Stay({r})
  BY <1>1, <1>3, <1>5 DEF Arrive, Stay
<1>7. row'[r].parent # None
  BY <1>3, <1>5, RootAssumption
<1>8. \A x \in Resources : row'[x].parent = row[x].parent \/ row'[x].parent # None
  BY <1>5, <1>7
<1>9. Grown'
  BY <1>1, <1>6, <1>7, <1>8, CommitGrown
<1>10. Flat(row, row')
  BY <1>1, <1>5, OneFlat
<1> QED BY <1>1, <1>9, <1>10, CommitCounts DEF Committed

LEMMA RenameGrown ==
  ASSUME Grown, IInv', NameInv', NEW h \in Handlers, Rename(h)
  PROVE  Grown' /\ Committed
<1>1. /\ TypeOK /\ OneRow(h) /\ req[h].op = "rename" /\ Commit(h, req[h].rows, FALSE)
      /\ row \in [Resources -> Row] /\ row' \in [Resources -> Row]
  BY GrownFields DEF Rename, IInv, TypeOK
<1>2. PICK r \in Resources : req[h].rows = {r}
  BY <1>1 DEF OneRow
<1>3. row' = [x \in Resources |-> IF x \in req[h].rows THEN [row[x] EXCEPT !.name = req[h].name] ELSE row[x]]
  BY DEF Rename
<1>4. row'[r] = [row[r] EXCEPT !.name = req[h].name] /\ \A x \in Resources \ {r} : row'[x] = row[x]
  BY <1>2, <1>3
<1>5. row'[r].state = row[r].state /\ row'[r].parent = row[r].parent
  BY <1>1, <1>4, Fields DEF Row
<1>6. Arrive({}) /\ Stay({}) /\ \A x \in Resources : row'[x].parent = row[x].parent
  BY <1>1, <1>4, <1>5 DEF Arrive, Stay
<1>7. Grown'
  BY <1>1, <1>6, CommitGrown
<1>8. Flat(row, row')
  BY <1>1, <1>4, OneFlat
<1> QED BY <1>1, <1>7, <1>8, CommitCounts DEF Committed

LEMMA MoveGrown ==
  ASSUME Grown, IInv', NameInv', NEW h \in Handlers, Move(h)
  PROVE  Grown' /\ Committed
<1>1. /\ TypeOK /\ RequestSound(h) /\ OneRow(h) /\ req[h].op = "move" /\ Commit(h, req[h].rows, TRUE)
      /\ row \in [Resources -> Row] /\ row' \in [Resources -> Row]
  BY GrownFields DEF Move, IInv, TypeOK
<1>2. PICK r \in Resources : req[h].rows = {r}
  BY <1>1 DEF OneRow
<1>3. req[h].parent # None
  BY <1>1, RootAssumption DEF RequestSound
<1>4. row' = [x \in Resources |-> IF x \in req[h].rows
        THEN [row[x] EXCEPT !.parent = req[h].parent, !.name = req[h].name] ELSE row[x]]
  BY DEF Move
<1>5. /\ row'[r] = [row[r] EXCEPT !.parent = req[h].parent, !.name = req[h].name]
      /\ \A x \in Resources \ {r} : row'[x] = row[x]
  BY <1>2, <1>4
<1>6. row'[r].state = row[r].state /\ row'[r].parent # None
  BY <1>1, <1>3, <1>5, Fields DEF Row
<1>7. Arrive({}) /\ \A x \in Resources : row'[x].parent = row[x].parent \/ row'[x].parent # None
  BY <1>1, <1>5, <1>6 DEF Arrive
<1>8. Grown'
  BY <1>1, <1>7, CommitGrown
<1>9. Flat(row, row')
  BY <1>1, <1>5, OneFlat
<1> QED BY <1>1, <1>8, <1>9, CommitCounts DEF Committed

\* A batch move that another move disturbed leaves its rows unchecked.
LEMMA BatchGrown ==
  ASSUME Grown, IInv', NameInv', NEW h \in Handlers, BatchMove(h)
  PROVE  Grown' /\ Committed
<1>1. /\ TypeOK /\ RequestSound(h) /\ BatchFlat(h) /\ req[h].op = "batch" /\ Commit(h, req[h].rows, TRUE)
      /\ row \in [Resources -> Row] /\ row' \in [Resources -> Row]
  BY GrownFields DEF BatchMove, IInv, TypeOK
<1>2. req[h].rows \in SUBSET Resources /\ req[h] \in Request /\ req[h].moved \in BOOLEAN
  BY <1>1, Fields DEF Request
<1>3. req[h].parent # None
  BY <1>1, RootAssumption DEF RequestSound
<1>4. row' = [x \in Resources |-> IF x \in req[h].rows THEN [row[x] EXCEPT !.parent = req[h].parent] ELSE row[x]]
  BY DEF BatchMove
<1>5. \A x \in Resources \ req[h].rows : row'[x] = row[x]
  BY <1>2, <1>4
<1>6. ASSUME NEW x \in req[h].rows PROVE row'[x].state = row[x].state /\ row'[x].parent # None
  <2>1. x \in Resources /\ row'[x] = [row[x] EXCEPT !.parent = req[h].parent]
    BY <1>2, <1>4
  <2> QED BY <1>1, <1>3, <2>1, Fields DEF Row
<1>7. Arrive({}) /\ \A x \in Resources : row'[x].parent = row[x].parent \/ row'[x].parent # None
  BY <1>1, <1>5, <1>6 DEF Arrive
<1>8. Grown'
  BY <1>1, <1>7, CommitGrown
<1>9. ASSUME loose'.moved = {} PROVE Flat(row, row')
  <2>1. loose'.moved = With(loose.moved, req[h].rows, req[h].moved)
    BY DEF BatchMove
  <2>2. CASE req[h].moved
    <3>1. req[h].rows = {}
      BY <1>9, <2>1, <2>2 DEF With
    <3> QED BY <1>2, <1>5, <3>1 DEF Flat
  <2>3. CASE ~req[h].moved
    <3>1. \A x \in req[h].rows : ChainIn(row, x) \intersect req[h].rows = {x}
      BY <1>1, <2>3, AsIn DEF BatchFlat
    <3> QED BY <1>2, <1>5, <3>1 DEF Flat
  <2> QED BY <1>2, <2>2, <2>3
<1> QED BY <1>1, <1>8, <1>9, CommitCounts DEF Committed

LEMMA TrashGrown ==
  ASSUME Grown, IInv', NameInv', NEW r \in Resources, Trash(r)
  PROVE  Grown' /\ Committed
<1>1. /\ TypeOK /\ IInv /\ row \in [Resources -> Row] /\ row' \in [Resources -> Row] /\ row[r].state = "live"
      /\ \A k \in Handlers : RequestSound(k) /\ BatchFlat(k)
      /\ TreeShaped /\ req' = req /\ commits' # commits /\ row' = [row EXCEPT ![r].state = "trashed"]
  BY GrownFields DEF Trash, IInv, TypeOK, Live
<1>2. row'[r] = [row[r] EXCEPT !.state = "trashed"] /\ \A x \in Resources \ {r} : row'[x] = row[x]
  BY <1>1
<1>3. row'[r].state = "trashed" /\ row'[r].parent = row[r].parent
  BY <1>1, <1>2, Fields DEF Row
<1>4. Arrive({}) /\ Stay({}) /\ \A x \in Resources : row'[x].parent = row[x].parent
  BY <1>1, <1>2, <1>3 DEF Arrive, Stay
<1>5. \A k \in Handlers : GoesOn(k)
  BY <1>1 DEF GoesOn
<1>6. \A k \in Handlers : BatchFlat(k)'
  BY <1>1, <1>4, <1>5, FlatKept
<1>7. Rooted'
  BY <1>4, GrownFields, RootedKept
<1>8. Flat(row, row')
  BY <1>1, <1>2, OneFlat
<1> QED BY <1>1, <1>6, <1>7, <1>8 DEF Committed, Grown

LEMMA ReparentGrown ==
  ASSUME Grown, IInv', NameInv', NEW h \in Handlers, Reparent(h)
  PROVE  Grown' /\ Committed
<1>1. /\ TypeOK /\ IInv /\ TreeShaped /\ Apart /\ OneRow(h) /\ req[h].op = "reparent"
      /\ row \in [Resources -> Row] /\ row' \in [Resources -> Row]
      /\ \A k \in Handlers : RequestSound(k) /\ BatchFlat(k)
      /\ req \in [Handlers -> Request \union {Idle}]
      /\ commits' # commits
  BY GrownFields DEF Reparent, IInv, TypeOK
<1>2. PICK r \in Resources : req[h].rows = {r}
  BY <1>1 DEF OneRow
<1>3. row' = [x \in Resources |-> IF x \in req[h].rows THEN [row[x] EXCEPT !.parent = Root] ELSE row[x]]
  BY DEF Reparent
<1>4. row'[r] = [row[r] EXCEPT !.parent = Root] /\ \A x \in Resources \ {r} : row'[x] = row[x]
  BY <1>2, <1>3
<1>5. row'[r].state = row[r].state /\ row'[r].parent # None
  BY <1>1, <1>4, Fields, RootAssumption DEF Row
<1>6. Arrive({}) /\ \A x \in Resources : row'[x].parent = row[x].parent \/ row'[x].parent # None
  BY <1>1, <1>4, <1>5 DEF Arrive
<1>7. Rooted'
  BY <1>6, GrownFields, RootedKept
<1>8. ASSUME NEW k \in Handlers PROVE BatchFlat(k)'
  <2> DEFINE moves == TRUE
             D == Disturbed(h, req[h].rows, moves)
  <2>1. req' = [D EXCEPT ![h].op = "check"]
    BY DEF Reparent
  <2>2. /\ D \in [Handlers -> Request \union {Idle}] /\ D[h] = req[h]
        /\ req[k] = Idle => D[k] = Idle
        /\ k # h /\ req[k] # Idle =>
             LET q == D[k]
             IN /\ q \in Request /\ q # Idle
                /\ q.op = req[k].op /\ q.rows = req[k].rows /\ q.parent = req[k].parent
                /\ q.moved <=> req[k].moved \/ (moves /\ ~Together(h, k))
    <3> HIDE DEF moves
    <3> QED BY <1>1, DisturbedFields
  <2>3. k # h => req'[k] = D[k]
    BY <2>1, <2>2
  <2> HIDE DEF D, moves
  <2>4. CASE k = h
    <3>1. req[h] \in Request
      BY <1>1, Fields
    <3>2. req'[h] = [req[h] EXCEPT !.op = "check"]
      BY <2>1, <2>2
    <3>3. req'[h].op = "check"
      BY <3>1, <3>2 DEF Request
    <3> QED BY <2>4, <3>3 DEF BatchFlat
  <2>5. CASE k # h /\ req[k] = Idle
    BY <2>2, <2>3, <2>5 DEF BatchFlat, Idle
  <2>6. CASE k # h /\ req[k] # Idle
    <3>1. ~Together(h, k)
      BY <1>1 DEF Together
    <3>2. req'[k].moved
      BY <2>2, <2>3, <2>6, <3>1 DEF moves
    <3> QED BY <3>2 DEF BatchFlat
  <2> QED BY <2>4, <2>5, <2>6
<1>9. Flat(row, row')
  BY <1>1, <1>4, OneFlat
<1> QED BY <1>1, <1>7, <1>8, <1>9 DEF Committed, Grown

LEMMA RestoreGrown ==
  ASSUME Grown, IInv', NameInv', NEW h \in Handlers, Restore(h)
  PROVE  Grown' /\ (Still \/ Committed)
<1>1. TypeOK /\ req[h].op = "restore" /\ row \in [Resources -> Row] /\ row' \in [Resources -> Row]
  BY GrownFields DEF Restore, IInv, TypeOK
<1>2. req[h].rows \in SUBSET Resources
  BY <1>1, Fields
<1>3. PICK r \in req[h].rows :
       IF row[r].state = "trashed"
       THEN /\ row' = [row EXCEPT ![r].state = "live"]
            /\ loose' = [loose EXCEPT !.named =
                 With(@, {r}, req[h].named \/ row[r].parent # req[h].parent)]
            /\ Commit(h, {r}, FALSE)
       ELSE /\ req' = [req EXCEPT ![h] = Idle]
            /\ UNCHANGED <<row, loose, commits>>
  BY DEF Restore
<1>4. CASE row[r].state = "trashed"
  <2>1. r \in Resources /\ row' = [row EXCEPT ![r].state = "live"] /\ Commit(h, {r}, FALSE)
    BY <1>2, <1>3, <1>4
  <2>2. row'[r] = [row[r] EXCEPT !.state = "live"] /\ \A x \in Resources \ {r} : row'[x] = row[x]
    BY <1>1, <2>1
  <2>3. row'[r].state = "live" /\ row'[r].parent = row[r].parent
    BY <1>1, <2>1, <2>2, Fields DEF Row
  <2>4. Arrive({}) /\ Stay({}) /\ \A x \in Resources : row'[x].parent = row[x].parent
    BY <1>1, <1>4, <2>2, <2>3 DEF Arrive, Stay
  <2>5. Grown'
    BY <2>1, <2>4, CommitGrown
  <2>6. Flat(row, row')
    BY <1>1, <2>1, <2>2, OneFlat
  <2> QED BY <1>1, <2>1, <2>5, <2>6, CommitCounts DEF Committed
<1>5. CASE row[r].state # "trashed"
  <2>1. Still /\ \A k \in Handlers : GoesOn(k)
    BY <1>1, <1>3, <1>5 DEF Still, GoesOn, TypeOK
  <2> QED BY <2>1, StillGrown
<1> QED BY <1>4, <1>5

LEMMA EndGrown ==
  ASSUME Grown, IInv', NameInv', NEW h \in Handlers, CheckRestore(h) \/ Abort(h)
  PROVE  Grown' /\ Still
<1>1. TypeOK
  BY GrownFields
<1>2. CASE Abort(h)
  <2>1. Still /\ \A k \in Handlers : GoesOn(k)
    BY <1>1, <1>2 DEF Abort, Still, GoesOn, TypeOK
  <2> QED BY <2>1, StillGrown
<1>3. CASE CheckRestore(h)
  <2>1. Still /\ req[h].op = "check" /\ req[h] \in Request
    BY <1>1, <1>3, Fields DEF CheckRestore, Still
  <2>2. PICK r \in req[h].rows :
          req' = [req EXCEPT ![h] =
            IF Taken(row[r].parent, req[h].name, {r}) THEN Idle
            ELSE [req[h] EXCEPT !.op = "restore", !.parent = row[r].parent,
                                !.named = row[r].name # req[h].name]]
    BY <1>3 DEF CheckRestore
  <2>3. \A k \in Handlers \ {h} : GoesOn(k)
    BY <1>1, <2>2 DEF GoesOn, TypeOK
  <2>4. PICK q : q = [req[h] EXCEPT !.op = "restore", !.parent = row[r].parent,
                                    !.named = row[r].name # req[h].name]
    OBVIOUS
  <2>5. q.op = "restore"
    BY <2>1, <2>4 DEF Request
  <2>6. req'[h] = Idle \/ req'[h] = q
    BY <1>1, <2>2, <2>4 DEF TypeOK
  <2>7. BatchFlat(h)'
    BY <2>5, <2>6 DEF BatchFlat, Idle
  <2> QED BY <2>1, <2>3, <2>7, StillGrown
<1> QED BY <1>2, <1>3

LEMMA BeginGrown ==
  ASSUME Grown, IInv', NameInv', NEW h \in Handlers, BeginStep(h)
  PROVE  Grown' /\ Still
<1>1. TypeOK
  BY GrownFields
<1>2. PICK op, rows, parent, name :
        Begin(h, op, rows, parent, name) /\ (op = "batch" => \A r \in rows : Chain(r) \intersect rows = {r})
  <2>1. CASE \E S \in SUBSET Resources, p \in Resources : BeginBatch(h, S, p)
    <3>1. PICK S \in SUBSET Resources, p \in Resources : BeginBatch(h, S, p)
      BY <2>1
    <3>2. PICK moves : /\ moves = Unambiguous({r \in TopLevel(S) : r \notin Chain(p)}, p)
                       /\ Begin(h, "batch", moves, p, row[p].name)
      BY <3>1 DEF BeginBatch
    <3>3. \A r \in moves : r \in S /\ Chain(r) \intersect S = {r}
      BY <3>2 DEF Unambiguous, TopLevel
    <3>4. \A r \in moves : Chain(r) \intersect moves = {r}
      BY <3>3
    <3> QED BY <3>2, <3>4
  <2>2. CASE \/ \E r \in Resources : BeginRestore(h, r)
             \/ \E r \in Resources, n \in Names : BeginRename(h, r, n)
             \/ \E r, p \in Resources, n \in Names : BeginCreate(h, r, p, n) \/ BeginMove(h, r, p, n)
    <3>1. \E op, rows, parent, name : Begin(h, op, rows, parent, name) /\ op # "batch"
      <4>1. CASE \E r \in Resources : BeginRestore(h, r)
        BY <4>1 DEF BeginRestore
      <4>2. CASE \E r \in Resources, n \in Names : BeginRename(h, r, n)
        BY <4>2 DEF BeginRename
      <4>3. CASE \E r, p \in Resources, n \in Names : BeginCreate(h, r, p, n)
        BY <4>3 DEF BeginCreate
      <4>4. CASE \E r, p \in Resources, n \in Names : BeginMove(h, r, p, n)
        BY <4>4 DEF BeginMove
      <4> QED BY <2>2, <4>1, <4>2, <4>3, <4>4
    <3> QED BY <3>1
  <2> QED BY <2>1, <2>2 DEF BeginStep
<1>3. Still
  BY <1>2 DEF Begin, Still
<1>4. PICK q : /\ q = [op |-> op, rows |-> rows, parent |-> parent,
                       name |-> name, moved |-> FALSE, named |-> FALSE]
               /\ req' = [req EXCEPT ![h] = q]
  BY <1>2 DEF Begin
<1>5. q.op = op /\ q.rows = rows
  BY <1>4
<1>6. \A k \in Handlers \ {h} : GoesOn(k)
  BY <1>1, <1>4 DEF GoesOn, TypeOK
<1>7. req'[h] = q
  BY <1>1, <1>4 DEF TypeOK
<1>8. \A r : Chain(r)' = Chain(r)
  BY <1>3 DEF Still, Chain, Closed
<1>9. BatchFlat(h)'
  BY <1>2, <1>5, <1>7, <1>8 DEF BatchFlat
<1> QED BY <1>3, <1>6, <1>9, StillGrown

LEMMA StepGrown ==
  ASSUME Grown, [Next]_vars
  PROVE  Grown' /\ (Still \/ Committed)
<1>1. IInv /\ NameInv
  BY GrownFields
<1>2. IInv' /\ NameInv'
  BY <1>1, StepInv, StepNames
<1>3. CASE UNCHANGED vars
  <2>1. Still /\ \A k \in Handlers : GoesOn(k)
    BY <1>3 DEF vars, Still, GoesOn
  <2> QED BY <1>2, <2>1, StillGrown
<1>4. ASSUME NEW h \in Handlers, Step(h) PROVE Grown' /\ (Still \/ Committed)
  <2>1. CASE BeginStep(h)
    BY <1>2, <2>1, BeginGrown
  <2>2. CASE Create(h)
    BY <1>2, <2>2, CreateGrown
  <2>3. CASE Rename(h)
    BY <1>2, <2>3, RenameGrown
  <2>4. CASE Move(h)
    BY <1>2, <2>4, MoveGrown
  <2>5. CASE BatchMove(h)
    BY <1>2, <2>5, BatchGrown
  <2>6. CASE Reparent(h)
    BY <1>2, <2>6, ReparentGrown
  <2>7. CASE CheckRestore(h) \/ Abort(h)
    BY <1>2, <2>7, EndGrown
  <2>8. CASE Restore(h)
    BY <1>2, <2>8, RestoreGrown
  <2> QED BY <1>4, <2>1, <2>2, <2>3, <2>4, <2>5, <2>6, <2>7, <2>8 DEF Step
<1>5. ASSUME NEW r \in Resources, Trash(r) PROVE Grown' /\ Committed
  BY <1>2, <1>5, TrashGrown
<1> QED BY <1>3, <1>4, <1>5 DEF Next

LEMMA InitGrown == Init => Grown
<1> SUFFICES ASSUME Init PROVE Grown
  OBVIOUS
<1>1. Rooted
  BY InitialAssumption DEF Init, Rooted
<1>2. \A h \in Handlers : BatchFlat(h)
  BY DEF Init, BatchFlat, Idle
<1> QED BY <1>1, <1>2, InitInv, InitNames DEF Grown

(* ------------------------- what a commit overtakes ----------------------- *)

\* The request q after its first commit, which made v and d of rows and entries.
Overtook(v, d, q, r) ==
  /\ r.kind = q.kind /\ r.of = q.of /\ r.next = q.next /\ r.path = q.path /\ r.looped = q.looped
  /\ r.found = q.found /\ r.todo = q.todo /\ r.changes = 1
  /\ r.possible = q.possible \union {AllowedIn(v, d, q.of)}
  /\ \A f \in Shared : r.shown[f] = q.shown[f] \union {ReachIn(v, q.of) /\ f \in ChainIn(v, q.of)}
  /\ r.hung <=> q.hung /\ ReachIn(v, q.of)

\* A walk none of whose rows has changed will find what is right now; one that
\* has read a row that changed will find what was right before, for the commit
\* changed no other on its way.
LEMMA RowsOvertaken ==
  ASSUME NEW w \in [Resources -> Row], RootedIn(w), NEW v \in [Resources -> Row], RootedIn(v),
         NoCircle(v), Flat(w, v), NEW e \in Entries,
         NEW q \in Query, q.changes = 0, RowsSound(w, e, q), NEW r, Overtook(v, e, q, r)
  PROVE  RowsSound(v, e, r)
<1>1. /\ q.of \in Resources /\ q.next \in Parents /\ (q.next # None => q.next \in Resources)
      /\ q.path \in Seq(Resources) /\ Len(q.path) \in Nat /\ \A k \in 1..Len(q.path) : q.path[k] \in Resources
  BY QueryFields, LenProperties
<1>2. /\ RowsFresh(w, e, q)
      /\ Entitled(q) => /\ Foreseen(w, e, q) \in q.possible
                        /\ \A f \in Shared : ShownAhead(w, q, f) \in q.shown[f]
      /\ q.kind = "filter" /\ q.hung => Ends(w, q.next)
      /\ q.next # None => \A k \in 1..Len(q.path) : q.path[k] \notin ChainIn(w, q.next)
      /\ q.kind = "list" => q.path = <<>> /\ q.next = q.of
      /\ q.path = <<>> => q.next = q.of /\ q.found["global"] = "unset"
      /\ Len(q.todo) = 2 /\ ~q.looped
  BY DEF RowsSound
<1>3. /\ r.kind = q.kind /\ r.of = q.of /\ r.next = q.next /\ r.path = q.path /\ r.found = q.found
      /\ r.looped = q.looped
      /\ r.todo = q.todo /\ r.changes = 1
      /\ r.possible = q.possible \union {AllowedIn(v, e, q.of)}
      /\ \A f \in Shared : r.shown[f] = q.shown[f] \union {ReachIn(v, q.of) /\ f \in ChainIn(v, q.of)}
      /\ r.hung <=> q.hung /\ ReachIn(v, q.of)
  BY DEF Overtook
<1>4. Entitled(r) => Entitled(q)
  BY <1>3 DEF Entitled
<1>5. (Foreseen(v, e, r) <=> Foreseen(v, e, q)) /\ \A f : ShownAhead(v, r, f) <=> ShownAhead(v, q, f)
  BY <1>3 DEF Foreseen, ShownAhead, Coming
<1>6. SUFFICES /\ Entitled(r) => /\ Foreseen(v, e, r) \in r.possible
                                 /\ \A f \in Shared : ShownAhead(v, r, f) \in r.shown[f]
               /\ q.kind = "filter" /\ r.hung => Ends(v, q.next)
               /\ q.next # None => \A k \in 1..Len(q.path) : q.path[k] \notin ChainIn(v, q.next)
  BY <1>2, <1>3 DEF RowsSound
<1>7. PICK R \in SUBSET Resources :
        /\ \A x \in Resources \ R : v[x] = w[x]
        /\ \A x \in R : ChainIn(w, x) \intersect R = {x}
  BY DEF Flat
<1>8. CASE \A k \in 1..Len(q.path) : q.path[k] \notin R
  <2>1. \A k \in 1..Len(q.path) : v[q.path[k]] = w[q.path[k]]
    BY <1>1, <1>7, <1>8
  <2>2. \A k \in 1..Len(q.path) : v[q.path[k]].state = "live"
    BY <1>2, <2>1 DEF RowsFresh
  <2>3. Leads(v, q.path, q.of, q.next)
    <3>1. Leads(w, q.path, q.of, q.next)
      BY <1>2 DEF RowsFresh
    <3>2. q.path # <<>> => Len(q.path) \in 1..Len(q.path)
      BY <1>1, EmptySeq
    <3>3. \A k \in 1..(Len(q.path) - 1) : k \in 1..Len(q.path)
      BY <1>1
    <3> QED BY <2>1, <3>1, <3>2, <3>3 DEF Leads
  <2>4. q.found["global"] = Nearest(e["global"], q.path)
    BY <1>2 DEF RowsFresh
  <2>5. /\ Foreseen(v, e, q) <=> AllowedIn(v, e, q.of)
        /\ \A f : ShownAhead(v, q, f) <=> ReachIn(v, q.of) /\ f \in ChainIn(v, q.of)
    BY <2>2, <2>3, <2>4, FreshForeseen
  <2>6. Foreseen(v, e, r) = AllowedIn(v, e, q.of)
    BY <1>5, <2>5 DEF Foreseen, AllowedIn
  <2>7. ASSUME NEW f \in Shared PROVE ShownAhead(v, r, f) \in r.shown[f]
    <3>1. ShownAhead(v, r, f) = (ReachIn(v, q.of) /\ f \in ChainIn(v, q.of))
      BY <1>5, <2>5 DEF ShownAhead
    <3> QED BY <1>3, <3>1
  <2>8. ReachIn(v, q.of) => Ends(v, q.next)
    BY <1>1, <2>2, <2>3, LeadsEnds
  <2>9. q.next # None => \A k \in 1..Len(q.path) : q.path[k] \notin ChainIn(v, q.next)
    BY <1>1, <2>3, LeadsApart
  <2> QED BY <1>3, <2>6, <2>7, <2>8, <2>9
<1>9. CASE \E k \in 1..Len(q.path) : q.path[k] \in R
  <2>1. PICK k \in 1..Len(q.path) : q.path[k] \in R
    BY <1>9
  <2>2. ASSUME q.next # None, NEW x \in ChainIn(w, q.next) PROVE v[x] = w[x]
    <3>1. q.next \in Resources /\ q.path[k] \in Resources /\ Leads(w, q.path, q.of, q.next)
      BY <1>1, <1>2, <2>2 DEF RowsFresh
    <3>2. q.next \in ChainIn(w, q.path[k])
      BY <1>1, <3>1, LeadsOn
    <3>3. ChainIn(w, q.next) \subseteq ChainIn(w, q.path[k])
      BY <3>1, <3>2, ChainInSub
    <3>4. x # q.path[k] /\ x \in Resources
      BY <1>2, <2>2, <3>1, ChainInClosed
    <3>5. x \notin R
      BY <1>7, <2>1, <2>2, <3>3, <3>4
    <3> QED BY <1>7, <3>4, <3>5
  <2>3. /\ Foreseen(v, e, r) <=> Foreseen(w, e, q)
        /\ \A f : ShownAhead(v, r, f) <=> ShownAhead(w, q, f)
        /\ Ends(v, q.next) <=> Ends(w, q.next)
        /\ q.next # None => ChainIn(v, q.next) = ChainIn(w, q.next)
    <3>1. w[Root].parent = None
      BY DEF RootedIn
    <3> QED BY <1>3, <2>2, <3>1, KeptForeseen
  <2>4. Foreseen(v, e, r) = Foreseen(w, e, q)
    BY <2>3 DEF Foreseen
  <2>5. \A f : ShownAhead(v, r, f) = ShownAhead(w, q, f)
    BY <2>3 DEF ShownAhead
  <2> QED BY <1>2, <1>3, <1>4, <2>3, <2>4, <2>5
<1> QED BY <1>8, <1>9

\* The entry of a row that is read already counts no more; any other will.
LEMMA RowsReset ==
  ASSUME NEW w \in [Resources -> Row], RootedIn(w), NEW e \in Entries, NEW d \in Entries,
         NEW s0 \in Sources, NEW x0 \in Resources,
         \A s \in Sources, x \in Resources : d[s][x] # e[s][x] => s = s0 /\ x = x0,
         NEW q \in Query, q.changes = 0, RowsSound(w, e, q), NEW r, Overtook(w, d, q, r)
  PROVE  RowsSound(w, d, r)
<1>1. /\ q.of \in Resources /\ q.next \in Parents /\ (q.next # None => q.next \in Resources)
      /\ q.path \in Seq(Resources) /\ Len(q.path) \in Nat /\ \A k \in 1..Len(q.path) : q.path[k] \in Resources
      /\ q.found \in [Sources -> Entry]
  BY QueryFields, LenProperties
<1>2. /\ RowsFresh(w, e, q)
      /\ Entitled(q) => /\ Foreseen(w, e, q) \in q.possible
                        /\ \A f \in Shared : ShownAhead(w, q, f) \in q.shown[f]
      /\ q.kind = "filter" /\ q.hung => Ends(w, q.next)
      /\ q.next # None => \A k \in 1..Len(q.path) : q.path[k] \notin ChainIn(w, q.next)
      /\ q.kind = "list" => q.path = <<>> /\ q.next = q.of
      /\ q.path = <<>> => q.next = q.of /\ q.found["global"] = "unset"
      /\ Len(q.todo) = 2 /\ ~q.looped
  BY DEF RowsSound
<1>3. /\ r.kind = q.kind /\ r.of = q.of /\ r.next = q.next /\ r.path = q.path /\ r.found = q.found
      /\ r.looped = q.looped
      /\ r.todo = q.todo /\ r.changes = 1
      /\ r.possible = q.possible \union {AllowedIn(w, d, q.of)}
      /\ \A f \in Shared : r.shown[f] = q.shown[f] \union {ReachIn(w, q.of) /\ f \in ChainIn(w, q.of)}
      /\ r.hung <=> q.hung /\ ReachIn(w, q.of)
  BY DEF Overtook
<1>4. Entitled(r) => Entitled(q)
  BY <1>3 DEF Entitled
<1>5. (Foreseen(w, d, r) <=> Foreseen(w, d, q)) /\ \A f : ShownAhead(w, r, f) = ShownAhead(w, q, f)
  BY <1>3 DEF Foreseen, ShownAhead, Coming
<1>6. SUFFICES Entitled(r) => Foreseen(w, d, r) \in r.possible
  BY <1>2, <1>3, <1>4, <1>5 DEF RowsSound
<1>7. \A s \in Sources : e[s] \in [Resources -> Entry] /\ d[s] \in [Resources -> Entry]
  BY DEF Entries
<1>8. "global" \in Sources
  BY DEF Sources
<1>9. CASE ~(s0 = "global" /\ \E k \in 1..Len(q.path) : q.path[k] = x0)
  <2>1. \A k \in 1..Len(q.path) : d["global"][q.path[k]] = e["global"][q.path[k]]
    BY <1>1, <1>8, <1>9
  <2>2. Nearest(d["global"], q.path) = Nearest(e["global"], q.path)
    BY <1>1, <1>7, <1>8, <2>1, NearestSame
  <2>3. /\ q.found["global"] = Nearest(d["global"], q.path) /\ Leads(w, q.path, q.of, q.next)
        /\ \A k \in 1..Len(q.path) : w[q.path[k]].state = "live"
    BY <1>2, <2>2 DEF RowsFresh
  <2>4. Foreseen(w, d, q) <=> AllowedIn(w, d, q.of)
    BY <2>3, FreshForeseen
  <2>5. Foreseen(w, d, r) = AllowedIn(w, d, q.of)
    BY <1>5, <2>4 DEF Foreseen, AllowedIn
  <2> QED BY <1>3, <2>5
<1>10. CASE s0 = "global" /\ \E k \in 1..Len(q.path) : q.path[k] = x0
  <2>1. ASSUME NEW s \in Sources, s # "global" PROVE d[s] = e[s]
    <3>1. \A x \in Resources : d[s][x] = e[s][x]
      BY <1>10, <2>1
    <3>2. PICK g, i : g = d[s] /\ i = e[s]
      OBVIOUS
    <3>3. g \in [Resources -> Entry] /\ i \in [Resources -> Entry] /\ \A x \in Resources : g[x] = i[x]
      BY <1>7, <2>1, <3>1, <3>2
    <3>4. g = i
      BY <3>3
    <3> QED BY <3>2, <3>4
  <2>2. ASSUME Ends(w, q.next) PROVE Coming(w, d, q) = Coming(w, e, q)
    <3>1. /\ Rest(w, q.next) \in Seq(Resources)
          /\ \A k \in 1..Len(Rest(w, q.next)) : q.next # None /\ Rest(w, q.next)[k] \in ChainIn(w, q.next)
      BY <1>1, <2>2, RestFields DEF RootedIn
    <3>2. \A k \in 1..Len(Rest(w, q.next)) : Rest(w, q.next)[k] # x0 /\ Rest(w, q.next)[k] \in Resources
      BY <1>1, <1>2, <1>10, <3>1, ChainInClosed
    <3>3. \A k \in 1..Len(Rest(w, q.next)) :
            d["global"][Rest(w, q.next)[k]] = e["global"][Rest(w, q.next)[k]]
      BY <1>8, <3>2
    <3>4. Nearest(d["global"], Rest(w, q.next)) = Nearest(e["global"], Rest(w, q.next))
      BY <1>7, <1>8, <3>1, <3>3, NearestSame, ZenonT(40)
    <3> QED BY <2>1, <3>4 DEF Coming
  <2>3. Foreseen(w, d, q) <=> Foreseen(w, e, q)
    BY <2>2 DEF Foreseen
  <2>4. Foreseen(w, d, r) = Foreseen(w, e, q)
    BY <1>5, <2>3 DEF Foreseen
  <2> QED BY <1>2, <1>3, <1>4, <2>4
<1> QED BY <1>9, <1>10

\* Once the rows are read, only the entries that are yet to be read count.
LEMMA EntriesOvertaken ==
  ASSUME NEW w, NEW v, NEW e, NEW d, NEW q \in Query, EntriesSound(w, e, q),
         \A s \in Sources : s \in Range(q.todo) => d[s] = e[s],
         NEW r, Overtook(v, d, q, r)
  PROVE  EntriesSound(v, d, r)
<1>1. /\ r.kind = q.kind /\ r.path = q.path /\ r.looped = q.looped /\ r.found = q.found /\ r.todo = q.todo
      /\ r.changes = 1 /\ q.possible \subseteq r.possible /\ \A f \in Shared : q.shown[f] \subseteq r.shown[f]
      /\ r.hung => q.hung
  BY DEF Overtook
<1>2. Entitled(r) => Entitled(q)
  BY <1>1 DEF Entitled
<1>3. Telling(d, r) = Telling(e, q)
  BY <1>1 DEF Telling
<1> QED BY <1>1, <1>2, <1>3 DEF EntriesSound

LEMMA EntriesReset ==
  ASSUME NEW w, NEW e \in Entries, NEW d \in Entries, NEW s0 \in Sources,
         \A s \in Sources : s # s0 => d[s] = e[s],
         NEW q \in Query, q.changes = 0, EntriesSound(w, e, q), NEW r, Overtook(w, d, q, r)
  PROVE  EntriesSound(w, d, r)
<1>1. CASE s0 \notin Range(q.todo)
  BY <1>1, EntriesOvertaken
<1>2. CASE s0 \in Range(q.todo)
  <2>1. /\ r.kind = q.kind /\ r.path = q.path /\ r.looped = q.looped /\ r.found = q.found /\ r.todo = q.todo
        /\ r.changes = 1 /\ \A f \in Shared : q.shown[f] \subseteq r.shown[f] /\ (r.hung => q.hung)
        /\ AllowedIn(w, d, q.of) \in r.possible
    BY DEF Overtook
  <2>2. Entitled(r) => Entitled(q)
    BY <2>1 DEF Overtook, Entitled
  <2>3. ASSUME Entitled(q) PROVE Allows(Telling(d, r)) \in r.possible
    <3>1. /\ ReachIn(w, q.of) /\ q.path = WayIn(w, q.of)
          /\ \A s \in Sources : s \notin Range(q.todo) => q.found[s] = Nearest(e[s], q.path)
      BY <2>3 DEF EntriesSound
    <3>2. Telling(d, r) = Levels(w, d, q.of)
      BY <1>2, <2>1, <3>1 DEF Telling, Levels
    <3>3. Allows(Telling(d, r)) = AllowedIn(w, d, q.of)
      BY <3>1, <3>2 DEF AllowedIn, Allows
    <3> QED BY <2>1, <3>3
  <2> QED BY <2>1, <2>2, <2>3 DEF EntriesSound
<1> QED BY <1>1, <1>2

(* --------------------------- the reader's steps -------------------------- *)

LEMMA TodoParts ==
  ASSUME NEW t \in Todos
  PROVE  /\ Len(t) = 2 => /\ Range(t) = {"user", "group"} /\ Head(t) \in Sources /\ Tail(t) \in Todos
                          /\ Range(t) = Range(Tail(t)) \union {Head(t)}
         /\ Len(t) = 1 => Range(t) = {Head(t)} /\ Head(t) \in Sources
         /\ Len(t) \in {1, 2}
<1>1. CASE t = <<"user", "group">>
  BY <1>1 DEF Range, Todos, Sources
<1>2. CASE t = <<"group", "user">>
  BY <1>2 DEF Range, Todos, Sources
<1>3. CASE t = <<"user">>
  BY <1>3 DEF Range, Todos, Sources
<1>4. CASE t = <<"group">>
  BY <1>4 DEF Range, Todos, Sources
<1> QED BY <1>1, <1>2, <1>3, <1>4 DEF Todos

LEMMA RowsFields ==
  ASSUME NEW w, NEW e, NEW q \in Query, RowsSound(w, e, q)
  PROVE  /\ q.changes = 0 => RowsFresh(w, e, q)
         /\ Entitled(q) => /\ Foreseen(w, e, q) \in q.possible
                           /\ \A f \in Shared : ShownAhead(w, q, f) \in q.shown[f]
         /\ q.kind = "filter" /\ q.hung => Ends(w, q.next)
         /\ q.next # None => \A k \in 1..Len(q.path) : q.path[k] \notin ChainIn(w, q.next)
         /\ q.kind = "list" => q.path = <<>> /\ q.next = q.of
         /\ q.path = <<>> => q.next = q.of /\ q.found["global"] = "unset"
         /\ Len(q.todo) = 2 /\ ~q.looped
         /\ Range(q.todo) = {"user", "group"}
         /\ q.of \in Resources /\ q.next \in Parents /\ (q.next # None => q.next \in Resources)
         /\ q.path \in Seq(Resources) /\ Len(q.path) \in Nat /\ \A k \in 1..Len(q.path) : q.path[k] \in Resources
         /\ q.found \in [Sources -> Entry]
<1>1. q.todo \in Todos
  BY QueryFields
<1> QED BY <1>1, QueryFields, TodoParts, LenProperties DEF RowsSound

\* The walk is at its end.
LEMMA WalkEnds ==
  ASSUME NEW w \in [Resources -> Row], RootedIn(w), NEW e \in Entries, NEW q \in Query, RowsSound(w, e, q),
         q.next = None,
         NEW r, r = [q EXCEPT !.phase = "entries", !.next = None, !.looped = FALSE]
  PROVE  EntriesSound(w, e, r)
<1>1. /\ r.kind = q.kind /\ r.of = q.of /\ r.path = q.path /\ r.found = q.found /\ ~r.looped
      /\ r.todo = q.todo /\ r.changes = q.changes /\ r.possible = q.possible /\ r.shown = q.shown /\ r.hung = q.hung
  BY DEF Query
<1>2. Entitled(r) <=> Entitled(q)
  BY <1>1 DEF Entitled
<1>3. q.path \in Seq(Resources) /\ q.path \o <<>> = q.path /\ Rest(w, q.next) = <<>> /\ Ends(w, q.next)
  BY RowsFields, ConcatEmptySeq DEF Rest, Ends
<1>4. Nearest(e["global"], <<>>) = "unset"
  <2>1. e["global"] \in [Resources -> Entry]
    BY DEF Entries, Sources
  <2> QED BY <2>1, NearestShort
<1>5. Telling(e, r) = Coming(w, e, q)
  <2>1. ASSUME NEW s \in Sources PROVE Telling(e, r)[s] = Coming(w, e, q)[s]
    <3>0. Range(r.todo) = {"user", "group"}
      <4>1. Range(q.todo) = {"user", "group"}
        BY RowsFields, Zenon
      <4> QED BY <1>1, <4>1
    <3>1. CASE s = "global"
      <4>1. Telling(e, r)[s] = q.found["global"]
        BY <1>1, <3>0, <3>1 DEF Telling
      <4>2. Coming(w, e, q)[s] = q.found["global"]
        BY <1>3, <1>4, <3>1 DEF Coming
      <4> QED BY <4>1, <4>2
    <3>2. CASE s # "global"
      <4>1. s \in Range(r.todo)
        BY <3>0, <3>2 DEF Sources
      <4> QED BY <1>1, <1>3, <3>2, <4>1 DEF Telling, Coming
    <3> QED BY <3>1, <3>2
  <2> QED BY <2>1 DEF Telling, Coming
<1>6. Allows(Telling(e, r)) = Foreseen(w, e, q)
  BY <1>3, <1>5 DEF Foreseen, Allows
<1>7. \A f \in Shared : (f \in Range(r.path)) = ShownAhead(w, q, f)
  BY <1>1, <1>3 DEF ShownAhead
<1>8. ASSUME r.changes = 0, Entitled(r)
      PROVE  /\ ReachIn(w, r.of) /\ r.path = WayIn(w, r.of)
             /\ r.possible = {AllowedIn(w, e, r.of)}
             /\ \A s \in Sources : s \notin Range(r.todo) => r.found[s] = Nearest(e[s], r.path)
  <2>1. RowsFresh(w, e, q)
    BY <1>1, <1>8, RowsFields
  <2>2. /\ Leads(w, q.path, q.of, q.next) /\ \A k \in 1..Len(q.path) : w[q.path[k]].state = "live"
        /\ q.found["global"] = Nearest(e["global"], q.path)
        /\ q.possible = {AllowedIn(w, e, q.of)}
    BY <2>1 DEF RowsFresh
  <2>3. ReachIn(w, q.of) /\ WayIn(w, q.of) = q.path \o Rest(w, q.next)
    BY <1>3, <2>2, RowsFields, LeadsEnds
  <2>4. \A s \in Sources : s \notin Range(r.todo) => s = "global"
    BY <1>1, RowsFields, ZenonT(40) DEF Sources
  <2> QED BY <1>1, <1>3, <2>2, <2>3, <2>4
<1> QED BY <1>1, <1>2, <1>6, <1>7, <1>8, RowsFields DEF EntriesSound

\* A row that is not found ends the walk of a filter.
LEMMA WalkBreaks ==
  ASSUME NEW w \in [Resources -> Row], NEW e \in Entries, NEW q \in Query, RowsSound(w, e, q),
         q.next # None, w[q.next].state # "live", q.kind = "filter",
         NEW r, r = [q EXCEPT !.phase = "entries", !.next = None, !.looped = FALSE]
  PROVE  EntriesSound(w, e, r)
<1>1. r.kind = q.kind /\ ~r.looped /\ r.hung = q.hung
  BY DEF Query
<1>2. ~q.hung
  <2>1. SUFFICES ASSUME q.hung PROVE FALSE
    OBVIOUS
  <2>2. ReachIn(w, q.next) /\ q.next \in Resources
    BY <2>1, RowsFields DEF Ends
  <2> QED BY <2>2, ChainInClosed DEF ReachIn
<1> QED BY <1>1, <1>2 DEF EntriesSound, Entitled

\* One more row is read.
LEMMA WalkGoesOn ==
  ASSUME NEW w \in [Resources -> Row], RootedIn(w), NoCircle(w), NEW e \in Entries,
         NEW q \in Query, RowsSound(w, e, q), q.kind # "list",
         NEW x \in Resources, q.next = x, w[x].state = "live",
         NEW r \in Query, r.kind = q.kind, r.of = q.of, r.path = Append(q.path, x), r.next = w[x].parent,
         r.found = [q.found EXCEPT !["global"] = IF @ = "unset" THEN e["global"][x] ELSE @],
         r.looped = q.looped, r.todo = q.todo, r.changes = q.changes, r.possible = q.possible,
         r.shown = q.shown, r.hung = q.hung
  PROVE  RowsSound(w, e, r)
<1>1. /\ q.of \in Resources /\ q.path \in Seq(Resources) /\ Len(q.path) \in Nat
      /\ \A k \in 1..Len(q.path) : q.path[k] \in Resources
      /\ q.found \in [Sources -> Entry] /\ w[x].parent \in Parents
  BY RowsFields DEF Row
<1>2. PICK t : t = <<x>>
  OBVIOUS
<1>3. t \in Seq(Resources) /\ Len(t) = 1 /\ t[1] = x /\ t # <<>>
  BY <1>2
<1>4. r.path = q.path \o t /\ r.path \in Seq(Resources)
  <2>1. Append(q.path, x) = q.path \o <<x>>
    BY <1>1, AppendIsConcat
  <2> QED BY <1>1, <1>2, <2>1, AppendProperties
<1>5. /\ Len(r.path) = Len(q.path) + 1 /\ r.path[Len(q.path) + 1] = x
      /\ \A k \in 1..Len(q.path) : r.path[k] = q.path[k]
  BY <1>1, AppendProperties
<1>6. Range(r.path) = Range(q.path) \union {x}
  <2>1. DOMAIN r.path = 1..(Len(q.path) + 1) /\ DOMAIN q.path = 1..Len(q.path)
    BY <1>1, <1>4, <1>5, LenProperties
  <2> QED BY <1>1, <1>5, <2>1 DEF Range
<1>7. Leads(w, t, x, w[x].parent) /\ \A k \in 1..Len(t) : w[t[k]].state = "live"
  <2>1. \A k \in 1..Len(t) : t[k] = x
    BY <1>3
  <2> QED BY <1>3, <2>1 DEF Leads
<1>8. /\ Ends(w, r.next) <=> ReachIn(w, x)
      /\ ReachIn(w, x) => WayIn(w, x) = t \o Rest(w, r.next)
      /\ \A f : f \in Range(t) \/ (r.next # None /\ f \in ChainIn(w, r.next)) <=> f \in ChainIn(w, x)
  BY <1>1, <1>3, <1>7, LeadsEnds
<1>9. x # None /\ (Ends(w, q.next) <=> ReachIn(w, x)) /\ Rest(w, q.next) = WayIn(w, x)
  BY RootAssumption DEF Ends, Rest
<1>10. e["global"] \in [Resources -> Entry] /\ \A s \in Sources : e[s] \in [Resources -> Entry]
  BY DEF Entries, Sources
<1>11. Nearest(e["global"], t) = e["global"][x]
  BY <1>2, <1>10, NearestShort
<1>12. /\ r.found["global"] = IF q.found["global"] = "unset" THEN e["global"][x] ELSE q.found["global"]
       /\ \A s \in Sources : s # "global" => r.found[s] = q.found[s]
  BY <1>1 DEF Sources
<1>13. ASSUME ReachIn(w, x) PROVE Coming(w, e, r) = Coming(w, e, q)
  <2>1. Rest(w, r.next) \in Seq(Resources)
    BY <1>1, <1>8, <1>13, RestFields DEF RootedIn
  <2>2. r.path \o Rest(w, r.next) = q.path \o Rest(w, q.next)
    <3>1. (q.path \o t) \o Rest(w, r.next) = q.path \o (t \o Rest(w, r.next))
      <4>1. PICK a1, a2, a3 : a1 = q.path /\ a2 = t /\ a3 = Rest(w, r.next)
        OBVIOUS
      <4>2. a1 \in Seq(Resources) /\ a2 \in Seq(Resources) /\ a3 \in Seq(Resources)
        BY <1>1, <1>3, <2>1, <4>1
      <4>3. (a1 \o a2) \o a3 = a1 \o (a2 \o a3)
        BY <4>2, ConcatAssociative, SMTT(20)
      <4> QED BY <4>1, <4>3
    <3> QED BY <1>4, <1>8, <1>9, <1>13, <3>1
  <2>3. Nearest(e["global"], Rest(w, q.next)) =
          IF e["global"][x] # "unset" THEN e["global"][x] ELSE Nearest(e["global"], Rest(w, r.next))
    <3>1. Nearest(e["global"], t \o Rest(w, r.next)) =
            IF Nearest(e["global"], t) # "unset" THEN Nearest(e["global"], t) ELSE Nearest(e["global"], Rest(w, r.next))
      BY <1>3, <1>10, <2>1, NearestConcat
    <3> QED BY <1>8, <1>9, <1>11, <1>13, <3>1
  <2> QED BY <1>12, <2>2, <2>3 DEF Coming
<1>14. Foreseen(w, e, r) = Foreseen(w, e, q)
  BY <1>8, <1>9, <1>13 DEF Foreseen
<1>15. ASSUME NEW f PROVE ShownAhead(w, r, f) = ShownAhead(w, q, f)
  <2>1. Range(t) = {x}
    <3>1. DOMAIN t = {1}
      BY <1>2
    <3> QED BY <1>3, <3>1 DEF Range
  <2> QED BY <1>6, <1>8, <1>9, <2>1 DEF ShownAhead
<1>16. ASSUME r.next # None, NEW k \in 1..Len(r.path) PROVE r.path[k] \notin ChainIn(w, r.next)
  <2>1. r.next \in Resources /\ r.next \in ChainIn(w, r.next)
    BY <1>1, <1>16, ChainInClosed DEF Parents
  <2>2. CASE k = Len(q.path) + 1
    <3>1. x \notin ChainIn(w, r.next)
      BY <1>16, <2>1, ChainInOnce DEF NoCircle
    <3> QED BY <1>5, <2>2, <3>1
  <2>3. CASE k # Len(q.path) + 1
    <3>1. k \in 1..Len(q.path)
      BY <1>1, <1>5, <2>3
    <3>2. q.path[k] \notin ChainIn(w, x)
      BY <1>9, <3>1, RowsFields
    <3>3. ChainIn(w, x) = {x} \union ChainIn(w, r.next)
      BY <1>16, ChainInStep
    <3> QED BY <1>5, <3>1, <3>2, <3>3
  <2> QED BY <2>2, <2>3
<1>17. ASSUME q.changes = 0 PROVE RowsFresh(w, e, r)
  <2>1. RowsFresh(w, e, q)
    BY <1>17, RowsFields
  <2>2. /\ Leads(w, q.path, q.of, x) /\ \A k \in 1..Len(q.path) : w[q.path[k]].state = "live"
        /\ q.found["global"] = Nearest(e["global"], q.path)
        /\ q.possible = {AllowedIn(w, e, q.of)}
        /\ \A f \in Shared : q.shown[f] = {ReachIn(w, q.of) /\ f \in ChainIn(w, q.of)}
        /\ q.hung = ReachIn(w, q.of)
    BY <2>1 DEF RowsFresh
  <2>3. r.path # <<>> /\ r.path[1] = q.of
    <3>1. CASE q.path = <<>>
      <4>1. x = q.of /\ Len(q.path) = 0
        BY <2>2, <3>1 DEF Leads
      <4> QED BY <1>3, <1>4, <1>5, <4>1
    <3>2. CASE q.path # <<>>
      <4>1. q.path[1] = q.of /\ 1 \in 1..Len(q.path)
        BY <1>1, <2>2, <3>2, EmptySeq DEF Leads
      <4> QED BY <1>1, <1>4, <1>5, <4>1, EmptySeq
    <3> QED BY <3>1, <3>2
  <2>4. ASSUME NEW k \in 1..(Len(r.path) - 1) PROVE r.path[k + 1] = w[r.path[k]].parent
    <3>1. k \in 1..Len(q.path) /\ q.path # <<>>
      BY <1>1, <1>5
    <3>2. CASE k = Len(q.path)
      BY <1>5, <2>2, <3>1, <3>2 DEF Leads
    <3>3. CASE k # Len(q.path)
      <4>1. k \in 1..(Len(q.path) - 1) /\ k + 1 \in 1..Len(q.path)
        BY <1>1, <3>1, <3>3
      <4> QED BY <1>5, <2>2, <3>1, <4>1 DEF Leads
    <3> QED BY <3>2, <3>3
  <2>5. Leads(w, r.path, r.of, r.next)
    BY <1>5, <2>3, <2>4 DEF Leads
  <2>6. ASSUME NEW k \in 1..Len(r.path) PROVE w[r.path[k]].state = "live"
    BY <1>1, <1>5, <2>2
  <2>7. r.found["global"] = Nearest(e["global"], r.path)
    <3>1. Nearest(e["global"], q.path \o t) =
            IF Nearest(e["global"], q.path) # "unset" THEN Nearest(e["global"], q.path) ELSE Nearest(e["global"], t)
      BY <1>1, <1>3, <1>10, NearestConcat
    <3> QED BY <1>4, <1>11, <1>12, <2>2, <3>1
  <2> QED BY <2>2, <2>5, <2>6, <2>7 DEF RowsFresh
<1>18. r.path # <<>>
  BY <1>1, <1>4, <1>5, EmptySeq
<1>19. Entitled(r) <=> Entitled(q)
  BY DEF Entitled
<1> QED BY <1>8, <1>9, <1>14, <1>15, <1>16, <1>17, <1>18, <1>19, RowsFields DEF RowsSound

\* A listing reads all rows at once.
LEMMA ListRead ==
  ASSUME NEW w \in [Resources -> Row], RootedIn(w), NEW e \in Entries, NEW q \in Query, RowsSound(w, e, q),
         q.kind = "list", ReachIn(w, q.of),
         NEW r, r.kind = q.kind, r.of = q.of, r.path = WayIn(w, q.of), r.looped = q.looped, r.todo = q.todo,
         r.found = [q.found EXCEPT !["global"] = Nearest(e["global"], WayIn(w, q.of))],
         r.changes = q.changes, r.possible = q.possible, r.shown = q.shown, r.hung = q.hung
  PROVE  EntriesSound(w, e, r)
<1>1. /\ q.path = <<>> /\ q.next = q.of /\ q.of \in Resources /\ q.found["global"] = "unset" /\ ~q.looped
      /\ q.found \in [Sources -> Entry]
  BY RowsFields
<1>2. Range(r.todo) = {"user", "group"}
  <2>1. Range(q.todo) = {"user", "group"}
    BY RowsFields, Zenon
  <2> QED BY <2>1
<1>3. Ends(w, q.next) /\ Rest(w, q.next) = WayIn(w, q.of)
  BY <1>1, RootAssumption DEF Ends, Rest
<1>4. q.path \o Rest(w, q.next) = WayIn(w, q.of)
  <2>1. PICK s : s = Rest(w, q.next)
    OBVIOUS
  <2>2. s \in Seq(Resources)
    BY <1>1, <1>3, <2>1, RestFields DEF RootedIn, Parents
  <2>3. <<>> \o s = s
    BY <2>2, ConcatEmptySeq
  <2> QED BY <1>1, <1>3, <2>1, <2>3
<1>5. r.found["global"] = Nearest(e["global"], WayIn(w, q.of))
  BY <1>1 DEF Sources
<1>6. Telling(e, r) = Levels(w, e, q.of)
  <2>1. ASSUME NEW s \in Sources PROVE Telling(e, r)[s] = Levels(w, e, q.of)[s]
    <3>1. CASE s = "global"
      BY <1>2, <1>5, <3>1 DEF Telling, Levels
    <3>2. CASE s # "global"
      <4>1. s \in Range(r.todo)
        BY <1>2, <3>2 DEF Sources
      <4> QED BY <4>1 DEF Telling, Levels
    <3> QED BY <3>1, <3>2
  <2> QED BY <2>1 DEF Telling, Levels
<1>7. Coming(w, e, q) = Levels(w, e, q.of)
  BY <1>1, <1>3, <1>4 DEF Coming, Levels
<1>8. Allows(Telling(e, r)) = Foreseen(w, e, q)
  BY <1>3, <1>6, <1>7, ZenonT(40) DEF Foreseen, Allows
<1>9. Entitled(q) /\ Foreseen(w, e, q) \in q.possible
  <2>1. Entitled(q)
    BY DEF Entitled
  <2> QED BY <2>1, RowsFields
<1>10. ASSUME q.changes = 0
       PROVE  /\ q.possible = {AllowedIn(w, e, q.of)}
              /\ \A s \in Sources : s \notin Range(r.todo) => r.found[s] = Nearest(e[s], r.path)
  <2>1. RowsFresh(w, e, q)
    BY <1>10, RowsFields
  <2>2. \A s \in Sources : s \notin Range(r.todo) => s = "global"
    BY <1>2 DEF Sources
  <2> QED BY <1>5, <2>1, <2>2 DEF RowsFresh
<1> QED BY <1>1, <1>8, <1>9, <1>10 DEF EntriesSound

\* One more table is read.
LEMMA TableRead ==
  ASSUME NEW w, NEW e, NEW q \in Query, EntriesSound(w, e, q), Len(q.todo) > 1,
         NEW r, r.kind = q.kind, r.of = q.of, r.path = q.path, r.looped = q.looped, r.todo = Tail(q.todo),
         r.found = [q.found EXCEPT ![Head(q.todo)] = Nearest(e[Head(q.todo)], q.path)],
         r.changes = q.changes, r.possible = q.possible, r.shown = q.shown, r.hung = q.hung
  PROVE  EntriesSound(w, e, r)
<1>1. q.todo \in Todos /\ q.found \in [Sources -> Entry]
  BY QueryFields
<1>2. PICK s0, T : s0 = Head(q.todo) /\ T = Range(Tail(q.todo))
  OBVIOUS
<1>3. s0 \in Sources /\ Range(q.todo) = T \union {s0} /\ Range(r.todo) = T
  <2>0. Len(q.todo) \in {1, 2}
    BY <1>1, TodoParts
  <2>1. Len(q.todo) = 2
    <3>1. PICK n : n = Len(q.todo)
      OBVIOUS
    <3>2. n \in {1, 2} /\ n > 1
      BY <2>0, <3>1
    <3>3. n = 2
      BY <3>2
    <3> QED BY <3>1, <3>3
  <2>2. Head(q.todo) \in Sources /\ Range(q.todo) = Range(Tail(q.todo)) \union {Head(q.todo)}
    BY <1>1, <2>1, TodoParts
  <2> QED BY <1>2, <2>2
<1>4. r.found[s0] = Nearest(e[s0], q.path) /\ \A s \in Sources : s # s0 => r.found[s] = q.found[s]
  BY <1>1, <1>2, <1>3
<1>5. Telling(e, r) = Telling(e, q)
  <2>1. ASSUME NEW s \in Sources PROVE Telling(e, r)[s] = Telling(e, q)[s]
    <3>1. Telling(e, r)[s] = IF s \in T THEN Nearest(e[s], q.path) ELSE r.found[s]
      BY <1>3 DEF Telling
    <3>2. Telling(e, q)[s] = IF s \in T \union {s0} THEN Nearest(e[s], q.path) ELSE q.found[s]
      BY <1>3 DEF Telling
    <3> QED BY <1>4, <3>1, <3>2
  <2> QED BY <2>1 DEF Telling
<1>6. Entitled(r) <=> Entitled(q)
  BY DEF Entitled
<1>7. ASSUME q.changes = 0, Entitled(q), NEW s \in Sources, s \notin Range(r.todo)
      PROVE  r.found[s] = Nearest(e[s], r.path)
  <2>1. CASE s = s0
    BY <1>4, <2>1
  <2>2. CASE s # s0
    <3>1. s \notin Range(q.todo)
      BY <1>3, <1>7, <2>2
    <3> QED BY <1>4, <1>7, <2>2, <3>1 DEF EntriesSound
  <2> QED BY <2>1, <2>2
<1> QED BY <1>5, <1>6, <1>7 DEF EntriesSound

(* ------------------------------ the invariant ---------------------------- *)

Broken == [phase : {"endless"}, changes : {0, 1, 2}, knotted : BOOLEAN]

QueryFollowed(q) == q.changes < 2 /\ ~q.knotted

QuerySound(w, e, q) ==
  QueryFollowed(q) => /\ q.phase = "rows" => RowsSound(w, e, q)
                      /\ q.phase = "entries" => EntriesSound(w, e, q)

ReaderInv ==
  /\ entry \in Entries
  /\ reader \in Query \union Broken \union {NotAsking}
  /\ reader \in Query => /\ QuerySound(row, entry, reader)
                         /\ QueryFollowed(reader) => loose.moved = {}
  /\ reader \in Broken => ~QueryFollowed(reader)

LEMMA GrownTree ==
  ASSUME Grown
  PROVE  row \in [Resources -> Row] /\ RootedIn(row) /\ (loose.moved = {} => NoCircle(row))
<1>1. TypeOK /\ TreeShaped /\ Acyclic /\ Rooted
  BY GrownFields
<1> QED BY <1>1 DEF TypeOK, TreeShaped, Acyclic, Rooted, RootedIn, NoCircle

LEMMA GrownTreeNext ==
  ASSUME Grown'
  PROVE  row' \in [Resources -> Row] /\ RootedIn(row') /\ (loose'.moved = {} => NoCircle(row'))
<1>1. TypeOK' /\ TreeShaped' /\ Acyclic' /\ Rooted'
  BY DEF Grown, IInv
<1> QED BY <1>1 DEF TypeOK, TreeShaped, Acyclic, Rooted, RootedIn, NoCircle

LEMMA Phases ==
  /\ \A q \in Query : q.phase \in {"rows", "entries"}
  /\ \A q \in Broken : q.phase = "endless"
  /\ NotAsking.phase = "idle"
BY DEF Query, Broken, NotAsking

\* A request that begins sees what is.
LEMMA AskInv ==
  ASSUME Grown, ReaderInv, NEW kind \in {"check", "filter", "list"}, NEW x \in Watched, NEW todo \in Todos,
         Len(todo) = 2, Ask(kind, x, todo)
  PROVE  ReaderInv'
<1>1. row' = row /\ entry' = entry /\ loose' = loose /\ entry \in Entries
  BY DEF Ask, vars, ReaderInv
<1>2. PICK q : q = [phase |-> "rows", kind |-> kind, of |-> x, next |-> x, path |-> <<>>,
                looped |-> FALSE, found |-> [s \in Sources |-> "unset"], todo |-> todo,
                possible |-> {Allowed(x)}, shown |-> [f \in Shared |-> {InShare(x, f)}], changes |-> 0,
                hung |-> Reachable(x), knotted |-> loose.moved # {}]
  OBVIOUS
<1>3. reader' = q
  BY <1>2 DEF Ask
<1>4. q \in Query
  <2>1. x \in Parents /\ x \in Resources
    BY AccessAssumption DEF Parents
  <2>2. <<>> \in Seq(Resources) /\ [s \in Sources |-> "unset"] \in [Sources -> Entry]
    BY EmptySeq DEF Entry
  <2>3. Allowed(x) \in BOOLEAN /\ Reachable(x) \in BOOLEAN /\ \A f \in Shared : InShare(x, f) \in BOOLEAN
    BY DEF Allowed, Reachable, InShare
  <2> QED BY <1>2, <2>1, <2>2, <2>3 DEF Query
<1>5. /\ q.phase = "rows" /\ q.kind = kind /\ q.of = x /\ q.next = x /\ q.path = <<>> /\ ~q.looped
      /\ q.found = [s \in Sources |-> "unset"] /\ q.todo = todo /\ q.possible = {Allowed(x)}
      /\ q.shown = [f \in Shared |-> {InShare(x, f)}] /\ q.changes = 0 /\ q.hung = Reachable(x)
      /\ q.knotted = (loose.moved # {})
  BY <1>2
<1>6. row \in [Resources -> Row] /\ RootedIn(row) /\ x \in Resources
  BY GrownTree, AccessAssumption
<1>7. Len(q.path) = 0 /\ q.path = <<>> /\ Leads(row, q.path, q.of, q.next)
  BY <1>5, EmptySeq DEF Leads
<1>8. q.found["global"] = "unset" /\ Nearest(entry["global"], q.path) = "unset"
  <2>1. entry["global"] \in [Resources -> Entry]
    BY <1>1 DEF Entries, Sources
  <2>2. Nearest(entry["global"], <<>>) = "unset"
    BY <2>1, NearestShort
  <2> QED BY <1>5, <2>2 DEF Sources
<1>9. /\ Foreseen(row, entry, q) <=> AllowedIn(row, entry, q.of)
      /\ \A f : ShownAhead(row, q, f) <=> ReachIn(row, q.of) /\ f \in ChainIn(row, q.of)
  BY <1>1, <1>4, <1>6, <1>7, <1>8, FreshForeseen
<1>10. /\ Allowed(x) = AllowedIn(row, entry, x) /\ Reachable(x) = ReachIn(row, x)
       /\ \A f : InShare(x, f) = (ReachIn(row, x) /\ f \in ChainIn(row, x))
  <2>1. Chain(x) = ChainIn(row, x) /\ (Reachable(x) <=> ReachIn(row, x)) /\ (Allowed(x) <=> AllowedIn(row, entry, x))
    BY AsIn
  <2> QED BY <2>1 DEF InShare, Allowed, AllowedIn, Reachable, ReachIn
<1>11. RowsFresh(row, entry, q)
  BY <1>5, <1>7, <1>8, <1>10 DEF RowsFresh
<1>12. Foreseen(row, entry, q) = Allowed(x)
  BY <1>5, <1>9, <1>10 DEF Foreseen, AllowedIn
<1>13. ASSUME NEW f \in Shared PROVE ShownAhead(row, q, f) \in q.shown[f]
  <2>1. ShownAhead(row, q, f) = InShare(x, f)
    BY <1>5, <1>9, <1>10 DEF ShownAhead
  <2> QED BY <1>5, <2>1
<1>14. q.hung => Ends(row, q.next)
  BY <1>5, <1>10 DEF Ends
<1>15. RowsSound(row, entry, q)
  BY <1>5, <1>7, <1>8, <1>11, <1>12, <1>13, <1>14 DEF RowsSound
<1>16. QuerySound(row, entry, q) /\ (QueryFollowed(q) => loose.moved = {})
  BY <1>5, <1>15 DEF QuerySound, QueryFollowed
<1>17. q \notin Broken
  BY <1>5 DEF Broken
<1> QED BY <1>1, <1>3, <1>4, <1>16, <1>17 DEF ReaderInv

LEMMA ReadRowInv ==
  ASSUME Grown, ReaderInv, ReadRow
  PROVE  ReaderInv'
<1>1. row' = row /\ entry' = entry /\ loose' = loose /\ entry \in Entries
  BY DEF ReadRow, vars, ReaderInv
<1>2. PICK q : q = reader
  OBVIOUS
<1>3. q.phase = "rows" /\ q.kind # "list" /\ ~Refused
  BY <1>2 DEF ReadRow
<1>4. q \in Query /\ q \notin Broken
  BY <1>2, <1>3, Phases DEF ReaderInv
<1>5. QuerySound(row, entry, q) /\ (QueryFollowed(q) => loose.moved = {})
  BY <1>2, <1>4 DEF ReaderInv
<1>6. /\ q.of \in Resources /\ q.next \in Parents /\ (q.next # None => q.next \in Resources)
      /\ q.path \in Seq(Resources) /\ q.found \in [Sources -> Entry] /\ q.kind \in {"check", "filter", "list"}
  BY <1>4, QueryFields
<1>7. row \in [Resources -> Row] /\ RootedIn(row) /\ (loose.moved = {} => NoCircle(row))
  BY GrownTree
<1>8. QueryFollowed(q) => RowsSound(row, entry, q)
  BY <1>3, <1>5 DEF QuerySound
<1>9. SUFFICES \E r \in Query :
         /\ reader' = r /\ r.changes = q.changes /\ r.knotted = q.knotted
         /\ QueryFollowed(q) => \/ r.phase = "rows" /\ RowsSound(row, entry, r)
                                \/ r.phase = "entries" /\ EntriesSound(row, entry, r)
  <2>1. PICK r \in Query :
         /\ reader' = r /\ r.changes = q.changes /\ r.knotted = q.knotted
         /\ QueryFollowed(q) => \/ r.phase = "rows" /\ RowsSound(row, entry, r)
                                \/ r.phase = "entries" /\ EntriesSound(row, entry, r)
    BY <1>9
  <2>2. QueryFollowed(r) <=> QueryFollowed(q)
    BY <2>1 DEF QueryFollowed
  <2>3. QuerySound(row, entry, r) /\ (QueryFollowed(r) => loose.moved = {})
    BY <1>5, <2>1, <2>2 DEF QuerySound
  <2>4. r \notin Broken
    BY Phases
  <2> QED BY <1>1, <2>1, <2>3, <2>4 DEF ReaderInv
<1>10. CASE q.next = None
  <2>1. PICK r : r = [q EXCEPT !.phase = "entries", !.next = None, !.looped = FALSE]
    OBVIOUS
  <2>2. reader' = r
    BY <1>2, <1>10, <2>1 DEF ReadRow, Walked
  <2>3. r \in Query /\ r.changes = q.changes /\ r.knotted = q.knotted /\ r.phase = "entries"
    BY <1>4, <2>1 DEF Query, Parents
  <2>4. QueryFollowed(q) => EntriesSound(row, entry, r)
    BY <1>1, <1>4, <1>7, <1>8, <1>10, <2>1, WalkEnds
  <2> QED BY <2>2, <2>3, <2>4
<1>11. CASE q.next # None /\ q.next \in Range(q.path)
  <2>1. PICK r : r = [q EXCEPT !.phase = "entries", !.next = None, !.looped = TRUE]
    OBVIOUS
  <2>2. reader' = r
    BY <1>2, <1>11, <2>1 DEF ReadRow, Walked
  <2>3. r \in Query /\ r.changes = q.changes /\ r.knotted = q.knotted /\ r.phase = "entries"
    BY <1>4, <2>1 DEF Query, Parents
  <2>4. ~QueryFollowed(q)
    <3>1. SUFFICES ASSUME RowsSound(row, entry, q) PROVE FALSE
      BY <1>8
    <3>2. \A k \in 1..Len(q.path) : q.path[k] \notin ChainIn(row, q.next)
      BY <1>11, <3>1 DEF RowsSound
    <3>3. q.next \in ChainIn(row, q.next)
      BY <1>6, <1>7, <1>11, ChainInClosed
    <3>4. \E k \in 1..Len(q.path) : q.path[k] = q.next
      BY <1>6, <1>11, LenProperties DEF Range
    <3> QED BY <3>2, <3>3, <3>4
  <2> QED BY <2>2, <2>3, <2>4
<1>12. CASE q.next # None /\ q.next \notin Range(q.path) /\ Missing(q.next)
  <2>1. PICK r : r = [q EXCEPT !.phase = "entries", !.next = None, !.looped = FALSE]
    OBVIOUS
  <2>2. reader' = r
    <3>1. (q.next \in Range(q.path)) = FALSE
      BY <1>12
    <3>2. Walked(q.next \in Range(q.path))
      BY <1>2, <1>12 DEF ReadRow
    <3> QED BY <1>2, <2>1, <3>1, <3>2 DEF Walked
  <2>3. r \in Query /\ r.changes = q.changes /\ r.knotted = q.knotted /\ r.phase = "entries"
    BY <1>4, <2>1 DEF Query, Parents
  <2>4. q.kind = "filter"
    BY <1>2, <1>3, <1>6, <1>12 DEF Refused
  <2>5. row[q.next].state # "live"
    BY <1>12 DEF Missing, Live
  <2>6. QueryFollowed(q) => EntriesSound(row, entry, r)
    BY <1>1, <1>4, <1>7, <1>8, <1>12, <2>1, <2>4, <2>5, WalkBreaks
  <2> QED BY <2>2, <2>3, <2>6
<1>13. CASE q.next # None /\ q.next \notin Range(q.path) /\ ~Missing(q.next)
  <2>1. PICK x \in Resources : x = q.next
    BY <1>6, <1>13
  <2>2. PICK r : r = [q EXCEPT !.next = row[x].parent, !.path = Append(@, x),
                         !.found.global = IF @ = "unset" THEN entry.global[x] ELSE @]
    OBVIOUS
  <2>3. reader' = r
    BY <1>2, <1>13, <2>1, <2>2 DEF ReadRow
  <2>4. row[x].state = "live" /\ row[x].parent \in Parents /\ Append(q.path, x) \in Seq(Resources)
    BY <1>6, <1>7, <1>13, <2>1, AppendProperties DEF Missing, Live, Row
  <2>5. entry["global"][x] \in Entry /\ "global" \in Sources
    BY <1>1 DEF Entries, Sources
  <2>6. PICK g : g = [q.found EXCEPT !["global"] = IF @ = "unset" THEN entry["global"][x] ELSE @]
    OBVIOUS
  <2>7. g \in [Sources -> Entry]
    BY <1>6, <2>5, <2>6
  <2>8. r = [q EXCEPT !.next = row[x].parent, !.path = Append(q.path, x), !.found = g]
    BY <1>4, <2>2, <2>6 DEF Query
  <2>9. /\ r \in Query /\ r.kind = q.kind /\ r.of = q.of /\ r.path = Append(q.path, x) /\ r.next = row[x].parent
        /\ r.found = g /\ r.looped = q.looped /\ r.todo = q.todo /\ r.changes = q.changes
        /\ r.possible = q.possible /\ r.shown = q.shown /\ r.hung = q.hung /\ r.knotted = q.knotted
        /\ r.phase = "rows"
    BY <1>3, <1>4, <2>4, <2>7, <2>8 DEF Query
  <2>10. ASSUME QueryFollowed(q) PROVE RowsSound(row, entry, r)
    <3>1. NoCircle(row) /\ RowsSound(row, entry, q)
      BY <1>5, <1>7, <1>8, <2>10
    <3> QED BY <1>1, <1>3, <1>4, <1>7, <2>1, <2>4, <2>6, <2>9, <3>1, WalkGoesOn
  <2> QED BY <2>3, <2>9, <2>10
<1> QED BY <1>10, <1>11, <1>12, <1>13

LEMMA ReadRowsInv ==
  ASSUME Grown, ReaderInv, ReadRows
  PROVE  ReaderInv'
<1>1. row' = row /\ entry' = entry /\ loose' = loose /\ entry \in Entries
  BY DEF ReadRows, vars, ReaderInv
<1>2. PICK q : q = reader
  OBVIOUS
<1>3. q.phase = "rows" /\ q.kind = "list" /\ ~Refused
  BY <1>2 DEF ReadRows
<1>4. q \in Query
  BY <1>2, <1>3, Phases DEF ReaderInv
<1>5. QuerySound(row, entry, q) /\ (QueryFollowed(q) => loose.moved = {})
  BY <1>2, <1>4 DEF ReaderInv
<1>6. q.of \in Resources /\ q.found \in [Sources -> Entry]
  BY <1>4, QueryFields
<1>7. row \in [Resources -> Row] /\ RootedIn(row)
  BY GrownTree
<1>8. ReachIn(row, q.of) /\ WayUp(q.of) = WayIn(row, q.of)
  <2>1. Reachable(reader.of)
    BY <1>2, <1>3 DEF Refused
  <2> QED BY <1>2, <2>1, AsIn
<1>9. PICK way : way = WayIn(row, q.of)
  OBVIOUS
<1>10. way \in Seq(Resources)
  BY <1>6, <1>7, <1>8, <1>9, WayUpwards DEF RootedIn, IsWay
<1>11. PICK n : n = Nearest(entry["global"], way)
  OBVIOUS
<1>12. n \in Entry
  <2>1. entry["global"] \in [Resources -> Entry]
    BY <1>1 DEF Entries, Sources
  <2> QED BY <1>10, <1>11, <2>1, NearestIn
<1>13. PICK r : r = [q EXCEPT !.phase = "entries", !.next = None, !.path = way, !.found.global = n]
  OBVIOUS
<1>14. reader' = r
  BY <1>2, <1>8, <1>9, <1>11, <1>13 DEF ReadRows
<1>15. PICK g : g = [q.found EXCEPT !["global"] = n]
  OBVIOUS
<1>16. g \in [Sources -> Entry]
  BY <1>6, <1>12, <1>15
<1>17. r = [q EXCEPT !.phase = "entries", !.next = None, !.path = way, !.found = g]
  BY <1>4, <1>13, <1>15 DEF Query
<1>18. /\ r \in Query /\ r.kind = q.kind /\ r.of = q.of /\ r.path = way /\ r.looped = q.looped /\ r.todo = q.todo
       /\ r.found = g /\ r.changes = q.changes /\ r.possible = q.possible /\ r.shown = q.shown /\ r.hung = q.hung
       /\ r.knotted = q.knotted /\ r.phase = "entries"
  BY <1>4, <1>10, <1>16, <1>17 DEF Query, Parents
<1>19. QueryFollowed(q) => EntriesSound(row, entry, r)
  <2>1. SUFFICES ASSUME RowsSound(row, entry, q) PROVE EntriesSound(row, entry, r)
    BY <1>3, <1>5 DEF QuerySound
  <2>2. /\ r.path = WayIn(row, q.of)
        /\ r.found = [q.found EXCEPT !["global"] = Nearest(entry["global"], WayIn(row, q.of))]
    BY <1>9, <1>11, <1>15, <1>18
  <2> QED BY <1>1, <1>3, <1>4, <1>7, <1>8, <1>18, <2>1, <2>2, ListRead
<1>20. QuerySound(row, entry, r) /\ (QueryFollowed(r) => loose.moved = {})
  BY <1>5, <1>18, <1>19 DEF QuerySound, QueryFollowed
<1>21. r \notin Broken
  BY <1>18, Phases
<1> QED BY <1>1, <1>14, <1>18, <1>20, <1>21 DEF ReaderInv

LEMMA ReadEntriesInv ==
  ASSUME Grown, ReaderInv, ReadEntries
  PROVE  ReaderInv'
<1>1. row' = row /\ entry' = entry /\ loose' = loose /\ entry \in Entries
  BY DEF ReadEntries, vars, ReaderInv
<1>2. PICK q : q = reader
  OBVIOUS
<1>3. q.phase = "entries"
  BY <1>2 DEF ReadEntries
<1>4. q \in Query
  BY <1>2, <1>3, Phases DEF ReaderInv
<1>5. QuerySound(row, entry, q) /\ (QueryFollowed(q) => loose.moved = {})
  BY <1>2, <1>4 DEF ReaderInv
<1>6. q.path \in Seq(Resources) /\ q.found \in [Sources -> Entry] /\ q.todo \in Todos
      /\ q.changes \in {0, 1, 2} /\ q.knotted \in BOOLEAN
  BY <1>4, QueryFields
<1>7. QueryFollowed(q) => EntriesSound(row, entry, q)
  BY <1>3, <1>5 DEF QuerySound
<1>8. CASE Len(q.todo) > 1 /\ reader' = [reader EXCEPT !.found = Found, !.todo = Tail(@)]
  <2>1. Len(q.todo) = 2
    <3>1. PICK n : n = Len(q.todo)
      OBVIOUS
    <3>2. n \in {1, 2}
      BY <1>6, <3>1, TodoParts
    <3>3. n > 1
      BY <1>8, <3>1
    <3>4. n = 2
      BY <3>2, <3>3
    <3> QED BY <3>1, <3>4
  <2>2. Head(q.todo) \in Sources /\ Tail(q.todo) \in Todos
    BY <1>6, <2>1, TodoParts
  <2>3. PICK g : g = [q.found EXCEPT ![Head(q.todo)] = Nearest(entry[Head(q.todo)], q.path)]
    OBVIOUS
  <2>4. Found = g
    BY <1>2, <2>3 DEF Found
  <2>5. g \in [Sources -> Entry]
    <3>1. entry[Head(q.todo)] \in [Resources -> Entry]
      BY <1>1, <2>2 DEF Entries
    <3>2. Nearest(entry[Head(q.todo)], q.path) \in Entry
      BY <1>6, <3>1, NearestIn
    <3> QED BY <1>6, <2>2, <2>3, <3>2
  <2>6. PICK r : r = [q EXCEPT !.found = g, !.todo = Tail(q.todo)]
    OBVIOUS
  <2>7. reader' = r
    BY <1>2, <1>8, <2>4, <2>6
  <2>8. /\ r \in Query /\ r.kind = q.kind /\ r.of = q.of /\ r.path = q.path /\ r.looped = q.looped
        /\ r.todo = Tail(q.todo) /\ r.found = g /\ r.changes = q.changes /\ r.possible = q.possible
        /\ r.shown = q.shown /\ r.hung = q.hung /\ r.knotted = q.knotted /\ r.phase = "entries"
    BY <1>3, <1>4, <2>2, <2>5, <2>6 DEF Query
  <2>9. QueryFollowed(q) => EntriesSound(row, entry, r)
    BY <1>4, <1>7, <1>8, <2>3, <2>8, TableRead
  <2>10. QuerySound(row, entry, r) /\ (QueryFollowed(r) => loose.moved = {})
    BY <1>5, <2>8, <2>9 DEF QuerySound, QueryFollowed
  <2>11. r \notin Broken
    BY <2>8, Phases
  <2> QED BY <1>1, <2>7, <2>8, <2>10, <2>11 DEF ReaderInv
<1>9. CASE Len(q.todo) = 1 /\ Endless /\ reader' = [phase |-> "endless", changes |-> reader.changes, knotted |-> reader.knotted]
  <2>1. ~QueryFollowed(q)
    BY <1>2, <1>7, <1>9 DEF Endless, EntriesSound
  <2>2. PICK b : b = [phase |-> "endless", changes |-> q.changes, knotted |-> q.knotted]
    OBVIOUS
  <2>3. reader' = b /\ b \in Broken /\ b.changes = q.changes /\ b.knotted = q.knotted /\ b.phase = "endless"
    BY <1>2, <1>6, <1>9, <2>2 DEF Broken
  <2>4. b \notin Query /\ ~QueryFollowed(b)
    BY <2>1, <2>3, Phases DEF QueryFollowed
  <2> QED BY <1>1, <2>3, <2>4 DEF ReaderInv
<1> QED BY <1>2, <1>8, <1>9 DEF ReadEntries

LEMMA IdleInv ==
  ASSUME ReaderInv, row' = row, entry' = entry, loose' = loose, reader' \in {reader, NotAsking}
  PROVE  ReaderInv'
<1>1. CASE reader' = reader
  BY <1>1 DEF ReaderInv
<1>2. CASE reader' = NotAsking
  <2>1. NotAsking \notin Query /\ NotAsking \notin Broken
    BY Phases
  <2> QED BY <1>2, <2>1 DEF ReaderInv
<1> QED BY <1>1, <1>2

\* What a commit makes of a request that asks.
LEMMA OvertakeFields ==
  ASSUME NEW q \in Query, q = reader, Overtake
  PROVE  \E r \in Query :
           /\ reader' = r /\ r.phase = q.phase
           /\ q.changes # 0 => r.changes = 2
           /\ q.changes = 0 => /\ Overtook(row', entry', q, r)
                               /\ r.knotted <=> q.knotted \/ loose'.moved # {}
<1>1. /\ q.of \in Resources /\ q.changes \in {0, 1, 2} /\ q.hung \in BOOLEAN /\ q.knotted \in BOOLEAN
      /\ q.possible \in SUBSET BOOLEAN /\ q.shown \in [Shared -> SUBSET BOOLEAN]
  BY QueryFields
<1>2. Asking
  BY Phases DEF Asking
<1>3. CASE q.changes # 0
  <2>1. PICK r : r = [q EXCEPT !.changes = 2, !.possible = BOOLEAN, !.shown = [f \in Shared |-> BOOLEAN], !.hung = FALSE]
    OBVIOUS
  <2>2. reader' = r
    BY <1>2, <1>3, <2>1 DEF Overtake
  <2>3. [f \in Shared |-> BOOLEAN] \in [Shared -> SUBSET BOOLEAN]
    OBVIOUS
  <2>4. r \in Query /\ r.phase = q.phase /\ r.changes = 2
    BY <2>1, <2>3 DEF Query
  <2> QED BY <1>3, <2>2, <2>4
<1>4. CASE q.changes = 0
  <2>1. PICK x \in Watched :
          /\ x = reader.of
          /\ reader' = [reader EXCEPT !.changes = 1, !.possible = @ \union {Allowed(x)'},
                                      !.shown = [f \in Shared |-> @[f] \union {InShare(x, f)'}],
                                      !.hung = @ /\ Reachable(x)', !.knotted = @ \/ loose'.moved # {}]
    BY <1>2, <1>4 DEF Overtake
  <2>2. /\ Allowed(x)' = AllowedIn(row', entry', x) /\ Reachable(x)' = ReachIn(row', x)
        /\ \A f : InShare(x, f)' = (ReachIn(row', x) /\ f \in ChainIn(row', x))
    <3>1. /\ Chain(x)' = ChainIn(row', x) /\ (Reachable(x)' <=> ReachIn(row', x))
          /\ (Allowed(x)' <=> AllowedIn(row', entry', x))
      BY AsInNext
    <3> QED BY <3>1 DEF InShare, Allowed, AllowedIn, Reachable, ReachIn
  <2>3. PICK a, s, u, k :
          /\ a = q.possible \union {AllowedIn(row', entry', x)}
          /\ s = [f \in Shared |-> q.shown[f] \union {ReachIn(row', x) /\ f \in ChainIn(row', x)}]
          /\ u = (q.hung /\ ReachIn(row', x)) /\ k = (q.knotted \/ loose'.moved # {})
    OBVIOUS
  <2>4. reader' = [q EXCEPT !.changes = 1, !.possible = a, !.shown = s, !.hung = u, !.knotted = k]
    <3>1. a = q.possible \union {Allowed(x)'} /\ u = (q.hung /\ Reachable(x)')
      BY <2>2, <2>3
    <3>2. s = [f \in Shared |-> q.shown[f] \union {InShare(x, f)'}]
      BY <2>2, <2>3
    <3> QED BY <2>1, <2>3, <3>1, <3>2
  <2>5. a \in SUBSET BOOLEAN /\ s \in [Shared -> SUBSET BOOLEAN] /\ u \in BOOLEAN /\ k \in BOOLEAN
    <3>1. AllowedIn(row', entry', x) \in BOOLEAN /\ \A f : (ReachIn(row', x) /\ f \in ChainIn(row', x)) \in BOOLEAN
      BY DEF AllowedIn
    <3>2. ASSUME NEW f \in Shared
          PROVE  q.shown[f] \union {ReachIn(row', x) /\ f \in ChainIn(row', x)} \in SUBSET BOOLEAN
      BY <1>1, <3>1
    <3> QED BY <1>1, <2>3, <3>1, <3>2
  <2>6. PICK r : r = [q EXCEPT !.changes = 1, !.possible = a, !.shown = s, !.hung = u, !.knotted = k]
    OBVIOUS
  <2>7. /\ r \in Query /\ r.phase = q.phase /\ r.changes = 1 /\ r.possible = a /\ r.shown = s /\ r.hung = u
        /\ r.knotted = k /\ r.kind = q.kind /\ r.of = q.of /\ r.next = q.next /\ r.path = q.path
        /\ r.looped = q.looped /\ r.found = q.found /\ r.todo = q.todo
    BY <2>5, <2>6, ZenonT(40) DEF Query
  <2>8. Overtook(row', entry', q, r)
    <3>1. x = q.of
      BY <2>1
    <3>2. \A f \in Shared : r.shown[f] = q.shown[f] \union {ReachIn(row', q.of) /\ f \in ChainIn(row', q.of)}
      BY <2>3, <2>7, <3>1
    <3>3. r.possible = q.possible \union {AllowedIn(row', entry', q.of)}
      BY <2>3, <2>7, <3>1
    <3>4. r.hung <=> q.hung /\ ReachIn(row', q.of)
      BY <2>3, <2>7, <3>1
    <3> QED BY <2>7, <3>2, <3>3, <3>4 DEF Overtook
  <2>9. r.knotted <=> q.knotted \/ loose'.moved # {}
    BY <2>3, <2>7
  <2> QED BY <1>4, <2>4, <2>6, <2>7, <2>8, <2>9
<1> QED BY <1>3, <1>4

\* A commit to the tree or to the entries.
LEMMA OvertakeInv ==
  ASSUME ReaderInv, entry' \in Entries, Overtake,
         \A q \in Query, r \in Query :
           /\ q = reader /\ q.changes = 0 /\ ~q.knotted /\ loose'.moved = {} /\ Overtook(row', entry', q, r)
           => /\ RowsSound(row, entry, q) => RowsSound(row', entry', r)
              /\ EntriesSound(row, entry, q) => EntriesSound(row', entry', r)
  PROVE  ReaderInv'
<1>1. CASE reader \notin Query
  <2>1. ~Asking
    BY <1>1, Phases DEF ReaderInv, Asking
  <2>2. reader' = reader
    BY <2>1 DEF Overtake
  <2> QED BY <1>1, <2>2 DEF ReaderInv
<1>2. CASE reader \in Query
  <2>1. PICK q \in Query : q = reader
    BY <1>2
  <2>2. PICK r \in Query :
           /\ reader' = r /\ r.phase = q.phase
           /\ q.changes # 0 => r.changes = 2
           /\ q.changes = 0 => /\ Overtook(row', entry', q, r)
                               /\ r.knotted <=> q.knotted \/ loose'.moved # {}
    BY <2>1, OvertakeFields
  <2>3. r \notin Broken
    BY Phases
  <2>4. QuerySound(row', entry', r) /\ (QueryFollowed(r) => loose'.moved = {})
    <3>1. SUFFICES ASSUME QueryFollowed(r)
                   PROVE  /\ r.phase = "rows" => RowsSound(row', entry', r)
                          /\ r.phase = "entries" => EntriesSound(row', entry', r)
                          /\ loose'.moved = {}
      BY DEF QuerySound
    <3>2. r.changes # 2 /\ ~r.knotted
      BY <3>1 DEF QueryFollowed
    <3>3. q.changes = 0 /\ ~q.knotted /\ loose'.moved = {} /\ Overtook(row', entry', q, r)
      BY <2>2, <3>2
    <3>4. QueryFollowed(q) /\ QuerySound(row, entry, q)
      BY <2>1, <3>3 DEF QueryFollowed, ReaderInv
    <3>5. /\ q.phase = "rows" => RowsSound(row, entry, q)
          /\ q.phase = "entries" => EntriesSound(row, entry, q)
      BY <3>4 DEF QuerySound
    <3> QED BY <2>1, <2>2, <3>3, <3>5
  <2> QED BY <2>2, <2>3, <2>4 DEF ReaderInv
<1> QED BY <1>1, <1>2

LEMMA SetEntryInv ==
  ASSUME Grown, ReaderInv, NEW s0, NEW x0, NEW y, <<s0, x0, y>> \in Sources \X Resources \X Entry,
         SetEntry(s0, x0, y)
  PROVE  ReaderInv'
<1>1. /\ s0 \in Sources /\ x0 \in Resources /\ y \in Entry /\ entry \in Entries
      /\ entry' = [entry EXCEPT ![s0][x0] = y] /\ row' = row /\ loose' = loose /\ Overtake
  BY DEF SetEntry, vars, ReaderInv
<1>2. PICK d : d = entry'
  OBVIOUS
<1>3. /\ d \in Entries
      /\ \A s \in Sources, x \in Resources : d[s][x] # entry[s][x] => s = s0 /\ x = x0
      /\ \A s \in Sources : s # s0 => d[s] = entry[s]
  <2>1. PICK g : g = [entry[s0] EXCEPT ![x0] = y]
    OBVIOUS
  <2>2. entry[s0] \in [Resources -> Entry] /\ DOMAIN entry = Sources
    BY <1>1 DEF Entries
  <2>3. g \in [Resources -> Entry] /\ \A x \in Resources : x # x0 => g[x] = entry[s0][x]
    BY <1>1, <2>1, <2>2
  <2>4. d = [entry EXCEPT ![s0] = g]
    BY <1>1, <1>2, <2>1
  <2>5. d \in Entries /\ d[s0] = g /\ \A s \in Sources : s # s0 => d[s] = entry[s]
    BY <1>1, <2>3, <2>4 DEF Entries
  <2>6. \A s \in Sources, x \in Resources : d[s][x] # entry[s][x] => s = s0 /\ x = x0
    BY <2>3, <2>5
  <2> QED BY <2>5, <2>6
<1>4. row \in [Resources -> Row] /\ RootedIn(row)
  BY GrownTree
<1>5. ASSUME NEW q \in Query, NEW r \in Query,
             q = reader /\ q.changes = 0 /\ ~q.knotted /\ loose'.moved = {} /\ Overtook(row, d, q, r)
      PROVE  /\ RowsSound(row, entry, q) => RowsSound(row, d, r)
             /\ EntriesSound(row, entry, q) => EntriesSound(row, d, r)
  <2>1. ASSUME RowsSound(row, entry, q) PROVE RowsSound(row, d, r)
    <3>1. q.changes = 0 /\ Overtook(row, d, q, r)
      BY <1>5
    <3>2. PICK e \in Entries : e = entry
      BY <1>1
    <3>3. \A s \in Sources, x \in Resources : d[s][x] # e[s][x] => s = s0 /\ x = x0
      BY <1>3, <3>2
    <3>4. s0 \in Sources /\ x0 \in Resources /\ d \in Entries /\ RowsSound(row, e, q)
      BY <1>1, <1>3, <2>1, <3>2
    <3> QED BY <1>4, <3>1, <3>3, <3>4, RowsReset
  <2>2. ASSUME EntriesSound(row, entry, q) PROVE EntriesSound(row, d, r)
    BY <1>1, <1>3, <1>5, <2>2, EntriesReset
  <2> QED BY <2>1, <2>2
<1>6. \A q \in Query, r \in Query :
           /\ q = reader /\ q.changes = 0 /\ ~q.knotted /\ loose'.moved = {} /\ Overtook(row', entry', q, r)
           => /\ RowsSound(row, entry, q) => RowsSound(row', entry', r)
              /\ EntriesSound(row, entry, q) => EntriesSound(row', entry', r)
  BY <1>1, <1>2, <1>5
<1> QED BY <1>1, <1>2, <1>3, <1>6, OvertakeInv

LEMMA ChangeTreeInv ==
  ASSUME Grown, Grown', Still \/ Committed, ReaderInv, ChangeTree
  PROVE  ReaderInv'
<1>1. entry' = entry /\ entry \in Entries
  BY DEF ChangeTree, ReaderInv
<1>2. CASE Still
  <2>1. row' = row /\ loose' = loose /\ reader' = reader
    BY <1>2 DEF Still, ChangeTree
  <2> QED BY <1>1, <2>1, IdleInv
<1>3. CASE Committed
  <2>1. Overtake /\ (loose'.moved = {} => Flat(row, row'))
    BY <1>3 DEF Committed, ChangeTree
  <2>2. PICK v : v = row'
    OBVIOUS
  <2>3. /\ row \in [Resources -> Row] /\ RootedIn(row)
        /\ v \in [Resources -> Row] /\ RootedIn(v) /\ (loose'.moved = {} => NoCircle(v))
    BY <2>2, GrownTree, GrownTreeNext
  <2>4. ASSUME NEW q \in Query, NEW r \in Query,
               q = reader /\ q.changes = 0 /\ ~q.knotted /\ loose'.moved = {} /\ Overtook(v, entry, q, r)
        PROVE  /\ RowsSound(row, entry, q) => RowsSound(v, entry, r)
               /\ EntriesSound(row, entry, q) => EntriesSound(v, entry, r)
    <3>1. Flat(row, v) /\ NoCircle(v)
      BY <2>1, <2>2, <2>3, <2>4
    <3>2. ASSUME RowsSound(row, entry, q) PROVE RowsSound(v, entry, r)
      BY <1>1, <2>3, <2>4, <3>1, <3>2, RowsOvertaken
    <3>3. ASSUME EntriesSound(row, entry, q) PROVE EntriesSound(v, entry, r)
      BY <2>4, <3>3, EntriesOvertaken
    <3> QED BY <3>2, <3>3
  <2>5. \A q \in Query, r \in Query :
           /\ q = reader /\ q.changes = 0 /\ ~q.knotted /\ loose'.moved = {} /\ Overtook(row', entry', q, r)
           => /\ RowsSound(row, entry, q) => RowsSound(row', entry', r)
              /\ EntriesSound(row, entry, q) => EntriesSound(row', entry', r)
    BY <1>1, <2>2, <2>4
  <2> QED BY <1>1, <2>1, <2>5, OvertakeInv
<1> QED BY <1>2, <1>3

LEMMA StepReader == Grown /\ ReaderInv /\ [AccessNext]_accessVars => Grown' /\ ReaderInv'
<1> SUFFICES ASSUME Grown, ReaderInv, [AccessNext]_accessVars PROVE Grown' /\ ReaderInv'
  OBVIOUS
<1>1. [Next]_vars
  BY TreeStep DEF accessVars
<1>2. Grown' /\ (Still \/ Committed)
  BY <1>1, StepGrown
<1>3. CASE UNCHANGED accessVars
  <2>1. row' = row /\ entry' = entry /\ loose' = loose /\ reader' = reader
    BY <1>3 DEF accessVars, vars
  <2> QED BY <1>2, <2>1, IdleInv
<1>4. CASE ChangeTree
  BY <1>2, <1>4, ChangeTreeInv
<1>5. CASE \E c \in Changeable : SetEntry(c[1], c[2], c[3])
  <2>1. PICK c \in Changeable : SetEntry(c[1], c[2], c[3])
    BY <1>5
  <2>2. c \in Sources \X Resources \X Entry
    BY AccessAssumption
  <2>3. <<c[1], c[2], c[3]>> \in Sources \X Resources \X Entry
    BY <2>2
  <2>4. PICK s0, x0, y : s0 = c[1] /\ x0 = c[2] /\ y = c[3]
    OBVIOUS
  <2>5. SetEntry(s0, x0, y) /\ <<s0, x0, y>> \in Sources \X Resources \X Entry
    BY <2>1, <2>3, <2>4
  <2> QED BY <1>2, <2>5, SetEntryInv
<1>6. CASE \E x \in Watched : BeginCheck(x) \/ BeginFilter(x) \/ BeginList(x)
  <2>1. PICK x \in Watched : BeginCheck(x) \/ BeginFilter(x) \/ BeginList(x)
    BY <1>6
  <2>2. PICK t1, t2 : t1 = <<"user", "group">> /\ t2 = <<"group", "user">>
    OBVIOUS
  <2>3. t1 \in Todos /\ t2 \in Todos /\ Len(t1) = 2 /\ Len(t2) = 2
    BY <2>2 DEF Todos
  <2>4. Ask("check", x, t1) \/ Ask("filter", x, t2) \/ Ask("list", x, t2)
    BY <2>1, <2>2 DEF BeginCheck, BeginFilter, BeginList
  <2> QED BY <1>2, <2>3, <2>4, AskInv
<1>7. CASE ReadRow
  BY <1>2, <1>7, ReadRowInv
<1>8. CASE ReadRows
  BY <1>2, <1>8, ReadRowsInv
<1>9. CASE ReadEntries
  BY <1>2, <1>9, ReadEntriesInv
<1>10. CASE Answer
  <2>1. row' = row /\ entry' = entry /\ loose' = loose /\ reader' = NotAsking
    BY <1>10 DEF Answer, vars
  <2> QED BY <1>2, <2>1, IdleInv
<1> QED BY <1>3, <1>4, <1>5, <1>6, <1>7, <1>8, <1>9, <1>10 DEF AccessNext

LEMMA InitReader == AccessInit => Grown /\ ReaderInv
<1> SUFFICES ASSUME AccessInit PROVE Grown /\ ReaderInv
  OBVIOUS
<1>1. Grown
  BY InitGrown DEF AccessInit
<1>2. entry \in Entries /\ reader = NotAsking
  BY AccessAssumption DEF AccessInit, Entries
<1>3. NotAsking \notin Query /\ NotAsking \notin Broken
  BY Phases
<1> QED BY <1>1, <1>2, <1>3 DEF ReaderInv

\* What is refused would not have been allowed.
LEMMA RefusedSound ==
  ASSUME Grown, ReaderInv, Refused, Followed
  PROVE  /\ reader \in Query /\ reader.phase = "rows"
         /\ Entitled(reader) => /\ FALSE \in reader.possible
                                /\ \A f \in Shared : FALSE \in reader.shown[f]
<1>1. PICK q : q = reader
  OBVIOUS
<1>2. q.phase = "rows"
  BY <1>1 DEF Refused
<1>3. q \in Query /\ QueryFollowed(q)
  BY <1>1, <1>2, Phases DEF ReaderInv, Followed, QueryFollowed
<1>4. RowsSound(row, entry, q)
  BY <1>1, <1>2, <1>3 DEF ReaderInv, QuerySound
<1>5. row \in [Resources -> Row]
  BY GrownTree
<1>6. ~Ends(row, q.next)
  <2>1. CASE q.kind = "list"
    <3>1. ~ReachIn(row, q.of)
      BY <1>1, <2>1, AsIn DEF Refused
    <3>2. q.next = q.of /\ q.of \in Resources
      BY <1>3, <1>4, <2>1, RowsFields
    <3> QED BY <3>1, <3>2, RootAssumption DEF Ends
  <2>2. CASE q.kind # "list"
    <3>1. /\ q.next # None
          /\ q.next \in Range(q.path) \/ Missing(q.next)
      BY <1>1, <2>2 DEF Refused
    <3>2. q.next \in Resources /\ q.path \in Seq(Resources)
      BY <1>3, <3>1, QueryFields
    <3>3. q.next \in ChainIn(row, q.next)
      BY <1>5, <3>2, ChainInClosed
    <3>4. q.next \notin Range(q.path)
      <4>1. \A k \in 1..Len(q.path) : q.path[k] \notin ChainIn(row, q.next)
        BY <1>4, <3>1 DEF RowsSound
      <4> QED BY <3>2, <3>3, <4>1, LenProperties DEF Range
    <3>5. row[q.next].state # "live"
      BY <3>1, <3>4 DEF Missing, Live
    <3> QED BY <3>1, <3>3, <3>5 DEF Ends, ReachIn
  <2> QED BY <2>1, <2>2
<1>7. Foreseen(row, entry, q) = FALSE /\ \A f : ShownAhead(row, q, f) = FALSE
  BY <1>6 DEF Foreseen, ShownAhead
<1>8. Entitled(q) => FALSE \in q.possible /\ \A f \in Shared : FALSE \in q.shown[f]
  BY <1>4, <1>7 DEF RowsSound
<1> QED BY <1>1, <1>2, <1>3, <1>8

LEMMA ServedNow == Grown /\ ReaderInv => ReadersServed
<1> SUFFICES ASSUME Grown, ReaderInv PROVE ReadersServed
  OBVIOUS
<1>1. Followed <=> QueryFollowed(reader)
  BY DEF Followed, QueryFollowed
<1>2. ASSUME reader.phase = "entries", Followed
      PROVE  reader \in Query /\ EntriesSound(row, entry, reader)
  <2>1. reader \in Query
    BY <1>2, Phases DEF ReaderInv
  <2> QED BY <1>1, <1>2, <2>1 DEF ReaderInv, QuerySound
<1>3. AnswersHold
  <2>1. SUFFICES ASSUME Refused \/ Decided, Followed, Entitled(reader) PROVE Verdict \in reader.possible
    BY DEF AnswersHold, Entitled
  <2>2. CASE Refused
    <3>1. FALSE \in reader.possible /\ reader.phase = "rows"
      BY <2>1, <2>2, RefusedSound
    <3>2. Verdict = FALSE
      BY <3>1 DEF Verdict, Decided
    <3> QED BY <3>1, <3>2
  <2>3. CASE Decided
    <3>1. reader.phase = "entries" /\ Len(reader.todo) = 1
      BY <2>3 DEF Decided
    <3>2. reader \in Query /\ EntriesSound(row, entry, reader)
      BY <1>2, <2>1, <3>1
    <3>3. reader.todo \in Todos /\ reader.found \in [Sources -> Entry]
      BY <3>2, QueryFields
    <3>4. Range(reader.todo) = {Head(reader.todo)} /\ Head(reader.todo) \in Sources
      BY <3>1, <3>3, TodoParts
    <3>5. Found = Telling(entry, reader)
      <4>1. PICK s0 \in Sources : s0 = Head(reader.todo)
        BY <3>4
      <4>2. Found = [reader.found EXCEPT ![s0] = Nearest(entry[s0], reader.path)]
        BY <4>1 DEF Found
      <4>3. Telling(entry, reader) =
              [s \in Sources |-> IF s \in {s0} THEN Nearest(entry[s], reader.path) ELSE reader.found[s]]
        BY <3>4, <4>1 DEF Telling
      <4> QED BY <3>3, <4>2, <4>3
    <3>6. Verdict = Allows(Telling(entry, reader))
      BY <2>3, <3>5 DEF Verdict, Allows
    <3> QED BY <2>1, <3>2, <3>6 DEF EntriesSound
  <2> QED BY <2>1, <2>2, <2>3
<1>4. ClimbEnds
  <2>1. SUFFICES ASSUME reader.phase = "endless" PROVE ~Followed
    BY DEF ClimbEnds
  <2>2. reader \in Broken
    BY <2>1, Phases DEF ReaderInv
  <2> QED BY <1>1, <2>2 DEF ReaderInv
<1>5. SharesHold
  <2>1. SUFFICES ASSUME WalkOver \/ (Refused /\ reader.kind # "list"), Followed, Entitled(reader), NEW f \in Shared
                 PROVE  (WalkOver /\ Includes(reader.path, f)) \in reader.shown[f]
    BY DEF SharesHold, Entitled
  <2>2. CASE WalkOver
    <3>1. reader.phase = "entries" /\ reader.kind # "list"
      BY <2>2 DEF WalkOver
    <3>2. EntriesSound(row, entry, reader)
      BY <1>2, <2>1, <3>1
    <3>3. (WalkOver /\ Includes(reader.path, f)) = (f \in Range(reader.path))
      BY <2>2 DEF Includes
    <3> QED BY <2>1, <3>1, <3>2, <3>3 DEF EntriesSound
  <2>3. CASE Refused
    <3>1. FALSE \in reader.shown[f] /\ reader.phase = "rows"
      BY <2>1, <2>3, RefusedSound
    <3>2. (WalkOver /\ Includes(reader.path, f)) = FALSE
      BY <3>1 DEF WalkOver
    <3> QED BY <3>1, <3>2
  <2> QED BY <2>1, <2>2, <2>3
<1>6. PathEnds
  <2>1. SUFFICES ASSUME PathEndless, Followed PROVE FALSE
    BY DEF PathEnds
  <2>2. reader.phase = "entries" /\ reader.looped
    BY <2>1 DEF PathEndless, WalkOver
  <2> QED BY <1>2, <2>1, <2>2 DEF EntriesSound
<1> QED BY <1>3, <1>4, <1>5, <1>6 DEF ReadersServed

\* Whoever asks what they may see, row by row or in a listing, gets an answer
\* that was right at some moment of the request, for any tree, entries and
\* requests: at most one commit fell into it, and all rows stood where their
\* place had been checked (getCurrentPermissions, permissionFilter,
\* getAndValidateResource).
THEOREM ReadersAlwaysServed == AccessSpec => []ReadersServed
BY InitReader, StepReader, ServedNow, PTL DEF AccessSpec
===============================================================================
