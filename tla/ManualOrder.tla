----------------------------- MODULE ManualOrder ------------------------------
(* The order that users give the resources of a folder by hand               *)
(* (src/src/namespace-resources/resource-sorting.service.ts and              *)
(* src/src/resources/resource-sort.ts): each has a rank, or none and comes   *)
(* after those that have, the latest last.  Folders below one root; who may  *)
(* edit or see what is left out but for this: an order names what its user   *)
(* sees, which may be less than all.                                         *)
EXTENDS Naturals, FiniteSets, Functions

CONSTANTS
  Books,      \* resources, as numbers above 0: the order of their ids
  Shelves,    \* folders
  Home,       \* the folder of the user, where restored resources go
  Lost,       \* a folder in the trash
  MaxSorts    \* bound: requests in all

ASSUME OrderAssumption ==
  /\ Books \subseteq Nat \ {0} /\ IsFiniteSet(Books)
  /\ {Home, Lost} \subseteq Shelves /\ Home # Lost /\ MaxSorts \in Nat

VARIABLES
  shelf,      \* [Books -> Shelves], parent_id
  trashed,    \* SUBSET Books, deleted_at
  rank,       \* [Books -> Nat], manual_sort_index, 0 for null
  since,      \* [Books -> Nat], manual_sort_unspecified_at, by its place among all
  sorting,    \* the request that holds the namespace row and its draft, or NoSort
  rescued,    \* SUBSET Books: restores about to put one below Home
  begun,      \* manual_sort_initialized_at of the root is set
  sorts,      \* requests so far
  asked,      \* history, [Shelves -> listings of Books]: the order last given
  loose       \* history, SUBSET Books: came with the rank of another folder

orderVars == <<shelf, trashed, rank, since, sorting, rescued, begun, sorts, asked, loose>>

NoSort == [at |-> "none"]
Live == Shelves \ {Lost}

\* The lists of a set, where one has x, and which of two comes first in it.
Orders(S) == Bijection(1..Cardinality(S), S)
Place(list, x) == CHOOSE i \in DOMAIN list : list[i] = x
Precedes(list, x, y) == \E i, j \in DOMAIN list : i < j /\ list[i] = x /\ list[j] = y

\* sortResources by hand, compareManual: by rank and id, then those without a
\* rank.
Above(x, y, ranks, last) ==
  \/ ranks[x] > 0 /\ ranks[y] = 0
  \/ ranks[x] > 0 /\ ranks[y] > 0 /\ (ranks[x] < ranks[y] \/ (ranks[x] = ranks[y] /\ x < y))
  \/ ranks[x] = 0 /\ ranks[y] = 0 /\ last[x] < last[y]

Inside(p, at) == {x \in Books \ trashed : at[x] = p}
Sorted(p, at, ranks, last) ==
  {list \in Orders(Inside(p, at)) :
     \A i, j \in DOMAIN list : i < j => Above(list[i], list[j], ranks, last)}

Latest(x) ==
  [y \in Books |-> IF y = x THEN Cardinality(Books) ELSE IF since[y] > since[x] THEN since[y] - 1 ELSE since[y]]

OrderInit ==
  /\ shelf \in [Books -> Shelves]
  /\ trashed = {}
  /\ rank = [x \in Books |-> IF shelf[x] = Lost THEN x ELSE 0]
  /\ since = [x \in Books |-> Cardinality({y \in Books : y <= x})]
  /\ sorting = NoSort /\ rescued = {} /\ begun = FALSE /\ sorts = 0
  /\ asked = [p \in Shelves |-> [i \in {} |-> 0]]
  /\ loose = {}

Asks == sorts < MaxSorts /\ sorts' = sorts + 1

\* A fault of Held: the rows that are sorted are not locked.
HeldNever(x) == FALSE

Held(x) == sorting # NoSort /\ x \in sorting.rows

Initialize ==
  /\ Asks /\ sorting = NoSort /\ begun' = TRUE
  /\ \E order \in [Live -> UNION {Orders(S) : S \in SUBSET Books}] :
       /\ \A p \in Live : order[p] \in Orders(Inside(p, shelf))
       /\ LET all == UNION {Range(order[p]) : p \in Live} IN
          /\ rank' = [x \in Books |-> IF x \in all THEN Place(order[shelf[x]], x) ELSE rank[x]]
          /\ loose' = loose \ all
       /\ asked' = [p \in Shelves |-> IF p \in Live THEN order[p] ELSE asked[p]]
  /\ UNCHANGED <<shelf, trashed, since, sorting, rescued>>

\* An order for the folders P begins: it takes the row of the namespace, and
\* first moves x to p unless x is 0; P has the folder it leaves and p then.
Begin(P, x, p) ==
  /\ Asks /\ sorting = NoSort /\ begun
  /\ x \in Books => x \notin trashed /\ {shelf[x], p} \subseteq P
  /\ sorting' = [at |-> "open", left |-> P, parents |-> P, mover |-> x, to |-> p, rows |-> {x} \intersect Books,
                 ranks |-> [b \in Books |-> 0], given |-> asked]
  /\ UNCHANGED <<shelf, trashed, rank, since, rescued, begun, asked, loose>>

\* What the transaction reads: its own writes, and what others have committed.
PlaceThen == [b \in Books |-> IF b = sorting.mover THEN sorting.to ELSE shelf[b]]
RankThen == [b \in Books |-> IF b \in sorting.rows THEN sorting.ranks[b] ELSE rank[b]]
LastThen == IF sorting.mover \in Books THEN Latest(sorting.mover) ELSE since

\* A fault of Merged: those that are named come first.
MergedFirst(seq, ids) ==
  LET unnamed(i) == seq[i] \notin Range(ids) IN
  [i \in DOMAIN seq |-> IF i \in DOMAIN ids THEN ids[i]
     ELSE seq[CHOOSE k \in DOMAIN seq : unnamed(k) /\ Cardinality({l \in 1..k : unnamed(l)}) = i - Cardinality(DOMAIN ids)]]

\* applyPartialManualOrder: those that are named take the places of those
\* that are named, one after the other, and nothing else moves.
Merged(seq, ids) ==
  [i \in DOMAIN seq |->
     IF seq[i] \in Range(ids) THEN ids[Cardinality({k \in 1..i : seq[k] \in Range(ids)})] ELSE seq[i]]

\* What it is for: the order of the named is the one they are named in, and
\* the others stand where they stood.
AsAsked(seq, ids) ==
  CHOOSE out \in Orders(Range(seq)) :
    /\ \A i \in DOMAIN seq : seq[i] \notin Range(ids) => out[i] = seq[i]
    /\ \A i, j \in DOMAIN ids : i < j => Precedes(out, ids[i], ids[j])

\* validateParentOrder locks the children of a folder, and writeIndexes
\* writes their ranks.
Sort(p) ==
  /\ sorting # NoSort /\ p \in sorting.left
  /\ \E seq \in Sorted(p, PlaceThen, RankThen, LastThen) : \E ids \in UNION {Orders(T) : T \in SUBSET Range(seq)} :
       sorting' = [sorting EXCEPT !.left = @ \ {p}, !.rows = @ \union Range(seq),
            !.given[p] = AsAsked(seq, ids),
            !.ranks = [b \in Books |-> IF b \in Range(seq) THEN Place(Merged(seq, ids), b) ELSE sorting.ranks[b]]]
  /\ UNCHANGED <<shelf, trashed, rank, since, rescued, begun, sorts, asked, loose>>

Commit ==
  /\ sorting # NoSort /\ sorting.left = {}
  /\ shelf' = PlaceThen /\ rank' = RankThen /\ since' = LastThen
  /\ asked' = [p \in Shelves |-> IF p \in sorting.parents THEN sorting.given[p] ELSE asked[p]]
  /\ loose' = loose \ sorting.rows
  /\ sorting' = NoSort
  /\ UNCHANGED <<trashed, rescued, begun, sorts>>

\* A name conflict, or an order that names what is not there or not seen.
Abort ==
  /\ sorting # NoSort /\ sorting' = NoSort
  /\ UNCHANGED <<shelf, trashed, rank, since, rescued, begun, sorts, asked, loose>>

\* It is somewhere else, or there again, and without a rank.
Settle(x, p) ==
  /\ shelf' = [shelf EXCEPT ![x] = p]
  /\ rank' = [rank EXCEPT ![x] = 0] /\ since' = Latest(x) /\ loose' = loose \ {x}

\* A move of one: updateResource; a batch moves one after the other, and not
\* while an order has the namespace.
MoveBook(x, p) ==
  /\ Asks /\ x \notin trashed /\ shelf[x] # Lost /\ ~Held(x) /\ Settle(x, p)
  /\ UNCHANGED <<trashed, sorting, rescued, begun, asked>>

TrashBook(x) ==
  /\ Asks /\ x \notin trashed /\ ~Held(x) /\ trashed' = trashed \union {x}
  /\ UNCHANGED <<shelf, rank, since, sorting, rescued, begun, asked, loose>>

RestoreBook(x) ==
  /\ Asks /\ x \in trashed /\ shelf[x] # Lost /\ Settle(x, shelf[x]) /\ trashed' = trashed \ {x}
  /\ UNCHANGED <<sorting, rescued, begun, asked>>

\* NamespaceResourcesService.restore finds the folder of x in the trash,
BeginRescue(x) ==
  /\ Asks /\ shelf[x] = Lost /\ rescued' = rescued \union {x}
  /\ UNCHANGED <<shelf, trashed, rank, since, sorting, begun, asked, loose>>

\* then puts it below Home, in the trash or not, and then restores it if it
\* is in the trash and its name is free.
Rescue(x) ==
  /\ x \in rescued /\ ~Held(x) /\ rescued' = rescued \ {x}
  /\ \/ x \in trashed /\ trashed' = trashed \ {x} /\ Settle(x, Home)
     \/ /\ shelf' = [shelf EXCEPT ![x] = Home]
        /\ loose' = IF rank[x] > 0 THEN loose \union {x} ELSE loose
        /\ UNCHANGED <<trashed, rank, since>>
  /\ UNCHANGED <<sorting, begun, sorts, asked>>

OrderNext ==
  \/ Initialize \/ Commit \/ Abort
  \/ \E P \in SUBSET Live : P # {} /\ (Begin(P, 0, Home) \/ \E x \in Books, p \in Live : Begin(P, x, p))
  \/ \E p \in Live : Sort(p)
  \/ \E x \in Books : TrashBook(x) \/ RestoreBook(x) \/ BeginRescue(x) \/ Rescue(x) \/ \E p \in Live : MoveBook(x, p)

OrderSpec == OrderInit /\ [][OrderNext]_orderVars

(* ------------------------------ Properties ------------------------------ *)

\* The order last given to a folder is the order of those of its resources
\* that have a rank: whoever named which of them, and whatever came, went or
\* was in the trash while it was given or since.  Except what the first write
\* of a restore puts below the user's root with the rank it had elsewhere
\* (resource-sorting.service.ts, resource-sort.ts, resources.service.ts).
OrderKept ==
  \A p \in Live :
    LET ranked == {x \in Inside(p, shelf) \ loose : rank[x] > 0} IN
    /\ ranked \subseteq Range(asked[p])
    /\ \A x, y \in ranked : Precedes(asked[p], x, y) <=> Above(x, y, rank, since)
===============================================================================
