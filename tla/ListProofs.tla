----------------------------- MODULE ListProofs -----------------------------
(***************************************************************************)
(* What the LIST macros do to a list that is linked in both directions, for*)
(* every set of elements.                                                  *)
(***************************************************************************)
EXTENDS List, TLAPS

\* Neither the null pointer nor the head is an element.
Pointers == NULL \notin Node /\ "lh_first" \notin Node

\* rank numbers the elements of S downwards along le_next, from lh_first to the
\* last: the list has no cycle and leaves no element out.
Sorts(l, S, rank) ==
  /\ \A e, f \in S : rank[e] = rank[f] => e = f
  /\ \A e \in S : l.lh_first # NULL /\ rank[e] <= rank[l.lh_first]
  /\ \A e, f \in S : rank[f] < rank[e] <=>
                       l.le_next[e] # NULL /\ rank[f] <= rank[l.le_next[e]]

Ordered(l, S) == \E rank \in [Node -> Int] : Sorts(l, S, rank)

\* The fields of a list after LIST_INSERT_HEAD.
LEMMA InsertFields ==
  ASSUME Pointers, NEW l \in LIST_HEAD, NEW e \in Node, l.lh_first # e
  PROVE  LET r == LIST_INSERT_HEAD(l, e)
         IN  /\ r \in LIST_HEAD
             /\ r.lh_first = e
             /\ r.le_next[e] = l.lh_first
             /\ \A f \in Node : f # e => r.le_next[f] = l.le_next[f]
             /\ r.le_prev[e] = "lh_first"
             /\ l.lh_first # NULL => r.le_prev[l.lh_first] = e
             /\ \A f \in Node : f # e /\ f # l.lh_first => r.le_prev[f] = l.le_prev[f]
BY DEF Pointers, LIST_HEAD, LIST_INSERT_HEAD, SetPrev

\* The fields of a list after LIST_REMOVE and free.
LEMMA RemoveFields ==
  ASSUME Pointers, NEW l \in LIST_HEAD, NEW e \in Node,
         l.le_prev[e] \in Node \cup {"lh_first"}
  PROVE  LET r == Free(LIST_REMOVE(l, e), e)
         IN  /\ r \in LIST_HEAD
             /\ r.lh_first = IF l.le_prev[e] = "lh_first" THEN l.le_next[e] ELSE l.lh_first
             /\ \A f \in Node : f # e =>
                  /\ r.le_next[f] = IF l.le_prev[e] = f THEN l.le_next[e] ELSE l.le_next[f]
                  /\ r.le_prev[f] = IF l.le_next[e] = f THEN l.le_prev[e] ELSE l.le_prev[f]
<1> DEFINE s == SetPrev(l, l.le_next[e], l.le_prev[e])
<1>1. /\ s \in LIST_HEAD /\ s.lh_first = l.lh_first /\ s.le_next = l.le_next
      /\ \A f \in Node : s.le_prev[f] = IF l.le_next[e] = f THEN l.le_prev[e] ELSE l.le_prev[f]
  BY DEF Pointers, LIST_HEAD, SetPrev
<1> DEFINE u == Store(s, l.le_prev[e], l.le_next[e])
<1> HIDE DEF s
<1>2. /\ u \in LIST_HEAD /\ u.le_prev = s.le_prev
      /\ u.lh_first = IF l.le_prev[e] = "lh_first" THEN l.le_next[e] ELSE l.lh_first
      /\ \A f \in Node :
           u.le_next[f] = IF l.le_prev[e] = f THEN l.le_next[e] ELSE l.le_next[f]
  BY <1>1 DEF Pointers, LIST_HEAD, Store
<1> HIDE DEF u
<1>3. LIST_REMOVE(l, e) = u
  BY DEF LIST_REMOVE, s, u
<1> QED
  BY <1>1, <1>2, <1>3 DEF LIST_HEAD, Free

\* accept adds an entry at the head: the list stays linked in both directions,
\* and the new entry can be removed like any other.
THEOREM InsertKeepsLinked ==
  ASSUME Pointers, NEW l \in LIST_HEAD, NEW S \in SUBSET Node, Linked(l, S),
         NEW e \in Node \ S
  PROVE  /\ LIST_INSERT_HEAD(l, e) \in LIST_HEAD
         /\ Linked(LIST_INSERT_HEAD(l, e), S \cup {e})
<1> DEFINE r == LIST_INSERT_HEAD(l, e)
           h == l.lh_first
<1>1. h \in S \cup {NULL} /\ h # e
  BY DEF Linked, Pointers
<1>2. /\ r \in LIST_HEAD /\ r.lh_first = e
      /\ r.le_next[e] = h /\ r.le_prev[e] = "lh_first"
      /\ h # NULL => r.le_prev[h] = e
      /\ \A f \in Node : f # e => r.le_next[f] = l.le_next[f]
      /\ \A f \in Node : f # e /\ f # h => r.le_prev[f] = l.le_prev[f]
  BY <1>1, InsertFields
<1> HIDE DEF r
<1>3. ASSUME NEW f \in S
      PROVE  /\ r.le_next[f] \in S \cup {NULL}
             /\ r.le_prev[f] \in S \cup {e}
             /\ Deref(r, r.le_prev[f]) = f
             /\ r.le_next[f] # NULL => r.le_prev[r.le_next[f]] = f
  <2>1. r.le_next[f] = l.le_next[f] /\ l.le_next[f] \in S \cup {NULL}
    BY <1>2 DEF Linked
  <2>2. CASE f = h
    BY <1>1, <1>2, <2>1, <2>2 DEF Linked, Deref, Pointers
  <2>3. CASE f # h
    BY <1>1, <1>2, <2>1, <2>3 DEF Linked, Deref, Pointers
  <2> QED
    BY <2>2, <2>3
<1>4. Deref(r, r.le_prev[e]) = e
  BY <1>2 DEF Deref
<1>5. Linked(r, S \cup {e})
  BY <1>1, <1>2, <1>3, <1>4 DEF Linked, Pointers
<1> QED
  BY <1>2, <1>5 DEF r

\* clean_threads unlinks and frees an entry anywhere in the list: the others stay
\* linked in both directions, and no pointer of the list leads to the freed one.
THEOREM RemoveKeepsLinked ==
  ASSUME Pointers, NEW l \in LIST_HEAD, NEW S \in SUBSET Node, Linked(l, S),
         NEW e \in S
  PROVE  /\ Free(LIST_REMOVE(l, e), e) \in LIST_HEAD
         /\ Linked(Free(LIST_REMOVE(l, e), e), S \ {e})
<1> DEFINE r == Free(LIST_REMOVE(l, e), e)
           p == l.le_prev[e]
           n == l.le_next[e]
<1>1. /\ p \in S \cup {"lh_first"} /\ n \in S \cup {NULL}
      /\ n # NULL => l.le_prev[n] = e
  BY DEF Linked
<1>2. /\ r \in LIST_HEAD
      /\ r.lh_first = IF p = "lh_first" THEN n ELSE l.lh_first
      /\ \A f \in Node : f # e => /\ r.le_next[f] = IF p = f THEN n ELSE l.le_next[f]
                                  /\ r.le_prev[f] = IF n = f THEN p ELSE l.le_prev[f]
  BY <1>1, RemoveFields
<1>3. \A f \in S : /\ l.le_next[f] = e => p = f
                   /\ l.le_prev[f] = e => n = f
  BY DEF Linked, Deref, Pointers
<1>4. l.lh_first = e => p = "lh_first"
  BY DEF Linked, Pointers
<1>5. p = "lh_first" => l.lh_first = e
  BY DEF Linked, Deref
<1> HIDE DEF r
<1>6. n = e <=> p = e
  BY <1>1, <1>3
<1>7. ASSUME NEW f \in S \ {e}
      PROVE  /\ r.le_next[f] \in (S \ {e}) \cup {NULL}
             /\ r.le_prev[f] \in (S \ {e}) \cup {"lh_first"}
             /\ Deref(r, r.le_prev[f]) = f
             /\ r.le_next[f] # NULL => r.le_prev[r.le_next[f]] = f
  <2>1. /\ f \in Node /\ l.le_next[f] \in S \cup {NULL}
        /\ l.le_prev[f] \in S \cup {"lh_first"}
        /\ Deref(l, l.le_prev[f]) = f
        /\ l.le_next[f] # NULL => l.le_prev[l.le_next[f]] = f
    BY DEF Linked
  <2>2. r.le_next[f] \in (S \ {e}) \cup {NULL}
    BY <1>1, <1>2, <1>3, <1>6, <2>1
  <2>3. r.le_prev[f] \in (S \ {e}) \cup {"lh_first"}
    BY <1>1, <1>2, <1>3, <1>6, <2>1
  <2>4. Deref(r, r.le_prev[f]) = f
    <3>1. CASE n = f
      BY <1>1, <1>2, <1>6, <2>1, <3>1 DEF Deref, Pointers
    <3>2. CASE n # f
      BY <1>1, <1>2, <1>3, <1>5, <2>1, <3>2 DEF Deref, Pointers, Linked
    <3> QED
      BY <3>1, <3>2
  <2>5. ASSUME r.le_next[f] # NULL PROVE r.le_prev[r.le_next[f]] = f
    <3>1. CASE p = f
      BY <1>1, <1>2, <1>6, <2>1, <2>5, <3>1
    <3>2. CASE p # f
      BY <1>1, <1>2, <1>3, <2>1, <2>5, <3>2
    <3> QED
      BY <3>1, <3>2
  <2> QED
    BY <2>2, <2>3, <2>4, <2>5
<1>8. r.lh_first \in (S \ {e}) \cup {NULL}
  BY <1>1, <1>2, <1>4, <1>6 DEF Linked, Pointers
<1>9. r.lh_first # NULL => r.le_prev[r.lh_first] = "lh_first"
  BY <1>1, <1>2, <1>4, <1>5, <1>8 DEF Linked, Pointers
<1> QED
  BY <1>2, <1>7, <1>8, <1>9 DEF Linked, r

-----------------------------------------------------------------------------
(* Linked alone allows a ring beside the list; the macros never make one.  *)

\* The new entry comes before all others, and LIST_FOREACH finds them behind it.
THEOREM InsertKeepsOrdered ==
  ASSUME Pointers, NEW l \in LIST_HEAD, NEW S \in SUBSET Node, Linked(l, S),
         NEW e \in Node \ S, Ordered(l, S)
  PROVE  Ordered(LIST_INSERT_HEAD(l, e), S \cup {e})
<1> DEFINE r == LIST_INSERT_HEAD(l, e)
           h == l.lh_first
<1>1. h \in S \cup {NULL} /\ h # e /\ \A f \in S : l.le_next[f] \in S \cup {NULL}
  BY DEF Linked, Pointers
<1>2. /\ r.lh_first = e /\ r.le_next[e] = h
      /\ \A f \in Node : f # e => r.le_next[f] = l.le_next[f]
  BY <1>1, InsertFields
<1> HIDE DEF r
<1>3. PICK rank \in [Node -> Int] : Sorts(l, S, rank)
  BY DEF Ordered
<1> DEFINE top   == IF h = NULL THEN 0 ELSE rank[h] + 1
           rank1 == [rank EXCEPT ![e] = top]
<1>4. top \in Int /\ \A f \in S : h # NULL /\ rank[f] <= rank[h] /\ rank[f] < top
  BY <1>1, <1>3 DEF Sorts
<1>5. rank1 \in [Node -> Int] /\ rank1[e] = top /\ \A f \in S : rank1[f] = rank[f]
  BY <1>3, <1>4
<1> HIDE DEF top, rank1
<1>6. \A f, g \in S \cup {e} : rank1[f] = rank1[g] => f = g
  BY <1>3, <1>4, <1>5 DEF Sorts
<1>7. \A f \in S \cup {e} : r.lh_first # NULL /\ rank1[f] <= rank1[r.lh_first]
  BY <1>2, <1>3, <1>4, <1>5 DEF Pointers
<1>8. ASSUME NEW f \in S \cup {e}, NEW g \in S \cup {e}
      PROVE  rank1[g] < rank1[f] <=>
               r.le_next[f] # NULL /\ rank1[g] <= rank1[r.le_next[f]]
  <2>1. CASE f = e
    BY <1>1, <1>2, <1>3, <1>4, <1>5, <2>1
  <2>2. CASE f # e /\ g = e
    BY <1>1, <1>2, <1>3, <1>4, <1>5, <2>2
  <2>3. CASE f # e /\ g # e
    <3>1. r.le_next[f] = l.le_next[f] /\ f \in S /\ g \in S
      BY <1>2, <2>3
    <3>2. l.le_next[f] # NULL => rank1[l.le_next[f]] = rank[l.le_next[f]]
      BY <1>1, <1>5, <3>1
    <3> QED
      BY <1>3, <1>5, <3>1, <3>2 DEF Sorts
  <2> QED
    BY <2>1, <2>2, <2>3
<1>9. Sorts(r, S \cup {e}, rank1)
  BY <1>6, <1>7, <1>8 DEF Sorts
<1> QED
  BY <1>5, <1>9 DEF Ordered, r

\* The entry before the removed one now leads to the one after it, and so to all
\* that are left.
THEOREM RemoveKeepsOrdered ==
  ASSUME Pointers, NEW l \in LIST_HEAD, NEW S \in SUBSET Node, Linked(l, S),
         NEW e \in S, Ordered(l, S)
  PROVE  /\ l.le_next[e] # e
         /\ Ordered(Free(LIST_REMOVE(l, e), e), S \ {e})
<1> DEFINE r == Free(LIST_REMOVE(l, e), e)
           p == l.le_prev[e]
           n == l.le_next[e]
<1>1. PICK rank \in [Node -> Int] : Sorts(l, S, rank)
  BY DEF Ordered
<1>2. /\ p \in S \cup {"lh_first"} /\ n \in S \cup {NULL}
      /\ p \in S => l.le_next[p] = e
      /\ p = "lh_first" => l.lh_first = e
      /\ l.lh_first \in S \cup {NULL}
      /\ \A f \in S : l.le_next[f] \in S \cup {NULL}
  BY DEF Linked, Deref, Pointers
<1>3. /\ r.lh_first = IF p = "lh_first" THEN n ELSE l.lh_first
      /\ \A f \in Node : f # e => r.le_next[f] = IF p = f THEN n ELSE l.le_next[f]
  BY <1>2, RemoveFields
<1> HIDE DEF r
<1>4. \A f \in S \ {e} : rank[f] <= rank[e] => n # NULL /\ rank[f] <= rank[n]
  BY <1>1, <1>2 DEF Sorts
<1>5. n # e
  BY <1>1, <1>2 DEF Sorts, Pointers
<1>6. \A f \in S \ {e} : r.lh_first # NULL /\ rank[f] <= rank[r.lh_first]
  BY <1>1, <1>2, <1>3, <1>4 DEF Sorts
<1>7. ASSUME NEW f \in S \ {e}, NEW g \in S \ {e}
      PROVE  rank[g] < rank[f] <=>
               r.le_next[f] # NULL /\ rank[g] <= rank[r.le_next[f]]
  <2>1. CASE p = f
    <3>1. r.le_next[f] = n /\ l.le_next[f] = e /\ e # NULL
      BY <1>2, <1>3, <2>1 DEF Pointers
    <3>2. rank[g] < rank[f] <=> rank[g] <= rank[e]
      BY <1>1, <3>1 DEF Sorts
    <3>3. rank[g] <= rank[e] <=> rank[g] < rank[e]
      BY <1>1 DEF Sorts
    <3>4. rank[g] < rank[e] <=> n # NULL /\ rank[g] <= rank[n]
      BY <1>1 DEF Sorts
    <3> QED
      BY <3>1, <3>2, <3>3, <3>4
  <2>2. CASE p # f
    BY <1>1, <1>3, <2>2 DEF Sorts
  <2> QED
    BY <2>1, <2>2
<1>8. Sorts(r, S \ {e}, rank)
  BY <1>1, <1>6, <1>7 DEF Sorts
<1> QED
  BY <1>1, <1>5, <1>8 DEF Ordered, r

\* A list whose head is NULL has lost no entry.
LEMMA NothingBeside ==
  ASSUME NEW l, NEW S, Ordered(l, S), l.lh_first = NULL
  PROVE  S = {}
BY DEF Ordered, Sorts
=============================================================================
