-------------------------------- MODULE List --------------------------------
(***************************************************************************)
(* The LIST macros of server/queue.h that the server uses, as operators on *)
(* a record: lh_first is the head, le_next and le_prev are the two fields  *)
(* of every element.  le_prev holds the address of the pointer that points *)
(* to the element: the element whose le_next that is, or "lh_first".       *)
(* An element that has been removed keeps what its fields last held until  *)
(* it is freed.                                                            *)
(* Neither NULL nor "lh_first" is an element.                              *)
(***************************************************************************)
EXTENDS Integers, FiniteSets

CONSTANTS Node,  \* elements
          NULL   \* the null pointer, LIST_END

LIST_HEAD == [lh_first : Node \cup {NULL},
              le_next  : [Node -> Node \cup {NULL}],
              le_prev  : [Node -> Node \cup {"lh_first", NULL}]]

LIST_INIT == [lh_first |-> NULL,
              le_next |-> [e \in Node |-> NULL], le_prev |-> [e \in Node |-> NULL]]

\* *p and *p = e, for a pointer p as le_prev holds it.
Deref(l, p)     == IF p = "lh_first" THEN l.lh_first ELSE l.le_next[p]
Store(l, p, e)  == IF p = "lh_first" THEN [l EXCEPT !.lh_first = e]
                                     ELSE [l EXCEPT !.le_next[p] = e]
\* e->le_prev = p, unless e is NULL.
SetPrev(l, e, p) == IF e = NULL THEN l ELSE [l EXCEPT !.le_prev[e] = p]

LIST_FIRST(l)   == l.lh_first
LIST_NEXT(l, e) == l.le_next[e]

LIST_INSERT_HEAD(l, e) ==
  LET l1 == SetPrev([l EXCEPT !.le_next[e] = l.lh_first], l.lh_first, e)
  IN  [l1 EXCEPT !.lh_first = e, !.le_prev[e] = "lh_first"]

LIST_REMOVE_KeepsPrev(l, e) == Store(l, l.le_prev[e], l.le_next[e])

LIST_REMOVE(l, e) ==
  Store(SetPrev(l, l.le_next[e], l.le_prev[e]), l.le_prev[e], l.le_next[e])

-----------------------------------------------------------------------------

\* The memory of an element is given back.
Free(l, e) == [l EXCEPT !.le_next[e] = NULL, !.le_prev[e] = NULL]

\* The elements that LIST_FOREACH visits, in at most as many turns as there are.
Visited(l) ==
  LET at[i \in 1 .. Cardinality(Node)] ==
        IF i = 1 THEN l.lh_first
        ELSE IF at[i - 1] = NULL THEN NULL ELSE l.le_next[at[i - 1]]
  IN  {at[i] : i \in DOMAIN at} \ {NULL}

\* The elements of S are linked in both directions: each is what its le_prev
\* points to, and a pointer of the list leads to an element of S or nowhere.
Linked(l, S) ==
  /\ l.lh_first \in S \cup {NULL}
  /\ \A e \in S : /\ l.le_next[e] \in S \cup {NULL}
                  /\ l.le_prev[e] \in S \cup {"lh_first"}
                  /\ Deref(l, l.le_prev[e]) = e
                  /\ l.le_next[e] # NULL => l.le_prev[l.le_next[e]] = e
  /\ l.lh_first # NULL => l.le_prev[l.lh_first] = "lh_first"
=============================================================================
