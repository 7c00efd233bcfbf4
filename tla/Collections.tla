----------------------------- MODULE Collections -----------------------------
(***************************************************************************)
(* What list.h and hash.h promise: lists are sequences and a hash table is *)
(* a set that has one element of a key at most.  Every call is one step,   *)
(* with its name and its result.  An element is in one collection at most. *)
(***************************************************************************)
EXTENDS Naturals, FiniteSets, SequencesExt

CONSTANTS Elems, Lists, Key, NULL

VARIABLES
  seqs,    \* seqs[l]: the elements of list l
  table,   \* the elements of the hash table, or NULL
  seen,    \* the elements that the walk through the table has visited
  call     \* the last call: its name and what it returned

InLists == UNION {ToSet(seqs[l]) : l \in Lists}
Unused == Elems \ (InLists \cup (IF table = NULL THEN {} ELSE table))

Init == seqs = [l \in Lists |-> << >>] /\ table = NULL /\ seen = {} /\ call = [op |-> "none", ret |-> NULL]

Returns(op, ret) == call' = [op |-> op, ret |-> ret]

(* A stable sort: an element comes after those with a smaller key and after *)
(* those with its key that came before it.                                  *)
IndexOf(s, x) == CHOOSE n \in DOMAIN s : s[n] = x
Precede(s, x) ==
  {y \in ToSet(s) : Key[y] < Key[x] \/ (Key[y] = Key[x] /\ IndexOf(s, y) < IndexOf(s, x))}
SortOf(s) == [n \in DOMAIN s |-> CHOOSE x \in ToSet(s) : Cardinality(Precede(s, x)) = n - 1]

(* The elements that do not follow one with their key. *)
First(s) == {s[n] : n \in {k \in DOMAIN s : k = 1 \/ Key[s[k - 1]] # Key[s[k]]}}
Only(s, es) == SelectSeq(s, LAMBDA x : x \in es)

-----------------------------------------------------------------------------
Sets(l, s) == seqs' = [k \in Lists |-> IF k = l THEN s ELSE seqs[k]]

Insert ==
  \/ Returns("list_push_front", NULL) /\ \E l \in Lists, e \in Unused : Sets(l, <<e>> \o seqs[l])
  \/ Returns("list_push_back", NULL) /\ \E l \in Lists, e \in Unused : Sets(l, Append(seqs[l], e))
  \/ /\ Returns("list_insert", NULL)
     /\ \E l \in Lists, e \in Unused : \E n \in DOMAIN seqs[l] : Sets(l, InsertAt(seqs[l], n, e))
  \/ /\ Returns("list_insert_ordered", NULL)
     /\ \E l \in Lists, e \in Unused : Sets(l, SortOf(Append(seqs[l], e)))

TakeOut ==
  /\ call'.op \in {"list_remove", "list_pop_front", "list_pop_back"}
  /\ \E l \in Lists : \E n \in DOMAIN seqs[l] :
       /\ \/ Returns("list_remove", IF n < Len(seqs[l]) THEN seqs[l][n + 1] ELSE NULL)
          \/ n = 1 /\ Returns("list_pop_front", seqs[l][n])
          \/ n = Len(seqs[l]) /\ Returns("list_pop_back", seqs[l][n])
       /\ Sets(l, RemoveAt(seqs[l], n))

(* The elements from place i up to place j of one list go to place n of     *)
(* another or of the same list, outside of what is moved.                   *)
Splice ==
  /\ Returns("list_splice", NULL)
  /\ \E l, k \in Lists : \E i \in DOMAIN seqs[l] : \E j \in i..Len(seqs[l]) :
       LET s == seqs[l]
           rest == [x \in Lists |-> IF x = l THEN SubSeq(s, 1, i - 1) \o SubSeq(s, j + 1, Len(s))
                                    ELSE seqs[x]]
           t == rest[k]
       IN  \E n \in 0..Len(t) :
             seqs' = [x \in Lists |-> IF x = k THEN SubSeq(t, 1, n) \o SubSeq(s, i, j) \o SubSeq(t, n + 1, Len(t))
                                      ELSE rest[x]]

Reorder ==
  \/ Returns("list_reverse", NULL) /\ \E l \in Lists : Sets(l, Reverse(seqs[l]))
  \/ Returns("list_sort", NULL) /\ \E l \in Lists : Sets(l, SortOf(seqs[l]))

Unique ==
  /\ Returns("list_unique", NULL)
  /\ \E l \in Lists, d \in Lists \cup {NULL} :
       LET kept == Only(seqs[l], First(seqs[l]))
           others == Only(seqs[l], ToSet(seqs[l]) \ First(seqs[l]))
       IN  /\ l # d
           /\ seqs' = [k \in Lists |-> IF k = l THEN kept ELSE IF k = d THEN seqs[k] \o others ELSE seqs[k]]

(* The first of the largest or of the smallest elements. *)
Extreme(s, es) == IF s = << >> THEN NULL ELSE Only(s, es)[1]
Ask ==
  /\ call'.op \in {"list_max", "list_min", "list_size"}
  /\ UNCHANGED seqs
  /\ \E l \in Lists :
       LET s == seqs[l]
           keys == {Key[x] : x \in ToSet(s)}
       IN  \/ Returns("list_max", Extreme(s, {x \in Elems : \A k \in keys : Key[x] >= k}))
           \/ Returns("list_min", Extreme(s, {x \in Elems : \A k \in keys : Key[x] <= k}))
           \/ Returns("list_size", Len(s))

ListCall == (Insert \/ TakeOut \/ Splice \/ Reorder \/ Unique \/ Ask) /\ UNCHANGED table /\ seen' = {}

-----------------------------------------------------------------------------
Equal(e) == {x \in table : Key[x] = Key[e]}
Old(e) == IF Equal(e) = {} THEN NULL ELSE CHOOSE x \in Equal(e) : TRUE

TableCall ==
  /\ UNCHANGED seqs /\ seen' = {}
  /\ \/ table = NULL /\ table' = {} /\ Returns("hash_init", NULL)
     \/ table = NULL /\ UNCHANGED table /\ Returns("hash_init fails", NULL)
     \/ table # NULL /\ table' = {} /\ Returns("hash_clear", NULL)
     \/ table # NULL /\ table' = NULL /\ Returns("hash_destroy", NULL)
     \/ /\ table # NULL
        /\ \E e \in Unused :
             \/ table' = (IF Equal(e) = {} THEN table \cup {e} ELSE table) /\ Returns("hash_insert", Old(e))
             \/ table' = (table \ Equal(e)) \cup {e} /\ Returns("hash_replace", Old(e))
     \/ /\ table # NULL
        /\ \E e \in Elems :
             \/ table' = table \ Equal(e) /\ Returns("hash_delete", Old(e))
             \/ UNCHANGED table /\ Returns("hash_find", Old(e))
     \/ table # NULL /\ UNCHANGED table /\ Returns("hash_size", Cardinality(table))

(* A walk visits every element once, in any order. *)
Walk ==
  /\ table # NULL
  /\ UNCHANGED <<seqs, table>>
  /\ \/ seen' = {} /\ Returns("hash_first", NULL)
     \/ /\ call.op \in {"hash_first", "hash_next"}
        /\ \/ \E e \in table \ seen : seen' = seen \cup {e} /\ Returns("hash_next", e)
           \/ seen = table /\ UNCHANGED seen /\ Returns("hash_next", NULL)
     \/ seen' = table /\ Returns("hash_apply", Cardinality(table))

Next == ListCall \/ TableCall \/ Walk

Spec == Init /\ [][Next]_<<seqs, table, seen, call>>
==============================================================================
