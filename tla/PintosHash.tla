------------------------------ MODULE PintosHash ------------------------------
(***************************************************************************)
(* The hash table of lib/kernel/hash.c, whose buckets are lists of list.c, *)
(* and a caller that keeps elements in lists and in the table.  A call is  *)
(* one step: the library has no locks, its callers serialize.              *)
(***************************************************************************)
EXTENDS Naturals, FiniteSets, SequencesExt, Bitwise

CONSTANTS
  Elems,                  \* the elements
  Lists,                  \* the caller's own lists
  Key,                    \* Key[e]: what less compares
  Hash,                   \* Hash[k]: the hash value of key k
  MIN_BUCKETS,            \* the smallest number of buckets (4)
  BEST_ELEMS_PER_BUCKET,  \* the ideal number of elements in a bucket (2)
  NULL

Largest(S) == CHOOSE n \in S : \A k \in S : n >= k
MaxBuckets == Largest({MIN_BUCKETS, Cardinality(Elems) \div BEST_ELEMS_PER_BUCKET})

(* Two arrays of buckets, of which one is in use except during rehash. *)
Bucket(a, i) == <<"bucket", a, i>>
Arrays == {1, 2}
BucketsOf(a) == {Bucket(a, i) : i \in 0..MaxBuckets - 1}

INSTANCE PintosList WITH AllLists <- Lists \cup BucketsOf(1) \cup BucketsOf(2)

VARIABLES
  mem,    \* the next and prev fields of all nodes
  h,      \* the hash table [buckets, bucket_cnt, elem_cnt], or NULL
  iter,   \* the iterator [bucket, elem], or NULL
  seen,   \* the elements that the walk in progress has visited
  call    \* the last call and what it returned

vars == <<mem, h, iter, seen, call>>

Garbage == [next |-> [x \in Nodes |-> NULL], prev |-> [x \in Nodes |-> NULL]]

(* What is freed, or no longer used by the caller, has no valid pointers. *)
Freed(m, nodes) ==
  [next |-> [x \in Nodes |-> IF x \in nodes THEN NULL ELSE m.next[x]],
   prev |-> [x \in Nodes |-> IF x \in nodes THEN NULL ELSE m.prev[x]]]
ArrayNodes(a) == {list_head(b) : b \in BucketsOf(a)} \cup {list_tail(b) : b \in BucketsOf(a)}

InitLists(m, ls) == FoldSet(LAMBDA l, acc : list_init(acc, l), m, ls)

Init ==
  /\ mem = InitLists(Garbage, Lists)
  /\ h = NULL /\ iter = NULL /\ seen = {}
  /\ call = [op |-> "none", ret |-> NULL]

-----------------------------------------------------------------------------
(* The parts of a table that the operations share; t is a table, m memory. *)
Buckets(t) == {Bucket(t.buckets, i) : i \in 0..t.bucket_cnt - 1}
find_bucket(t, e) == Bucket(t.buckets, Hash[Key[e]] & (t.bucket_cnt - 1))

find_elem(m, bucket, e) ==
  LET equal == SelectSeq(Content(m, bucket), LAMBDA x : ~less(x, e) /\ ~less(e, x))
  IN  IF equal = << >> THEN NULL ELSE equal[1]

turn_off_least_1bit(x) == x & (x - 1)
is_power_of_2(x) == x # 0 /\ turn_off_least_1bit(x) = 0

RECURSIVE PowerOf2(_)
PowerOf2(n) == IF is_power_of_2(n) THEN n ELSE PowerOf2(turn_off_least_1bit(n))

new_bucket_cnt(t) == PowerOf2(Largest({t.elem_cnt \div BEST_ELEMS_PER_BUCKET, MIN_BUCKETS}))

(* One element of rehash: from its old bucket to the front of its new one.  *)
Move(m, t, e) == list_push_front(list_remove(m, e), find_bucket(t, e), e)

MoveBucket(m, t, bucket) == FoldLeft(LAMBDA acc, e : Move(acc, t, e), m, Content(m, bucket))

(* rehash: no change of the number, no memory, or new buckets.  Its results *)
(* are memory and table.                                                    *)
rehash(m, t) ==
  LET new == [t EXCEPT !.buckets = 3 - t.buckets, !.bucket_cnt = new_bucket_cnt(t)]
      moved == FoldLeft(LAMBDA acc, i : MoveBucket(acc, new, Bucket(t.buckets, i - 1)),
                        InitLists(m, Buckets(new)), [i \in 1..t.bucket_cnt |-> i])
  IN  IF new.bucket_cnt = t.bucket_cnt THEN {[m |-> m, t |-> t]}
      ELSE {[m |-> m, t |-> t], [m |-> Freed(moved, ArrayNodes(t.buckets)), t |-> new]}

insert_elem(m, t, bucket, e) ==
  [m |-> list_push_front(m, bucket, e), t |-> [t EXCEPT !.elem_cnt = @ + 1]]

remove_elem(m, t, e) == [m |-> list_remove(m, e), t |-> [t EXCEPT !.elem_cnt = @ - 1]]

-----------------------------------------------------------------------------
(* Calls of the list operations.  An element that leaves a list is the      *)
(* caller's, who may free it.                                               *)
InTable == IF h = NULL THEN {} ELSE UNION {ToSet(Content(mem, b)) : b \in Buckets(h)}
Listed == UNION {ToSet(Content(mem, l)) : l \in Lists}
Unused == Elems \ (Listed \cup InTable)

Result(x) == IF x \in Elems THEN x ELSE NULL

Returns(op, ret) == call' = [op |-> op, ret |-> ret] /\ iter' = NULL /\ seen' = {}

Insert(l, e) ==
  /\ \/ mem' = list_push_front(mem, l, e) /\ Returns("list_push_front", NULL)
     \/ mem' = list_push_back(mem, l, e) /\ Returns("list_push_back", NULL)
     \/ \E x \in ToSet(Content(mem, l)) : mem' = list_insert(mem, x, e) /\ Returns("list_insert", NULL)
     \/ /\ is_sorted(mem, list_begin(mem, l), list_tail(l))
        /\ mem' = list_insert_ordered(mem, l, e) /\ Returns("list_insert_ordered", NULL)
  /\ UNCHANGED h

TakeOut(l) ==
  /\ ~list_empty(mem, l)
  /\ \E e \in ToSet(Content(mem, l)) :
       /\ mem' = Freed(list_remove(mem, e), {e})
       /\ \/ Returns("list_remove", Result(mem.next[e]))
          \/ e = list_begin(mem, l) /\ Returns("list_pop_front", e)
          \/ e = list_rbegin(mem, l) /\ Returns("list_pop_back", e)
  /\ UNCHANGED h

(* list_splice of elements of list l, to a place of list k that is not      *)
(* among them.                                                              *)
Splice(l, k) ==
  /\ \E i, j \in 1..list_size(mem, l) :
       LET moved == SubSeq(Content(mem, l), i, j)
       IN  /\ i <= j
           /\ \E before \in (ToSet(Content(mem, k)) \cup {list_tail(k)}) \ ToSet(moved) :
                mem' = list_splice(mem, before, moved[1], mem.next[moved[Len(moved)]])
  /\ Returns("list_splice", NULL)
  /\ UNCHANGED h

Reorder(l) ==
  /\ \/ mem' = list_reverse(mem, l) /\ Returns("list_reverse", NULL)
     \/ mem' = list_sort(mem, l) /\ Returns("list_sort", NULL)
  /\ UNCHANGED h

Unique(l, d) ==
  LET m == list_unique(mem, l, d)
      kept == ToSet(Content(m, l))
  IN  /\ mem' = IF d = NULL THEN Freed(m, ToSet(Content(mem, l)) \ kept) ELSE m
      /\ Returns("list_unique", NULL)
      /\ UNCHANGED h

Ask(l) ==
  /\ \/ Returns("list_max", Result(list_max(mem, l)))
     \/ Returns("list_min", Result(list_min(mem, l)))
     \/ Returns("list_size", list_size(mem, l))
  /\ UNCHANGED <<mem, h>>

-----------------------------------------------------------------------------
(* Calls of the hash table. *)
hash_init ==
  /\ h = NULL
  /\ \/ /\ h' = [buckets |-> 1, bucket_cnt |-> MIN_BUCKETS, elem_cnt |-> 0]
        /\ mem' = InitLists(mem, Buckets(h'))
        /\ Returns("hash_init", NULL)
     \/ UNCHANGED <<h, mem>> /\ Returns("hash_init fails", NULL)     \* no memory

(* With a destructor every element is taken out first; without one the      *)
(* buckets are only made empty.                                             *)
hash_clear ==
  /\ h # NULL
  /\ mem' = Freed(InitLists(mem, Buckets(h)), InTable)
  /\ h' = [h EXCEPT !.elem_cnt = 0]
  /\ Returns("hash_clear", NULL)

hash_destroy ==
  /\ h # NULL
  /\ mem' = Freed(mem, InTable \cup ArrayNodes(h.buckets))
  /\ h' = NULL
  /\ Returns("hash_destroy", NULL)

(* The last part of a call that changes the table; element old is out. *)
Rehashed(m, t, old) ==
  \E r \in rehash(m, t) : mem' = Freed(r.m, {old} \cap Elems) /\ h' = r.t

hash_insert(e) ==
  LET bucket == find_bucket(h, e)
      old == find_elem(mem, bucket, e)
      new == IF old = NULL THEN insert_elem(mem, h, bucket, e) ELSE [m |-> mem, t |-> h]
  IN  Rehashed(new.m, new.t, NULL) /\ Returns("hash_insert", old)

hash_replace(e) ==
  LET bucket == find_bucket(h, e)
      old == find_elem(mem, bucket, e)
      out == IF old # NULL THEN remove_elem(mem, h, old) ELSE [m |-> mem, t |-> h]
      new == insert_elem(out.m, out.t, bucket, e)
  IN  Rehashed(new.m, new.t, old) /\ Returns("hash_replace", old)

hash_find(e) ==
  /\ Returns("hash_find", find_elem(mem, find_bucket(h, e), e))
  /\ UNCHANGED <<mem, h>>

hash_delete(e) ==
  LET found == find_elem(mem, find_bucket(h, e), e)
      out == remove_elem(mem, h, found)
  IN  /\ IF found = NULL THEN UNCHANGED <<mem, h>> ELSE Rehashed(out.m, out.t, found)
      /\ Returns("hash_delete", found)

hash_size == Returns("hash_size", h.elem_cnt) /\ UNCHANGED <<mem, h>>

hash_apply ==
  LET visits == FoldLeft(LAMBDA s, i : s \o Content(mem, Bucket(h.buckets, i - 1)),
                         << >>, [i \in 1..h.bucket_cnt |-> i])
  IN  /\ seen' = ToSet(visits)
      /\ call' = [op |-> "hash_apply", ret |-> Len(visits)]
      /\ iter' = NULL
      /\ UNCHANGED <<mem, h>>

hash_first ==
  /\ iter' = [bucket |-> 0, elem |-> list_head(Bucket(h.buckets, 0))]
  /\ seen' = {}
  /\ call' = [op |-> "hash_first", ret |-> NULL]
  /\ UNCHANGED <<mem, h>>

(* From the end of a bucket to the beginning of the next one, until there   *)
(* is an element or no bucket.                                              *)
RECURSIVE SkipEnds(_, _)
SkipEnds(b, x) ==
  IF x # list_tail(Bucket(h.buckets, b)) THEN [bucket |-> b, elem |-> x]
  ELSE IF b + 1 >= h.bucket_cnt THEN [bucket |-> b + 1, elem |-> NULL]
  ELSE SkipEnds(b + 1, list_begin(mem, Bucket(h.buckets, b + 1)))

hash_next ==
  /\ iter # NULL /\ iter.elem # NULL
  /\ iter' = SkipEnds(iter.bucket, mem.next[iter.elem])
  /\ seen' = seen \cup ({iter'.elem} \cap Elems)
  /\ call' = [op |-> "hash_next", ret |-> iter'.elem]
  /\ UNCHANGED <<mem, h>>

ListCall ==
  \/ \E l \in Lists, e \in Unused : Insert(l, e)
  \/ \E l \in Lists : TakeOut(l) \/ Reorder(l) \/ Ask(l)
  \/ \E l, k \in Lists : Splice(l, k)
  \/ \E l \in Lists : \E d \in (Lists \cup {NULL}) \ {l} : Unique(l, d)

TableCall ==
  \/ hash_init \/ hash_clear \/ hash_destroy
  \/ /\ h # NULL
     /\ \/ \E e \in Unused : hash_insert(e) \/ hash_replace(e)
        \/ \E e \in Elems : hash_find(e) \/ hash_delete(e)
        \/ hash_size \/ hash_apply \/ hash_first \/ hash_next

Next == ListCall \/ TableCall

Spec == Init /\ [][Next]_vars

-----------------------------------------------------------------------------
(* The types: pointers are nodes or null, and the number of buckets is a    *)
(* power of two, which find_bucket needs (hash.c:306).                      *)
TypeOK ==
  /\ mem \in [next : [Nodes -> Nodes \cup {NULL}], prev : [Nodes -> Nodes \cup {NULL}]]
  /\ \/ h = NULL
     \/ /\ h.buckets \in Arrays /\ h.elem_cnt \in 0..Cardinality(Elems)
        /\ h.bucket_cnt \in 1..MaxBuckets /\ \E n \in 0..MaxBuckets : h.bucket_cnt = 2^n
  /\ seen \subseteq Elems

(* The links of every list agree in both directions and nothing that is in  *)
(* use points to an element that has left or to buckets that are freed,     *)
(* after any sequence of calls, sorts and rehashes included (list.c:173-176,*)
(* 196-203, 252-253, 335-339).  The assertions is_head, is_interior and     *)
(* is_tail of list.c rest on it.                                            *)
LinksOK ==
  TypeOK /\ \A x \in Nodes :
    /\ mem.next[x] # NULL => mem.prev[mem.next[x]] = x
    /\ mem.prev[x] # NULL => mem.next[mem.prev[x]] = x

(* The lists implement sequences and the table a set: every call does to    *)
(* the contents, and returns, what list.h and hash.h say, the sort is       *)
(* stable, and a walk visits every element of the table once.               *)
Promise ==
  INSTANCE Collections WITH
    seqs <- [l \in Lists |-> Content(mem, l)], table <- IF h = NULL THEN NULL ELSE InTable
CollectionsSpec == Promise!Spec
===============================================================================
