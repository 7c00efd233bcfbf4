------------------------------ MODULE PintosList ------------------------------
(***************************************************************************)
(* The doubly linked lists of lib/kernel/list.c, pointer by pointer: an    *)
(* operation takes the memory m, the next and prev fields of all nodes,    *)
(* and returns the memory it leaves behind.                                *)
(***************************************************************************)
EXTENDS Naturals, FiniteSets, SequencesExt

CONSTANTS Elems, AllLists, Key, NULL

list_head(l) == <<"head", l>>
list_tail(l) == <<"tail", l>>     \* also list_end
Nodes == Elems \cup {list_head(l) : l \in AllLists} \cup {list_tail(l) : l \in AllLists}

less(a, b) == Key[a] < Key[b]

list_init(m, l) ==
  [next |-> [m.next EXCEPT ![list_head(l)] = list_tail(l), ![list_tail(l)] = NULL],
   prev |-> [m.prev EXCEPT ![list_tail(l)] = list_head(l), ![list_head(l)] = NULL]]

list_begin(m, l) == m.next[list_head(l)]
list_rbegin(m, l) == m.prev[list_tail(l)]
list_empty(m, l) == list_begin(m, l) = list_tail(l)

(* The nodes that the loops of list.c go through: from a to before b. *)
RECURSIVE Chain(_, _, _)
Chain(m, a, b) == IF a = b THEN << >> ELSE <<a>> \o Chain(m, m.next[a], b)
Content(m, l) == Chain(m, list_begin(m, l), list_tail(l))
list_size(m, l) == Len(Content(m, l))

-----------------------------------------------------------------------------
list_insert(m, before, e) ==
  [next |-> [m.next EXCEPT ![e] = before, ![m.prev[before]] = e],
   prev |-> [m.prev EXCEPT ![e] = m.prev[before], ![before] = e]]

list_push_front(m, l, e) == list_insert(m, list_begin(m, l), e)
list_push_back(m, l, e) == list_insert(m, list_tail(l), e)

(* Moves first up to, not including, last; the assignments in their order. *)
list_splice(m, before, first, last) ==
  LET end == m.prev[last]
      p1 == [m.prev EXCEPT ![m.next[end]] = m.prev[first]]
      p2 == [p1 EXCEPT ![first] = p1[before]]
      n1 == [m.next EXCEPT ![m.prev[first]] = m.next[end]]
      n2 == [n1 EXCEPT ![end] = before]
  IN  IF first = last THEN m
      ELSE [next |-> [n2 EXCEPT ![p2[before]] = first], prev |-> [p2 EXCEPT ![before] = end]]

(* Faulty variant: the way back is left as it was. *)
list_remove_forward(m, e) == [m EXCEPT !.next[m.prev[e]] = m.next[e]]

list_remove(m, e) == [m EXCEPT !.next[m.prev[e]] = m.next[e], !.prev[m.next[e]] = m.prev[e]]

(* The pointers of every element change places, then the list's own, then   *)
(* the outer ones of what are now the first and the last element.           *)
list_reverse(m, l) ==
  LET inside == ToSet(Content(m, l))
      n1 == [x \in Nodes |-> IF x \in inside THEN m.prev[x] ELSE m.next[x]]
      p1 == [x \in Nodes |-> IF x \in inside THEN m.next[x] ELSE m.prev[x]]
      front == p1[list_tail(l)]
      back == n1[list_head(l)]
  IN  IF list_empty(m, l) THEN m
      ELSE [next |-> [n1 EXCEPT ![list_head(l)] = front, ![back] = p1[front]],
            prev |-> [p1 EXCEPT ![list_tail(l)] = back, ![front] = n1[back]]]

-----------------------------------------------------------------------------
(* Sorting: a natural merge sort in place. *)
is_sorted(m, a, b) == \A x \in ToSet(Chain(m, a, b)) : x # a => ~less(x, m.prev[x])

RECURSIVE find_end_of_run(_, _, _)
find_end_of_run(m, a, b) ==
  LET x == m.next[a]
  IN  IF x # b /\ ~less(x, m.prev[x]) THEN find_end_of_run(m, x, b) ELSE x

(* Faulty variant: of two equal elements the later one goes first. *)
takes_second_if_equal(a0, a1b0) == ~less(a0, a1b0)

takes_second(a0, a1b0) == less(a1b0, a0)

RECURSIVE inplace_merge(_, _, _, _)
inplace_merge(m, a0, a1b0, b1) ==
  LET x == m.next[a1b0]
  IN  IF a0 = a1b0 \/ a1b0 = b1 THEN m
      ELSE IF takes_second(a0, a1b0)
           THEN inplace_merge(list_splice(m, a0, m.prev[x], x), a0, x, b1)
           ELSE inplace_merge(m, m.next[a0], a1b0, b1)

(* One pass from a0 on: pairs of runs are merged.  Its result is the memory *)
(* and the number of runs that are left.                                    *)
RECURSIVE SortPass(_, _, _, _)
SortPass(m, l, a0, output_run_cnt) ==
  LET end == list_tail(l)
      a1b0 == find_end_of_run(m, a0, end)
      b1 == find_end_of_run(m, a1b0, end)
  IN  IF a0 = end THEN <<m, output_run_cnt>>
      ELSE IF a1b0 = end THEN <<m, output_run_cnt + 1>>
      ELSE SortPass(inplace_merge(m, a0, a1b0, b1), l, b1, output_run_cnt + 1)

RECURSIVE list_sort(_, _)
list_sort(m, l) ==
  LET pass == SortPass(m, l, list_begin(m, l), 0)
  IN  IF pass[2] > 1 THEN list_sort(pass[1], l) ELSE pass[1]

RECURSIVE FirstGreater(_, _, _, _)
FirstGreater(m, e, x, end) == IF x = end \/ less(e, x) THEN x ELSE FirstGreater(m, e, m.next[x], end)

list_insert_ordered(m, l, e) ==
  list_insert(m, FirstGreater(m, e, list_begin(m, l), list_tail(l)), e)

(* From elem on, equal neighbours leave list l; they go to list d unless it *)
(* is a null pointer.                                                       *)
RECURSIVE UniqueFrom(_, _, _, _)
UniqueFrom(m, l, d, elem) ==
  LET next == m.next[elem]
      out == list_remove(m, next)
  IN  IF next = list_tail(l) THEN m
      ELSE IF ~less(elem, next) /\ ~less(next, elem)
      THEN UniqueFrom(IF d = NULL THEN out ELSE list_push_back(out, d, next), l, d, elem)
      ELSE UniqueFrom(m, l, d, next)

list_unique(m, l, d) == IF list_empty(m, l) THEN m ELSE UniqueFrom(m, l, d, list_begin(m, l))

(* The last element of the loop that beats all before it; the tail if there *)
(* is none.                                                                 *)
list_max(m, l) ==
  IF list_empty(m, l) THEN list_tail(l)
  ELSE FoldLeft(LAMBDA max, e : IF less(max, e) THEN e ELSE max, list_begin(m, l), Content(m, l))

list_min(m, l) ==
  IF list_empty(m, l) THEN list_tail(l)
  ELSE FoldLeft(LAMBDA min, e : IF less(e, min) THEN e ELSE min, list_begin(m, l), Content(m, l))
===============================================================================
