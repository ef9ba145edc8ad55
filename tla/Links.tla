-------------------------------- MODULE Links --------------------------------
(***************************************************************************)
(* The pointers of the intrusive doubly linked lists (utils/list.inline.h). *)
(* A heap maps every cell to its next and prev pointers.  A list has two    *)
(* cells of its own, head and tail, inside the structure that contains it;  *)
(* an element is one more cell.  The assertions of the functions are        *)
(* operators of their own (they are compiled into every build).             *)
(***************************************************************************)
EXTENDS Naturals

Null == <<0, "null">>
HeadOf(l) == <<l, "head">>
TailOf(l) == <<l, "tail">>
Elem(e) == <<e, "elem">>

is_head(h, c) == h[c].prev = Null /\ h[c].next # Null
is_interior(h, c) == h[c].prev # Null /\ h[c].next # Null
is_tail(h, c) == h[c].prev # Null /\ h[c].next = Null

list_init(h, l) ==
  [h EXCEPT ![HeadOf(l)] = [next |-> TailOf(l), prev |-> Null],
            ![TailOf(l)] = [next |-> Null, prev |-> HeadOf(l)]]

list_begin(h, l) == h[HeadOf(l)].next
list_rbegin(h, l) == h[TailOf(l)].prev
list_empty(h, l) == list_begin(h, l) = TailOf(l)

\* The assertions of list_next, list_prev and list_insert.
NextAsserts(h, c) == is_head(h, c) \/ is_interior(h, c)
PrevAsserts(h, c) == is_interior(h, c) \/ is_tail(h, c)

\* Puts e just before b.
list_insert(h, b, e) ==
  LET p == h[b].prev IN
    [h EXCEPT ![e] = [next |-> b, prev |-> p], ![p].next = e, ![b].prev = e]

list_push_front(h, l, e) == list_insert(h, list_begin(h, l), e)
list_push_back(h, l, e) == list_insert(h, TailOf(l), e)

\* Asserts is_interior(h, e).
list_remove(h, e) ==
  [h EXCEPT ![h[e].prev].next = h[e].next, ![h[e].next].prev = h[e].prev]

\* The assertions of list_splice, that of its list_prev included.
SpliceAsserts(h, b, f, end) ==
  /\ PrevAsserts(h, b)
  /\ f # end => /\ PrevAsserts(h, end)
                /\ is_interior(h, f) /\ is_interior(h, h[end].prev)

\* The cells from f up to, not including, the cell end move before b.
list_splice(h, b, f, end) ==
  IF f = end THEN h
  ELSE LET last == h[end].prev
           out == [h EXCEPT ![h[f].prev].next = h[last].next,
                            ![h[last].next].prev = h[f].prev]
       IN [out EXCEPT ![f].prev = out[b].prev, ![last].next = b,
                      ![out[b].prev].next = f, ![b].prev = last]

\* Everything in list m moves to the end of list l.
list_append(h, l, m) ==
  IF list_empty(h, m) THEN h
  ELSE LET front == list_begin(h, m)
           back == list_rbegin(h, m)
       IN list_init([h EXCEPT ![front].prev = h[TailOf(l)].prev,
                              ![back].next = TailOf(l),
                              ![h[TailOf(l)].prev].next = front,
                              ![TailOf(l)].prev = back], m)
=============================================================================
