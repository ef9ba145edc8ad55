-------------------------------- MODULE Lists --------------------------------
(***************************************************************************)
(* The operations of utils/list.inline.h on two lists, pointer by pointer,  *)
(* beside what they mean for sequences.  Those that compare elements (sort, *)
(* insert_ordered, unique, max, min) have no caller and are left out.       *)
(***************************************************************************)
EXTENDS Links, Sequences, FiniteSets, SequencesExt

CONSTANT MaxElem   \* bound: elements are 1 .. MaxElem

ASSUME ListConstants == MaxElem \in Nat

VARIABLES heap,     \* next and prev of every cell
          content,  \* what each list holds, as a sequence
          asserts   \* whether every assertion held so far

listVars == <<heap, content, asserts>>

Lists == {1, 2}
Elems == 1 .. MaxElem
ListCells == {HeadOf(l) : l \in Lists} \cup {TailOf(l) : l \in Lists}
             \cup {Elem(e) : e \in Elems}

ListsInit ==
  /\ heap = list_init(list_init(
               [c \in ListCells |-> [next |-> Null, prev |-> Null]], 1), 2)
  /\ content = [l \in Lists |-> <<>>]
  /\ asserts = TRUE

\* Every piece of state has its type.
ListsTypeOK ==
  /\ heap \in [ListCells -> [next : ListCells \cup {Null},
                             prev : ListCells \cup {Null}]]
  /\ \A l \in Lists : content[l] \in Seq(Elems)
  /\ asserts \in BOOLEAN

Free == Elems \ (ToSet(content[1]) \cup ToSet(content[2]))

-----------------------------------------------------------------------------
(* The functions that walk a list *)

RECURSIVE Walk(_, _, _)
Walk(h, c, end) ==
  IF c = end \/ ~NextAsserts(h, c) THEN <<>>
  ELSE <<c[1]>> \o Walk(h, h[c].next, end)

RECURSIVE WalkBack(_, _, _)
WalkBack(h, c, end) ==
  IF c = end \/ ~PrevAsserts(h, c) THEN <<>>
  ELSE <<c[1]>> \o WalkBack(h, h[c].prev, end)

list_size(h, l) == Len(Walk(h, list_begin(h, l), TailOf(l)))

Pre(s, n) == SubSeq(s, 1, n)
Post(s, n) == SubSeq(s, n + 1, Len(s))

-----------------------------------------------------------------------------
(* Operations, each with the assertions it makes *)

Does(h, c, ok) == heap' = h /\ content' = c /\ asserts' = (asserts /\ ok)

PushFront(l, e) ==
  /\ e \in Free
  /\ Does(list_push_front(heap, l, Elem(e)),
          [content EXCEPT ![l] = <<e>> \o @], PrevAsserts(heap, list_begin(heap, l)))

PushBack(l, e) ==
  /\ e \in Free
  /\ Does(list_push_back(heap, l, Elem(e)), [content EXCEPT ![l] = Append(@, e)],
          PrevAsserts(heap, TailOf(l)))

\* Mutant: forgets the backward pointer.
RemoveForward(l, i) ==
  /\ i \in 1 .. Len(content[l])
  /\ LET c == Elem(content[l][i]) IN
       Does([heap EXCEPT ![heap[c].prev].next = heap[c].next],
            [content EXCEPT ![l] = RemoveAt(@, i)], is_interior(heap, c))

\* list_remove, list_pop_front and list_pop_back
RemoveElem(l, i) ==
  /\ i \in 1 .. Len(content[l])
  /\ LET c == CASE i = 1 -> list_begin(heap, l)
                [] i = Len(content[l]) -> list_rbegin(heap, l)
                [] OTHER -> Elem(content[l][i])
     IN Does(list_remove(heap, c), [content EXCEPT ![l] = RemoveAt(@, i)],
             is_interior(heap, c))

\* The elements i + 1 .. j of list l move before position p of list m.
Splice(l, i, j, m, p) ==
  /\ l # m /\ i <= j /\ j <= Len(content[l]) /\ p <= Len(content[m])
  /\ LET cellAt(x, n) == IF n = Len(content[x]) THEN TailOf(x)
                         ELSE Elem(content[x][n + 1])
     IN Does(list_splice(heap, cellAt(m, p), cellAt(l, i), cellAt(l, j)),
             [content EXCEPT
                ![l] = Pre(@, i) \o Post(@, j),
                ![m] = Pre(@, p) \o SubSeq(content[l], i + 1, j) \o Post(@, p)],
             SpliceAsserts(heap, cellAt(m, p), cellAt(l, i), cellAt(l, j)))

\* list_append asks list_front and list_back, which assert what was tested.
AppendAll(l, m) ==
  /\ l # m
  /\ Does(list_append(heap, l, m),
          [content EXCEPT ![l] = @ \o content[m], ![m] = <<>>],
          list_empty(heap, m) \/ list_rbegin(heap, m) # HeadOf(m))

ListsNext ==
  \/ \E l \in Lists, e \in Elems :
       PushFront(l, e) \/ PushBack(l, e)
  \/ \E l \in Lists, i \in Elems : RemoveElem(l, i)
  \/ \E l, m \in Lists, i, j, p \in 0 .. MaxElem : Splice(l, i, j, m, p)
  \/ \E l, m \in Lists : AppendAll(l, m)

ListsSpec == ListsInit /\ [][ListsNext]_listVars

-----------------------------------------------------------------------------
(* Properties *)

\* Whatever sequence of operations came before, walking a list forwards gives
\* its elements in the order the operations promise, walking it backwards
\* gives the reverse, and no assertion of these operations of
\* utils/list.inline.h has failed.
ListsAreSequences ==
  /\ asserts
  /\ \A l \in Lists :
       /\ Walk(heap, list_begin(heap, l), TailOf(l)) = content[l]
       /\ WalkBack(heap, list_rbegin(heap, l), HeadOf(l)) = Reverse(content[l])
       /\ list_size(heap, l) = Len(content[l])
       /\ list_empty(heap, l) <=> content[l] = <<>>
=============================================================================
