---------------------------- MODULE HttpHeaders -----------------------------
(***************************************************************************)
(* basic_headers: the fields of a message, each an element on the heap     *)
(* that is linked into a list, in the order of insertion, and into a       *)
(* multiset, in the order of the names without regard to case.  Two        *)
(* containers are filled, searched, copied, moved and cleared, and an      *)
(* allocation or the construction of an element may throw.                 *)
(***************************************************************************)
EXTENDS HttpLists

CONSTANT MaxElems   \* bound on the elements on the heap

ASSUME HeadersAssumption == MaxElems \in Nat

VARIABLES hs,      \* the containers: list_, set_ and the allocator
          heap,    \* the elements: name, value, the allocator they are from
          fields   \* what each container has to hold

hvars == <<hs, heap, fields>>

Both == {1, 2}

Names == {<<"a">>, <<"A">>, <<"a", "a">>}

Values == {<<"SP", "a", "SP", "a", "SP">>, <<"SP">>}

NoFields == [list |-> << >>, set |-> << >>, alloc |-> 1]

trim(v) ==
  LET in == {i \in DOMAIN v : v[i] # "SP"}
  IN  IF in = {} THEN << >> ELSE SubSeq(v, skip_ows(v, 1), Max(in))

\* The names of the model are in order when the shorter one is the smaller.
ci_less(s, t) == Len(s) < Len(t)

-----------------------------------------------------------------------------
NameOf(hp, e) == hp[e].name

\* Positions in the multiset.
lower_bound(hp, set, name) ==
  Min({Len(set) + 1} \cup {k \in DOMAIN set : ~ci_less(NameOf(hp, set[k]), name)})

upper_bound(hp, set, name) ==
  Min({Len(set) + 1} \cup {k \in DOMAIN set : ci_less(name, NameOf(hp, set[k]))})

\* The elements that erase, count and find are about, in the set's order.
Matching(hp, h, name) ==
  SubSeq(h.set, lower_bound(hp, h.set, name), upper_bound(hp, h.set, name) - 1)

count_of(h, name) == Len(Matching(heap, h, name))

FieldAt(e) == [name |-> heap[e].name, value |-> heap[e].value]

\* operator[] and find(): the first match, or nothing.
find(h, name) ==
  IF count_of(h, name) = 0 THEN << >> ELSE <<FieldAt(Matching(heap, h, name)[1])>>

NextElem(hp) == Min(1 .. MaxElems + 1 \ DOMAIN hp)

\* The numbers of a set in ascending order, and what a sequence has there.
InOrder(ks) ==
  CHOOSE p \in [1 .. Cardinality(ks) -> ks] : \A i, j \in DOMAIN p : i < j => p[i] < p[j]

Only(s, ks) == LET p == InOrder(ks) IN [k \in 1 .. Cardinality(ks) |-> s[p[k]]]

Without(s, gone) == Only(s, {k \in DOMAIN s : s[k] \notin gone})

\* A store is the containers and the heap.
Store == [hs |-> hs, heap |-> heap]

\* Fault: the element goes in front of its equals.
InsertFirst(st, i, name, value) ==
  LET e == NextElem(st.heap)
      new == [name |-> name, value |-> trim(value), alloc |-> st.hs[i].alloc]
      k == lower_bound(st.heap, st.hs[i].set, name)
  IN  [hs |-> [st.hs EXCEPT ![i].set = InsertAt(@, k, e), ![i].list = Append(@, e)],
       heap |-> [x \in DOMAIN st.heap \cup {e} |-> IF x = e THEN new ELSE st.heap[x]]]

insert(st, i, name, value) ==
  LET e == NextElem(st.heap)
      new == [name |-> name, value |-> trim(value), alloc |-> st.hs[i].alloc]
      k == upper_bound(st.heap, st.hs[i].set, name)
  IN  [hs |-> [st.hs EXCEPT ![i].set = InsertAt(@, k, e), ![i].list = Append(@, e)],
       heap |-> [x \in DOMAIN st.heap \cup {e} |-> IF x = e THEN new ELSE st.heap[x]]]

\* Elements leave the container and the heap.
Drop(st, i, gone) ==
  [hs |-> [st.hs EXCEPT ![i].set = Without(@, gone), ![i].list = Without(@, gone)],
   heap |-> [x \in DOMAIN st.heap \ gone |-> st.heap[x]]]

erase(st, i, name) == Drop(st, i, Range(Matching(st.heap, st.hs[i], name)))

clear(st, i) == Drop(st, i, Range(st.hs[i].list))

\* Field by field, in the order of the other container's list.
copy_from(st, i, j) ==
  LET from == st.hs[j].list
      after[k \in 0 .. Len(from)] ==
        IF k = 0 THEN st
        ELSE LET s == after[k - 1]
             IN  insert(s, i, s.heap[from[k]].name, s.heap[from[k]].value)
  IN  after[Len(from)]

\* The links move, and leave the other container empty.
Steal(st, i, j) ==
  [st EXCEPT !.hs[i].list = st.hs[j].list, !.hs[i].set = st.hs[j].set,
             !.hs[j].list = << >>, !.hs[j].set = << >>]

\* propagate: what the allocator's traits say of assignments.
copy_assign(st, i, j, propagate) ==
  LET s == clear(st, i)
  IN  copy_from([s EXCEPT !.hs[i].alloc = IF propagate THEN s.hs[j].alloc ELSE @], i, j)

move_assign(st, i, j, propagate) ==
  LET s == clear(st, i)
  IN  IF propagate THEN Steal([s EXCEPT !.hs[i].alloc = s.hs[j].alloc], i, j)
      ELSE IF s.hs[i].alloc # s.hs[j].alloc THEN clear(copy_from(s, i, j), j)
      ELSE Steal(s, i, j)

-----------------------------------------------------------------------------
\* The fields of the reference that have another name.
Others(fs, name) == Only(fs, {k \in DOMAIN fs : ~ci_equal(fs[k].name, name)})

HeadersInit ==
  /\ \E a \in Both : hs = [i \in Both |-> IF i = 2 THEN [NoFields EXCEPT !.alloc = a] ELSE NoFields]
  /\ heap = << >> /\ fields = [i \in Both |-> << >>]

Becomes(st) == hs' = st.hs /\ heap' = st.heap

Raw == [name |-> << >>, value |-> << >>, alloc |-> 0]

Room(n) == Cardinality(DOMAIN heap) + n <= MaxElems

Insert(i, name, value) ==
  /\ Room(1) /\ Becomes(insert(Store, i, name, value))
  /\ fields' = [fields EXCEPT ![i] = Append(@, [name |-> name, value |-> trim(value)])]

\* The constructor of the element throws: its memory is not returned.
InsertThrows(i) ==
  /\ Room(1)
  /\ LET e == NextElem(heap)
     IN  heap' = [x \in DOMAIN heap \cup {e} |-> IF x = e THEN Raw ELSE heap[x]]
  /\ UNCHANGED <<hs, fields>>

Replace(i, name, value) ==
  /\ Room(1) /\ Becomes(insert(erase(Store, i, name), i, name, trim(value)))
  /\ fields' = [fields EXCEPT
       ![i] = Append(Others(@, name), [name |-> name, value |-> trim(value)])]

\* The allocation in replace throws when the old fields are gone.
ReplaceThrows(i, name) ==
  /\ count_of(hs[i], name) > 0 /\ Becomes(erase(Store, i, name))
  /\ fields' = [fields EXCEPT ![i] = Others(@, name)]

Erase(i, name) ==
  /\ Becomes(erase(Store, i, name)) /\ fields' = [fields EXCEPT ![i] = Others(@, name)]

Clear(i) == Becomes(clear(Store, i)) /\ fields' = [fields EXCEPT ![i] = << >>]

\* Assignment from the other container.
CopyAssign(i, propagate) ==
  /\ Len(hs[3 - i].list) + Cardinality(DOMAIN heap) <= MaxElems + Len(hs[i].list)
  /\ Becomes(copy_assign(Store, i, 3 - i, propagate))
  /\ fields' = [fields EXCEPT ![i] = fields[3 - i]]

\* Assignment from itself: operator= clears the container it copies from.
SelfAssign(i) ==
  /\ Becomes(copy_assign(Store, i, i, FALSE)) /\ fields' = [fields EXCEPT ![i] = << >>]

\* The copy throws after its first field.
CopyThrows(i) ==
  /\ hs[3 - i].list # << >> /\ Room(1)
  /\ LET f == heap[hs[3 - i].list[1]]
     IN  Becomes(insert(clear(Store, i), i, f.name, f.value))
  /\ fields' = [fields EXCEPT ![i] = <<fields[3 - i][1]>>]

MoveAssign(i, propagate) ==
  /\ Len(hs[3 - i].list) + Cardinality(DOMAIN heap) <= MaxElems
  /\ Becomes(move_assign(Store, i, 3 - i, propagate))
  /\ fields' = [fields EXCEPT ![i] = fields[3 - i], ![3 - i] = << >>]

HeadersNext ==
  \/ \E i \in Both :
       \/ \E name \in Names :
            \/ \E value \in Values : Insert(i, name, value) \/ Replace(i, name, value)
            \/ ReplaceThrows(i, name) \/ Erase(i, name)
       \/ Clear(i) \/ InsertThrows(i) \/ SelfAssign(i) \/ CopyThrows(i)
       \/ \E propagate \in BOOLEAN : CopyAssign(i, propagate) \/ MoveAssign(i, propagate)

HeadersSpec == HeadersInit /\ [][HeadersNext]_hvars

-----------------------------------------------------------------------------
\* Iterating a container shows its fields in the order of insertion, with
\* trimmed values, whatever was erased, copied, moved or interrupted before;
\* the multiset links the same elements, so that find() returns the first
\* field of a name in any case and count() and erase() mean all of them.
\* Every element on the heap is in exactly one container, whose allocator it
\* came from and will be returned to; only the memory of an element whose
\* constructor threw is lost.
HeadersAgree ==
  /\ \A i \in Both :
       LET h == hs[i]
       IN  /\ [k \in DOMAIN h.list |-> FieldAt(h.list[k])] = fields[i]
           /\ Len(h.set) = Len(h.list) /\ Range(h.set) = Range(h.list)
           /\ \A e \in Range(h.list) : heap[e].alloc = h.alloc
           /\ \A name \in Names :
                LET fs == Only(fields[i], {k \in DOMAIN fields[i] : ci_equal(fields[i][k].name, name)})
                IN  /\ count_of(h, name) = Len(fs)
                    /\ find(h, name) = SubSeq(fs, 1, Min({1, Len(fs)}))
  /\ Range(hs[1].list) \cap Range(hs[2].list) = {}
  /\ Range(hs[1].list) \cup Range(hs[2].list) = {e \in DOMAIN heap : heap[e] # Raw}

=============================================================================
