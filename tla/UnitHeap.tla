------------------------------ MODULE UnitHeap ------------------------------
(***************************************************************************)
(* The priority list of GOrder: class UnitHeap in                          *)
(* thirdparty/faiss/faiss/IndexHNSW.cpp.  The elements 0..n-1 form one     *)
(* doubly linked list, sorted by decreasing key and entered at top; the    *)
(* elements with key k are contiguous, from Header[k].first to             *)
(* Header[k].second.  A decrement is only noted in update, and applied in  *)
(* part when the element reaches the top.                                  *)
(*                                                                         *)
(* A heap is a record; a method is an operator from heap to heap.  An      *)
(* element that left the list has update near INT_MAX / 2.                 *)
(***************************************************************************)
EXTENDS Integers, Sequences, FiniteSets, TLC

Nil == -1
IntMaxHalf == 1073741823

\* C++ division rounds toward zero.
Halved(x) == IF x < 0 THEN -((-x) \div 2) ELSE x \div 2

MinHeaderSize == 4   \* max(size >> 4, 4), for fewer than 80 elements

\* The orders std::sort may leave the elements in: equal keys in any order.
SortedByKey(key) ==
  {tmp \in {[i \in 1..Cardinality(DOMAIN key) |-> p[i - 1]] : p \in Permutations(DOMAIN key)} :
     \A i \in 1..(Len(tmp) - 1) : key[tmp[i]] >= key[tmp[i + 1]]}

\* The constructor and ReConstruct, for at least two elements.
ReConstruct(key, update, tmp) ==
  LET n == Len(tmp)
      size == IF key[tmp[1]] + 1 > MinHeaderSize THEN key[tmp[1]] + 1 ELSE MinHeaderSize
      At(v) == CHOOSE i \in 1..n : tmp[i] = v
      Places(k) == {i \in 1..n : key[tmp[i]] = k}
      FirstOf(S) == CHOOSE i \in S : \A j \in S : i <= j
      LastOf(S) == CHOOSE i \in S : \A j \in S : i >= j
  IN [key |-> key,
      update |-> update,
      prev |-> [v \in DOMAIN key |-> IF At(v) = 1 THEN Nil ELSE tmp[At(v) - 1]],
      next |-> [v \in DOMAIN key |-> IF At(v) = n THEN Nil ELSE tmp[At(v) + 1]],
      Header |-> [k \in 0..(size - 1) |->
                    IF Places(k) = {} THEN [first |-> Nil, second |-> Nil]
                    ELSE [first |-> tmp[FirstOf(Places(k))], second |-> tmp[LastOf(Places(k))]]],
      top |-> tmp[1]]

\* "Header[key] no longer holds index", whose neighbours were prev and next.
HeaderWithout(header, key, index, prev, next) ==
  LET ends == header[key]
  IN [header EXCEPT ![key] =
        IF ends.first = ends.second THEN [first |-> Nil, second |-> Nil]
        ELSE IF ends.first = index THEN [ends EXCEPT !.first = next]
        ELSE IF ends.second = index THEN [ends EXCEPT !.second = prev]
        ELSE ends]

\* f with the value at v changed, for the stores guarded by "if (v >= 0)".
Store(f, v, x) == IF v = Nil THEN f ELSE [f EXCEPT ![v] = x]

\* A plausible slip: the successor keeps its link to the deleted element.
DeleteElementHalf(h, index) ==
  LET prev == h.prev[index]
      next == h.next[index]
  IN [h EXCEPT
        !.next = [Store(h.next, prev, next) EXCEPT ![index] = Nil],
        !.prev = [h.prev EXCEPT ![index] = Nil],
        !.Header = HeaderWithout(h.Header, h.key[index], index, prev, next),
        !.top = IF h.top = index THEN next ELSE h.top]

DeleteElement(h, index) ==
  LET prev == h.prev[index]
      next == h.next[index]
  IN [h EXCEPT
        !.next = [Store(h.next, prev, next) EXCEPT ![index] = Nil],
        !.prev = [Store(h.prev, next, prev) EXCEPT ![index] = Nil],
        !.Header = HeaderWithout(h.Header, h.key[index], index, prev, next),
        !.top = IF h.top = index THEN next ELSE h.top]

NewKey(h) == h.key[h.top] + h.update[h.top] - Halved(h.update[h.top])

\* DecreaseTop leaves the heap alone unless the top sinks below its successor.
TopSinks(h) ==
  /\ h.update[h.top] < 0
  /\ h.next[h.top] # Nil
  /\ NewKey(h) < h.key[h.next[h.top]]

\* The loop of DecreaseTop: from the bucket of the top, the last bucket p whose
\* key is at least newkey.
LastBucketAtLeast(h, newkey) ==
  LET Bucket[k \in 0..h.key[h.top]] ==
        LET tmp == h.next[h.Header[k].second]
        IN IF tmp # Nil /\ h.key[tmp] >= newkey THEN Bucket[h.key[tmp]] ELSE k
  IN Bucket[h.key[h.top]]

DecreaseTop(h) ==
  LET tmptop == h.top
      key == h.key[tmptop]
      next == h.next[tmptop]
      newkey == NewKey(h)
      psecond == h.Header[LastBucketAtLeast(h, newkey)].second
      tailnext == h.next[psecond]
      header == [h.Header EXCEPT ![key] =
                   IF @.first = @.second THEN [first |-> Nil, second |-> Nil]
                   ELSE [@ EXCEPT !.first = next]]
  IN [h EXCEPT
        !.prev = Store([h.prev EXCEPT ![next] = Nil, ![tmptop] = psecond], tailnext, tmptop),
        !.next = [h.next EXCEPT ![tmptop] = tailnext, ![psecond] = tmptop],
        !.top = next,
        !.Header = [header EXCEPT ![newkey] =
                      [first |-> IF @.first = Nil THEN tmptop ELSE @.first, second |-> tmptop]],
        !.key[tmptop] = newkey,
        !.update[tmptop] = Halved(@)]

\* "Header.resize(key + 5)" when key is past its end.
Resized(header, key) ==
  IF key \in DOMAIN header THEN header
  ELSE [k \in 0..(key + 4) |-> IF k \in DOMAIN header THEN header[k]
                               ELSE [first |-> Nil, second |-> Nil]]

IncrementKey(h, index) ==
  LET key == h.key[index]
      head == h.Header[key].first
      prev == h.prev[index]
      next == h.next[index]
      headprev == h.prev[head]
      moved == IF head = index THEN h
               ELSE [h EXCEPT
                       !.next = [Store([@ EXCEPT ![prev] = next], headprev, index)
                                   EXCEPT ![index] = head],
                       !.prev = [Store(@, next, prev) EXCEPT ![index] = headprev, ![head] = index]]
      header == Resized(HeaderWithout(h.Header, key, index, prev, next), key + 1)
  IN [moved EXCEPT
        !.key[index] = key + 1,
        !.Header = [header EXCEPT ![key + 1] =
                      [first |-> IF @.first = Nil THEN index ELSE @.first, second |-> index]],
        !.top = IF h.key[h.top] < key + 1 /\ h.top # index THEN index ELSE h.top]

\* The pattern of generateGorderPermutation: "if (update[w] == 0)
\* IncrementKey(w); else update[w]++".
Increment(h, w) == IF h.update[w] = 0 THEN IncrementKey(h, w) ELSE [h EXCEPT !.update[w] = @ + 1]

decrementKey(h, w) == [h EXCEPT !.update[w] = @ - 1]

-----------------------------------------------------------------------------
\* The list of h is a permutation of S in decreasing order of key, linked both
\* ways, and the headers are the ends of the runs of equal keys.
ListWellFormed(h, S) ==
  LET n == Cardinality(S)
      At[i \in 1..n] == IF i = 1 THEN h.top ELSE h.next[At[i - 1]]
  IN IF n = 0 THEN h.top = Nil
     ELSE /\ h.top \in S /\ h.prev[h.top] = Nil
          /\ \A v \in S :
               /\ h.next[v] # Nil => /\ h.next[v] \in S
                                     /\ h.prev[h.next[v]] = v
                                     /\ h.key[v] >= h.key[h.next[v]]
               /\ h.key[v] \in DOMAIN h.Header
          /\ {At[i] : i \in 1..n} = S /\ h.next[At[n]] = Nil
          /\ \A k \in DOMAIN h.Header :
               LET run == {i \in 1..n : h.key[At[i]] = k}
               IN IF run = {} THEN h.Header[k] = [first |-> Nil, second |-> Nil]
                  ELSE /\ \E i \in run : At[i] = h.Header[k].first /\ \A j \in run : i <= j
                       /\ \E i \in run : At[i] = h.Header[k].second /\ \A j \in run : j <= i
=============================================================================
