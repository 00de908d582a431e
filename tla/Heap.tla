-------------------------------- MODULE Heap --------------------------------
(* The allocator of user programs, umalloc.c: a circular list of free blocks, *)
(* sorted by address, from which malloc() takes the first that is large       *)
(* enough and to which free() returns one, joined with its neighbours.        *)
(* Addresses and sizes are in headers; 0 is the static header base, which     *)
(* lies below the heap.  A header that is in no list and in no use is not     *)
(* kept.                                                                      *)
EXTENDS Naturals, FiniteSets, FiniteSetsExt, Functions, TLC

CONSTANTS
  Units,    \* nunits of the requests
  NAlloc,   \* the least morecore() asks for (4096)
  HeapMax   \* bound: sbrk() fails beyond

VARIABLES
  ptr, size,   \* s.ptr and s.size of the headers in the list
  freep,       \* where the next search begins
  used,        \* sizes of the blocks given out
  brk          \* end of the heap

vars == <<ptr, size, freep, used, brk>>

(* The list after the first malloc() has found freep = 0.                     *)
Init ==
  /\ ptr = 0 :> 0 /\ size = 0 :> 0
  /\ freep = 0
  /\ used = <<>>
  /\ brk = 1

(* The k-th header from h on.                                                 *)
Along(next, h) ==
  LET at[k \in 0 .. Cardinality(DOMAIN next)] == IF k = 0 THEN h ELSE next[at[k - 1]]
  IN  at

FirstWith(S) == CHOOSE k \in S : \A j \in S : k <= j

(* free(), the search: the header p after which bp belongs.                   *)
Fits(next, bp, p) ==
  \/ bp > p /\ bp < next[p]
  \/ p >= next[p] /\ (bp > p \/ bp < next[p])

Before(next, start, bp) ==
  LET at == Along(next, start) IN
  at[FirstWith({k \in DOMAIN at : Fits(next, bp, at[k])})]

(* Mutant: a block is not joined with the one above it.                      *)
JoinUp_Never(l, p, bp, n) ==
  [ptr |-> bp :> l.ptr[p] @@ l.ptr, size |-> bp :> n @@ l.size, gone |-> {}]

(* free(), the joining: above, then below.                                    *)
JoinUp(l, p, bp, n) ==
  LET q == l.ptr[p] IN
  IF bp + n = q
  THEN [ptr |-> bp :> l.ptr[q] @@ l.ptr, size |-> bp :> n + l.size[q] @@ l.size, gone |-> {q}]
  ELSE [ptr |-> bp :> q @@ l.ptr, size |-> bp :> n @@ l.size, gone |-> {}]

JoinDown(l, p, bp) ==
  IF p + l.size[p] = bp
  THEN [ptr |-> [l.ptr EXCEPT ![p] = l.ptr[bp]], size |-> [l.size EXCEPT ![p] = @ + l.size[bp]],
        gone |-> l.gone \cup {bp}]
  ELSE [l EXCEPT !.ptr[p] = bp]

Returned(l, bp, n) ==
  LET p == Before(l.ptr, l.freep, bp)
      r == JoinDown(JoinUp(l, p, bp, n), p, bp)
      keep == DOMAIN r.ptr \ r.gone
  IN  [ptr |-> Restrict(r.ptr, keep), size |-> Restrict(r.size, keep), freep |-> p]

List == [ptr |-> ptr, size |-> size, freep |-> freep]

Becomes(l) == ptr' = l.ptr /\ size' = l.size /\ freep' = l.freep

free == \E bp \in DOMAIN used :
  /\ Becomes(Returned(List, bp, used[bp]))
  /\ used' = Restrict(used, DOMAIN used \ {bp})
  /\ UNCHANGED brk

(* The turns of malloc()'s loop, from the header after start round to it, at  *)
(* which a block of n units is found.                                         *)
Found(l, start, n) ==
  LET at == Along(l.ptr, start) IN {k \in DOMAIN at \ {0} : l.size[at[k]] >= n}

(* malloc(), when it has found the block after prevp: all of it, or its upper *)
(* end.                                                                       *)
Take(l, prevp, n) ==
  LET p == l.ptr[prevp]
      whole == l.size[p] = n
  IN  /\ IF whole
         THEN /\ ptr' = Restrict([l.ptr EXCEPT ![prevp] = l.ptr[p]], DOMAIN l.ptr \ {p})
              /\ size' = Restrict(l.size, DOMAIN l.size \ {p})
         ELSE ptr' = l.ptr /\ size' = [l.size EXCEPT ![p] = @ - n]
      /\ used' = (IF whole THEN p ELSE p + l.size[p] - n) :> n @@ used
      /\ freep' = prevp

(* morecore(): what sbrk() adds is returned to the list like any block.       *)
Asked(n) == IF n < NAlloc THEN NAlloc ELSE n

malloc == \E n \in Units :
  \/ /\ Found(List, freep, n) # {}
     /\ Take(List, Along(ptr, freep)[FirstWith(Found(List, freep, n)) - 1], n)
     /\ UNCHANGED brk
  \/ /\ Found(List, freep, n) = {}
     /\ brk + Asked(n) <= HeapMax
     /\ LET l == Returned(List, brk, Asked(n)) IN
        Take(l, Along(l.ptr, l.freep)[FirstWith(Found(l, l.freep, n)) - 1], n)
     /\ brk' = brk + Asked(n)

Next == malloc \/ free

Spec == Init /\ [][Next]_vars

-----------------------------------------------------------------------------

(* The units of the heap a header in the list, or a block given out, covers.  *)
Covers(h, n) == h .. h + n - 1

(* malloc()/free(), umalloc.c:24-90, in every order of calls: the free blocks *)
(* and the blocks given out cover the heap without overlap, so no byte is     *)
(* lost or given out twice; the list goes round once through the free blocks  *)
(* in order of address, freep is on it, and no two of them touch.             *)
HeapTiled ==
  /\ \A u \in 1 .. brk - 1 :
       Cardinality({h \in DOMAIN size : u \in Covers(h, size[h])})
       + Cardinality({h \in DOMAIN used : u \in Covers(h, used[h])}) = 1
  /\ \A h \in DOMAIN size : h # 0 => Covers(h, size[h]) # {} /\ Covers(h, size[h]) \subseteq 1 .. brk - 1
  /\ \A h \in DOMAIN used : Covers(h, used[h]) \subseteq 1 .. brk - 1
  /\ freep \in DOMAIN ptr
  /\ \A h \in DOMAIN ptr :
       /\ ptr[h] = LET above == {g \in DOMAIN ptr : g > h} IN IF above = {} THEN 0 ELSE Min(above)
       /\ h # 0 => h + size[h] \notin DOMAIN ptr

=============================================================================
