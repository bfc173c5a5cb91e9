------------------------------ MODULE Memarray ------------------------------
(***************************************************************************)
(* The pool allocator (bpf/memarray.c): a free list threaded through the   *)
(* free elements, here the sequence of the elements from its head on.      *)
(* memarray_reduce() and memarray_available() have no caller and are left  *)
(* out.                                                                    *)
(***************************************************************************)
EXTENDS Integers, Sequences

\* memarray_free(): the element becomes the head.
Freed(list, element) == <<element>> \o list

\* memarray_extend() frees num elements one after the other, from low to high
\* addresses: the last one is the head.
Extended(list, num) == [k \in 1..num |-> num + 1 - k] \o list

\* memarray_init() starts from an empty list.
Fresh(num) == Extended(<<>>, num)

\* memarray_alloc(): NULL, or the head and the list behind it.
Exhausted(list) == list = <<>>
Allocated(list) == Head(list)
Remaining(list) == Tail(list)
=============================================================================
