------------------------------- MODULE Bitmap -------------------------------
(***************************************************************************)
(* The bitmap of kernel/tools/bitmap.c, and the page numbers that the      *)
(* allocator of core/memory.c takes from it.  A bitmap is the sequence of  *)
(* its bits; indices are counted from 0.                                   *)
(***************************************************************************)
EXTENDS Integers, Sequences, FiniteSetsExt

bitmap_init(count, init_bit) == [i \in 1 .. count |-> init_bit]

bitmap_get_bit(bits, index) == bits[index + 1]

bitmap_set_bit(bits, index, count, bit) ==
    [i \in DOMAIN bits |-> IF i - 1 \in index .. index + count - 1 THEN bit ELSE bits[i]]

\* The search from search_idx on, -1 if it finds nothing.  Behind the place it
\* has found the loop looks at count - 1 bits, and it begins with the same one.
RECURSIVE Search(_, _, _, _)
Search(bits, bit, count, search_idx) ==
    LET Bad(j) == bitmap_get_bit(bits, j) # bit
        wrong == {j \in search_idx .. search_idx + count - 2 : j < Len(bits) /\ Bad(j)}
    IN  IF search_idx >= Len(bits) THEN -1
        ELSE IF Bad(search_idx) THEN Search(bits, bit, count, search_idx + 1)
        ELSE IF wrong # {} THEN Search(bits, bit, count, Min(wrong) + 1)
        ELSE IF search_idx + count - 1 <= Len(bits) THEN search_idx
        ELSE -1

\* Mutant: the place that is found is not marked.
bitmap_alloc_nbits_Unmarked(bits, bit, count) ==
    [index |-> Search(bits, bit, count, 0), bits |-> bits]

\* The bits become ~bit, that is not zero for either value.
bitmap_alloc_nbits(bits, bit, count) ==
    LET ok_idx == Search(bits, bit, count, 0)
    IN  [index |-> ok_idx,
         bits |-> IF ok_idx < 0 THEN bits ELSE bitmap_set_bit(bits, ok_idx, count, 1)]

addr_alloc_page(bits, page_count) == bitmap_alloc_nbits(bits, 0, page_count)
addr_free_page(bits, index, page_count) == bitmap_set_bit(bits, index, page_count, 0)

=============================================================================
