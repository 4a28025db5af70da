---------------------------- MODULE AssemblerOps ----------------------------
(***************************************************************************)
(* The operations of storage/assembler.rs as operators on a sequence of    *)
(* contigs.  A contig is a hole (absent bytes) followed by data (present   *)
(* bytes); the sequence has always the length the build configures         *)
(* (ASSEMBLER_MAX_SEGMENT_COUNT), and contigs without data are unused.     *)
(* Operators in snake_case have the name of the function they model.       *)
(***************************************************************************)
EXTENDS Integers, Sequences, FiniteSetsExt

Contig(hole, data) == [hole_size |-> hole, data_size |-> data]
Empty == Contig(0, 0)
has_hole(g) == g.hole_size # 0
has_data(g) == g.data_size # 0
total_size(g) == g.hole_size + g.data_size

shrink_hole_to(g, size) == Contig(size, total_size(g) - size)

\* A new assembler, and a cleared one, with room for max contigs.
new_contigs(max) == [i \in 1..max |-> Empty]

\* The bytes, absent and present, that contigs from..to stand for.
SpanOf(c, from, to) ==
    LET sum[i \in (from - 1)..to] ==
            IF i < from THEN 0 ELSE sum[i - 1] + total_size(c[i])
    IN IF to < from THEN 0 ELSE sum[to]

peek_front(c) == IF has_hole(c[1]) THEN 0 ELSE c[1].data_size

no_data(c) == ~has_data(c[1])

\* The contigs from `at` on move up; the last place becomes unused.
remove_contig_at(c, at) ==
    [i \in DOMAIN c |-> IF i < at THEN c[i]
                        ELSE IF i < Len(c) THEN c[i + 1] ELSE Empty]

\* The contigs from `at` on move down to make room for g.
add_contig_at(c, at, g) ==
    [i \in DOMAIN c |-> IF i < at THEN c[i] ELSE IF i = at THEN g ELSE c[i - 1]]

Result(ok, n, c) == [ok |-> ok, n |-> n, contigs |-> c]
TooManyHoles(c) == Result(FALSE, 0, c)
-----------------------------------------------------------------------------
(***************************************************************************)
(* add(offset, size): find the contig the range starts in or right after,  *)
(* then either split its hole, or grow it over everything the range        *)
(* touches.                                                                *)
(***************************************************************************)
\* The search loop stops at the first unused contig or the first one that
\* does not end before the offset.
StartContigs(c, offset) ==
    {i \in DOMAIN c : ~has_data(c[i]) \/ offset <= SpanOf(c, 1, i)}

\* How far right of contig i (grown to g) the coalescing loop reaches when
\* the range ends at `end`, counted like the offset from the start of g.
CoalescedUpTo(c, i, g, end) ==
    Max({i} \cup {j \in (i + 1)..Len(c) :
        \A k \in (i + 1)..j :
            /\ has_data(c[k])
            /\ end >= total_size(g) + SpanOf(c, i + 1, k - 1) + c[k].hole_size})

\* Contig i becomes `merged`, grown by `left`; the contigs after it move up by
\* `shift` and the first of them gives `left` of its hole.
Coalesced(c, i, shift, merged, left) ==
    LET shifted(x) == IF x + shift <= Len(c) THEN c[x + shift] ELSE Empty
    IN [x \in DOMAIN c |->
          IF x < i THEN c[x]
          ELSE IF x = i THEN Contig(merged.hole_size, merged.data_size + left)
          ELSE IF x = i + 1 /\ has_data(shifted(x))
               THEN Contig(shifted(x).hole_size - left, shifted(x).data_size)
          ELSE shifted(x)]

\* Contig i becomes g together with the contigs up to j, which the range
\* touches; what the range covers beyond them is taken from the next hole.
GrownUpTo(c, i, g, end, j) ==
    LET merged == Contig(g.hole_size, g.data_size + SpanOf(c, i + 1, j))
    IN Coalesced(c, i, j - i, merged, Max({0, end - total_size(merged)}))

Grown(c, i, g, end) == GrownUpTo(c, i, g, end, CoalescedUpTo(c, i, g, end))

\* The range starts `rel` after the start of contig i.
SplitHole(c, i, rel, size) ==
    IF has_data(c[Len(c)]) THEN TooManyHoles(c)
    ELSE Result(TRUE, 0, [add_contig_at(c, i, Contig(rel, size)) EXCEPT
                            ![i + 1].hole_size = @ - (rel + size)])
GrowOver(c, i, rel, size) ==
    Result(TRUE, 0, Grown(c, i, IF rel < c[i].hole_size THEN shrink_hole_to(c[i], rel)
                                ELSE c[i], rel + size))

\* Mutant: a range that ends where the data of the contig starts is kept apart.
AddAtWithoutTouch(c, i, rel, size) ==
    IF ~has_data(c[i]) THEN Result(TRUE, 0, [c EXCEPT ![i] = Contig(rel, size)])
    ELSE IF rel + size <= c[i].hole_size THEN SplitHole(c, i, rel, size)
    ELSE GrowOver(c, i, rel, size)

AddAt(c, i, rel, size) ==
    IF ~has_data(c[i]) THEN Result(TRUE, 0, [c EXCEPT ![i] = Contig(rel, size)])
    ELSE IF rel + size < c[i].hole_size THEN SplitHole(c, i, rel, size)
    ELSE GrowOver(c, i, rel, size)

add(c, offset, size) ==
    LET i == Min(StartContigs(c, offset))
    IN IF size = 0 THEN Result(TRUE, 0, c)
       ELSE IF StartContigs(c, offset) = {} THEN TooManyHoles(c)
       ELSE AddAt(c, i, offset - SpanOf(c, 1, i - 1), size)
-----------------------------------------------------------------------------
remove_front(c) ==
    IF has_hole(c[1]) \/ ~has_data(c[1]) THEN Result(TRUE, 0, c)
    ELSE Result(TRUE, c[1].data_size, remove_contig_at(c, 1))

FrontRemoved(added) == IF added.ok THEN remove_front(added.contigs) ELSE added

\* Mutant: without the special case, offset 0 can meet a full assembler.
add_then_remove_front_plain(c, offset, size) == FrontRemoved(add(c, offset, size))

add_then_remove_front(c, offset, size) ==
    IF offset = 0 /\ size < c[1].hole_size
    THEN Result(TRUE, size, [c EXCEPT ![1].hole_size = @ - size])
    ELSE FrontRemoved(add(c, offset, size))

\* Mutant: a range starts after its own hole, counted from the first offset.
iter_data_not_advanced(c, first_offset) ==
    LET left(i) == first_offset + c[i].hole_size
        range(i) == <<left(i), left(i) + c[i].data_size>>
        used == {i \in DOMAIN c : has_data(c[i])}
    IN [k \in 1..Cardinality(used) |->
          range(CHOOSE i \in used : Cardinality({x \in used : x <= i}) = k)]

\* The ranges iter_data yields, as pairs <<left, right>>.
iter_data(c, first_offset) ==
    LET left(i) == first_offset + SpanOf(c, 1, i - 1) + c[i].hole_size
        range(i) == <<left(i), left(i) + c[i].data_size>>
        used == {i \in DOMAIN c : has_data(c[i])}
    IN [k \in 1..Cardinality(used) |->
          range(CHOOSE i \in used : Cardinality({x \in used : x <= i}) = k)]
=============================================================================
