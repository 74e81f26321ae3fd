----------------------------- MODULE RegionSet -----------------------------
(* fs/remote/util.go: inclusive byte ranges, and sorted sequences of them.   *)
EXTENDS Integers, Sequences, SequencesExt

region(b, e) == [b |-> b, e |-> e]

Size(r) == r.e - r.b + 1

superRegion(regs) ==
    region(Min({regs[i].b : i \in 1 .. Len(regs)}), Max({regs[i].e : i \in 1 .. Len(regs)}))

\* Mutant: a region that r touches from above is not absorbed.
RECURSIVE addAtOverlap(_, _, _)
addAtOverlap(rs, r, i) ==
    IF i = 0 THEN <<r>> \o rs
    ELSE LET l == rs[i] IN
         IF l.b <= r.b /\ r.e <= l.e THEN rs
         ELSE IF r.b <= l.b /\ l.e <= r.e
         THEN addAtOverlap(RemoveAt(rs, i), r, i - 1)
         ELSE IF l.e < r.b THEN InsertAt(rs, i + 1, r)
         ELSE addAtOverlap(rs, r, i - 1)

\* The loop of add, from the i-th region down: a region that contains r ends
\* it, one that r overlaps or touches is absorbed, one before r gets r behind
\* it.  The first case that holds is taken.
RECURSIVE addAt(_, _, _)
addAt(rs, r, i) ==
    IF i = 0 THEN <<r>> \o rs
    ELSE LET l == rs[i] IN
         IF l.b <= r.b /\ r.e <= l.e THEN rs
         ELSE IF l.b <= r.b /\ r.b <= l.e + 1 /\ l.e <= r.e
         THEN addAt(RemoveAt(rs, i), region(l.b, r.e), i - 1)
         ELSE IF r.b <= l.b /\ l.b <= r.e + 1 /\ r.e <= l.e
         THEN addAt(RemoveAt(rs, i), region(r.b, l.e), i - 1)
         ELSE IF r.b <= l.b /\ l.e <= r.e
         THEN addAt(RemoveAt(rs, i), r, i - 1)
         ELSE IF l.e < r.b THEN InsertAt(rs, i + 1, r)
         ELSE addAt(rs, r, i - 1)

add(rs, r) == addAt(rs, r, Len(rs))

totalSize(rs) == FoldSeq(LAMBDA r, sz : sz + Size(r), 0, rs)

Bytes(rs) == UNION {rs[i].b .. rs[i].e : i \in 1 .. Len(rs)}

\* Sorted, without overlaps, and squashed: no two regions touch.
Normal(rs) == \A i \in 1 .. Len(rs) - 1 : rs[i].e + 1 < rs[i + 1].b
=============================================================================
