-------------------------- MODULE DeliveredRanges --------------------------
(***************************************************************************)
(* unsentRanges of PreparedContexts: what is left of the output of a       *)
(* command when what was delivered is taken out. A range is the units      *)
(* behind its start, up to its end.                                        *)
(***************************************************************************)
EXTENDS Naturals, Sequences, SequencesExt, FiniteSetsExt

\* What is left of a range when a delivery is taken out of it.
Cut(range, d) ==
    IF d.end <= range.start \/ d.start >= range.end THEN <<range>>
    ELSE (IF d.start > range.start THEN <<[start |-> range.start, end |-> d.start]>> ELSE << >>)
      \o (IF d.end < range.end THEN <<[start |-> d.end, end |-> range.end]>> ELSE << >>)

\* flatMap: a delivery is taken out of every range.
CutAll(ranges, d) == FlattenSeq([i \in DOMAIN ranges |-> Cut(ranges[i], d)])

\* Cut by cut, in the order of the deliveries.
UnsentRanges(start, end, sent) ==
    LET left[k \in 0..Len(sent)] ==
          IF k = 0
          THEN IF start < end THEN <<[start |-> start, end |-> end]>> ELSE << >>
          ELSE CutAll(left[k - 1], sent[k])
    IN  left[Len(sent)]

Units(range) == (range.start + 1)..range.end

\* unsentRanges(...).at(-1), by what it amounts to: the last stretch of the
\* units that are left.
LastRange(units) ==
    LET end == Max(units)
    IN  [start |-> Max({u \in 0..end : u \notin units}), end |-> end]

\* prepared-context.ts:121: whatever was delivered, the ranges that are left are
\* in order and make up what was not delivered. Only an empty delivery inside the
\* range can leave two that touch; without one the last range is the last
\* stretch, from which AutoRange goes on.
UnsentIsExact(range, sent) ==
    LET left  == UnsentRanges(range.start, range.end, sent)
        units == Units(range) \ UNION {Units(sent[k]) : k \in DOMAIN sent}
        full(d) == d.start < d.end \/ d.end <= range.start \/ d.start >= range.end
    IN  /\ UNION {Units(left[k]) : k \in DOMAIN left} = units
        /\ \A k \in 1..(Len(left) - 1) : left[k].end <= left[k + 1].start
        /\ (\A k \in DOMAIN sent : full(sent[k])) =>
             /\ \A k \in 1..(Len(left) - 1) : left[k].end < left[k + 1].start
             /\ left # << >> => left[Len(left)] = LastRange(units)
=============================================================================
