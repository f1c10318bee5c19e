-------------------------- MODULE MCAssistantPage --------------------------
EXTENDS AssistantPage, TLC, SequencesExt

CONSTANTS s1, s2, r1, w1, w2, t1, t2, none

MCCalls == {s1, s2, r1}
MCPages == {w1, w2}
MCTerminals == {t1, t2}
MCRepeats == {r1}
MCSymmetry == Permutations(MCPages) \cup Permutations(MCTerminals)

\* Every short history of deliveries, in order or not, touching, overlapping, empty or
\* outside of the range of the output that is retained.
MaxEnd == 5
MaxDeliveries == 3
Ranges == {r \in [start : 0..MaxEnd, end : 0..MaxEnd] : r.start <= r.end}

\* UnsentIsExact for every short history of deliveries.
ASSUME UnsentRangesAreExact ==
    \A range \in Ranges, sent \in BoundedSeq(Ranges, MaxDeliveries) :
      UnsentIsExact(range, sent)
=============================================================================
