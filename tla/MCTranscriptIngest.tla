------------------------- MODULE MCTranscriptIngest -------------------------
EXTENDS TranscriptIngest, TLC
CONSTANTS f1, f2, m1, m2, p1, p2

L(id, out) == [id |-> id, out |-> out]

TwoFiles == <<f1, f2>>

\* The first file grows, shrinks, or is exchanged; the second states more of an
\* event they share.
SharedContents == f1 :> {<<L(m2, 1)>>, <<L(m2, 1), L(m1, 1)>>}
               @@ f2 :> {<<L(m1, 2)>>}

\* An event of the first file, behind which another one stands, moves to the second.
MovedContents == f1 :> {<<L(m1, 2)>>, <<L(m2, 1), L(m1, 1)>>}
              @@ f2 :> {<<L(m2, 2)>>}

Symmetry == Permutations(Passes)
=============================================================================
