--------------------------- MODULE MCBackupSeries ---------------------------
EXTENDS BackupSeries, TLC

\* One archive of the last day and one of each of the last two two-day periods:
\* of three days' archives the middle one goes.
SmallTiers == {[keep |-> 1, length |-> 1], [keep |-> 2, length |-> 2]}

Symmetry == Permutations(Runs)

=============================================================================
