----------------------------- MODULE MCInspection -----------------------------
EXTENDS Inspection, TLC

\* For instances with several CLIs.
CLISymmetry == Permutations(CLIs)

=============================================================================
