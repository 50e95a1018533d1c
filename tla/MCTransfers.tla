----------------------------- MODULE MCTransfers -----------------------------
EXTENDS Transfers

Chosen == {u \in used : u[2] = 0}

\* Two files, two images or one of each, chosen in the order of their numbers;
\* requests next to a file, a second request and a second disturbance are for a
\* single transfer only.
FewTransfers ==
  /\ Cardinality(Chosen) <= 2
  /\ <<12, 0>> \in used => <<11, 0>> \in used
  /\ <<22, 0>> \in used => <<21, 0>> \in used
  /\ Cardinality(Chosen) = 2 =>
       requests <= 1 /\ faults <= 1 /\ (requests = 1 => Chosen \subseteq Images \X {0})
=============================================================================
