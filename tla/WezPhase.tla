------------------------------ MODULE WezPhase ------------------------------
(***************************************************************************)
(* The damage windows of WezPhase.h: a shot counts in the best window that *)
(* is open in the phase of the match. Angles are in tenths of a degree,    *)
(* ranges in decimetres, coefficients in tenths.                           *)
(***************************************************************************)
EXTENDS Naturals, FiniteSetsExt

Windows == <<[ata |-> 10, range |-> 9144, coeff |-> 10],
             [ata |-> 20, range |-> 10668, coeff |-> 3],
             [ata |-> 30, range |-> 12192, coeff |-> 1]>>

Phases == DOMAIN Windows
MinRange == 1524

WidestOpen(phase) == Windows[phase]

Hit(w, ata, d) == ata <= w.ata /\ d \in MinRange .. w.range

BestCoeff(phase, ata, d) ==
  Max({0} \cup {Windows[i].coeff : i \in {j \in 1 .. phase : Hit(Windows[j], ata, d)}})
=============================================================================
