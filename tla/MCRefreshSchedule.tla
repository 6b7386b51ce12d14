-------------------------- MODULE MCRefreshSchedule --------------------------
(***************************************************************************)
(* Finite instances of RefreshSchedule.                                    *)
(***************************************************************************)
EXTENDS RefreshSchedule

OnePeriod == {2}
TwoPeriods == {1, 2}
==============================================================================
