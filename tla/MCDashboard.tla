----------------------------- MODULE MCDashboard -----------------------------
(***************************************************************************)
(* A small instance of Dashboard: a request that was over when the page    *)
(* was opened and one that is proxied meanwhile.                           *)
(***************************************************************************)
EXTENDS DashboardProperties

\* What may go wrong together.  Each behaviour has one of these sets.
FaultChoices == {{"elsewhere", "fail"}, {"drop", "die"}, {"hasty"}, {"overtake"}}
=============================================================================
