-------------------------- MODULE MCSwigDelegation --------------------------
(* The instance of SwigDelegation that TLC checks: two policies, two       *)
(* guardians, a three-second window and one request for each way through   *)
(* the gates.                                                              *)
EXTENDS SwigDelegation

CONSTANTS p1, p2, g1, g2

MCPolicies == {p1, p2}
MCGuardians == {g1, g2}
MCRateLimit == 3
MCStartTime == 1
MCMaxTime == 8

Exit(p, g) == [policy |-> p, guardian |-> g, action |-> "exit", sizeBps |-> BPS,
               maxSlippageBps |-> 100, expectedOut |-> 1000, minOut |-> 995]

(* Both guardians ask for an exit of p1, one of them for one of p2, and p1 *)
(* is also asked for what each gate refuses and for the widest tolerance   *)
(* that still passes.                                                      *)
MCRequests ==
  { Exit(p1, g1), Exit(p1, g2), Exit(p2, g1),
    [Exit(p1, g1) EXCEPT !.action = "reduce"],
    [Exit(p2, g1) EXCEPT !.action = "hedge"],
    [Exit(p1, g1) EXCEPT !.sizeBps = BPS + 1],
    [Exit(p1, g1) EXCEPT !.minOut = 989],
    [Exit(p1, g2) EXCEPT !.maxSlippageBps = BPS, !.minOut = 0],
    [Exit(p1, g2) EXCEPT !.maxSlippageBps = BPS + 1] }
=============================================================================
