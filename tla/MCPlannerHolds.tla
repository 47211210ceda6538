-------------------------- MODULE MCPlannerHolds --------------------------
(* PlannerHolds for TLC: a member's browser and machine, and a rival's browser. *)
EXTENDS PlannerHolds, TLC

CONSTANTS k1, k2, k3, browser, machine, rival

Accounts == (browser :> "member") @@ (machine :> "member") @@ (rival :> "rival")

Load(a, b, c, resets, archives) ==
    [loginOf |-> (k1 :> a) @@ (k2 :> b) @@ (k3 :> c), resets |-> resets, archives |-> archives]

\* Three links of one account through one browser login; a browser's, a machine's and
\* another account's; two links of a machine; the member's two logins.
MCLoads ==
    {Load(browser, browser, browser, 1, 0), Load(browser, browser, browser, 0, 1),
     Load(browser, machine, rival, 0, 0), Load(machine, machine, NoLogin, 1, 1),
     Load(browser, machine, NoLogin, 1, 1)}
=============================================================================
