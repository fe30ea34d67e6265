------------------------------ MODULE MCControl ------------------------------
EXTENDS ControlPlane

Account(h, s, r, rh, low, box) ==
  [hard |-> h, soft |-> s, req |-> r, reqHard |-> rh, low |-> low, boxed |-> box]
\* One plan with all limits, and one that reports none and demotes the account.
MCPlan == {Account(3, 2, 1, 2, FALSE, FALSE), Account(None, None, None, None, TRUE, TRUE)}

Raw(h, s, u, r, n) ==
  [hard |-> h, soft |-> s, useHard |-> u, rate |-> r, reqUseHard |-> FALSE, never |-> n]
MCRawConfigs == {Raw(2, 1, TRUE, 0, FALSE)}
MCRates == {Unlimited, 0, 2}
MCDefault == Raw(1, 1, FALSE, 0, FALSE)
=============================================================================
