-------------------------- MODULE MCSpendAuthority --------------------------
EXTENDS SpendAuthority, TLC

CONSTANTS laptop, license, company, team

\* The company's account binds everything, the team's only the laptop.
BothBind == laptop :> {company, team} @@ license :> {company}
LaptopBinds == laptop :> {company, team}
Refund   == {-1}
Scopings == {{company}, {company, team}}
Budgets  == company :> 3 @@ team :> 2

\* Two laptops need a review, or no longer do. A single license is permitted, and
\* nobody asks for two.
Policy ==
  laptop  :> (1 :> {"permit"} @@ 2 :> Effects) @@
  license :> (1 :> {"permit"} @@ 2 :> {})

\* Whether a laptop needs a review depends on facts that change.
Facts == laptop :> [amount \in RequestAmounts |-> {"permit", "require_review"}]
=============================================================================
