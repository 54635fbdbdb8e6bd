--------------------------- MODULE MCPublication ---------------------------
(* Instances of Publication for TLC: a few of the inputs, views and series of *)
(* hydrate.py, with the owners and needs they have there.                     *)
EXTENDS Publication

MCOwner ==
  [i \in Input |-> CASE i = "dataplane" -> "t3" [] OTHER -> "t2"]
MCReported == Input \ {"dataplane"}
MCSelectable == Input \cap {"label_inventory"}
MCBillingSelectable == Input \cap {"ai_billing"}
MCNonBlocking == Input \cap {"label_inventory", "ai_billing"}

MCNeeds ==
  [x \in Product |->
    CASE x \in {"maturity", "maturity_score"} -> {"dataplane", "label_inventory"}
      [] x = "maturity_owners" -> {"dataplane", "stack_detail"}
      [] x = "opportunities" -> {"signal_inventory", "capability_adoption"}
      [] x \in {"cost", "adaptive_rules", "value_savings"} -> {"dataplane"}
      [] x = "ai_cost" -> {"ai_billing"}
      [] x = "ai_assistant" -> {"assistant"}
      [] x \in {"service_accounts_total", "risk_service_accounts"} -> {"service_accounts"}]
MCDisabledOK ==
  [x \in Product |-> IF x \in {"maturity", "maturity_score"}
                       THEN {"label_inventory"} ELSE {}]

SameSchema == [t \in Tier |-> 1]
\* t3 still runs an older image than the tiers it hydrates from.
OlderT3 == [t \in Tier |-> IF t = "t3" THEN 1 ELSE 2]

OneTwoOne == [t \in Tier |-> IF t = "t2" THEN 2 ELSE 1]
OneTwoNone == [t1 |-> 1, t2 |-> 2, t3 |-> 0]
OneOneOne == [t \in Tier |-> 1]
=============================================================================
