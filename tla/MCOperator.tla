----------------------------- MODULE MCOperator -----------------------------
EXTENDS Operator, TLC

Operates(llm, git, review) ==
  [operator |-> TRUE, watch |-> "off", llm |-> llm, git |-> git, review |-> review, dryRun |-> FALSE]

Watches(mode) ==
  [operator |-> FALSE, watch |-> mode, llm |-> "off", git |-> "off", review |-> "off", dryRun |-> FALSE]

FourConfigs == {Operates("auto", "auto", "auto"), Operates("assist", "off", "assist"),
                Watches("all"), Watches("run")}

=============================================================================
