------------------------------ MODULE MCIntake ------------------------------
EXTENDS Intake, TLC

Rule(environments, verdict, expires) ==
  [environments |-> environments, verdict |-> verdict, expires |-> expires]

\* Two revisions: permission in one environment and approval with a deadline elsewhere;
\* approval at any time in the one and no rule for the other
Revisions ==
  {<<Rule({"staging"}, "ALLOW", FALSE), Rule({}, "REQUIRE_APPROVAL", TRUE)>>,
   <<Rule({"staging"}, "REQUIRE_APPROVAL", FALSE)>>}

Symmetry == Permutations(Servers)
=============================================================================
