---------------------------- MODULE MCEligibility ----------------------------
(* Two estimates at a time, two publications.  The first raises single        *)
(* applicants above those with one dependant, the second puts that right; no  *)
(* figure is lowered, and none is raised like another.                        *)
EXTENDS Eligibility, TLC
CONSTANTS r1, r2
MCRequests == {r1, r2}
\* Families around the cap of 7, incomes and assets around a rate and a limit.
MCInputs ==
    {req \in [relationship_status : {"SINGLE", "COUPLE"}, num_dependants : {0, 1, 5, 6},
              applicant_pwd : BOOLEAN, spouse_pwd : BOOLEAN,
              monthly_income : {100000, 165000}, spouse_monthly_income : {0},
              primary_vehicle_value : {0}, other_vehicle_value : {0},
              other_asset_value : {1000000, 1000001}] : Valid(req)}
MCPublishedRates ==
    << [n \in FamilySizes |-> [c \in ClientTypes |->
          IncomeRates2023[n][c] + IF n = 1 /\ c = "A" THEN 60000 ELSE 1000 * n]],
       [n \in FamilySizes |-> [c \in ClientTypes |->
          IncomeRates2023[n][c] + IF c = "A" THEN 70000 ELSE 80000]] >>
MCPublishedLimits ==
    << [c \in Categories |-> AssetLimits2023[c] + IF c = "A" THEN 0 ELSE 1],
       [c \in Categories |-> AssetLimits2023[c] + IF c = "A" THEN 500001 ELSE 10000] >>
MCSymmetry == Permutations(MCRequests)
=============================================================================
