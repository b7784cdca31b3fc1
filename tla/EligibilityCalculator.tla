------------------------ MODULE EligibilityCalculator ------------------------
(***************************************************************************)
(* The income assistance estimate, a pure function of two rate tables and   *)
(* a request (app/domains/eligibility/calculator.py and models.py).         *)
(* Amounts are in cents.                                                    *)
(***************************************************************************)
EXTENDS Integers

\* EligibilityRequest: the fields of a spouse require a couple.
Valid(req) ==
    req.relationship_status = "SINGLE" => ~req.spouse_pwd /\ req.spouse_monthly_income = 0

EligibilityRequest(Amounts) ==
    {req \in [relationship_status : {"SINGLE", "COUPLE"}, num_dependants : 0..20,
              applicant_pwd : BOOLEAN, spouse_pwd : BOOLEAN,
              monthly_income : Amounts, spouse_monthly_income : Amounts,
              primary_vehicle_value : Amounts, other_vehicle_value : Amounts,
              other_asset_value : Amounts] : Valid(req)}

IsCouple(req) == req.relationship_status = "COUPLE"
HasDependants(req) == req.num_dependants > 0

FamilySize(req) == (IF IsCouple(req) THEN 2 ELSE 1) + req.num_dependants

TotalAssets(req) ==
    req.primary_vehicle_value + req.other_vehicle_value + req.other_asset_value

TotalIncome(req) == req.monthly_income + req.spouse_monthly_income

\* BR-D9-04.
ClassifyClientType(req) ==
    IF IsCouple(req)
      THEN IF req.applicant_pwd /\ req.spouse_pwd THEN "E"
           ELSE IF req.applicant_pwd \/ req.spouse_pwd THEN "C" ELSE "A"
      ELSE IF HasDependants(req)
             THEN IF req.applicant_pwd THEN "D" ELSE "B"
             ELSE IF req.applicant_pwd THEN "C" ELSE "A"

\* Mutant: the family is asked for before the designations.
FamilyFirst(req) ==
    IF req.applicant_pwd /\ req.spouse_pwd THEN "D"
    ELSE IF IsCouple(req) \/ HasDependants(req) THEN "B"
    ELSE IF req.applicant_pwd \/ req.spouse_pwd THEN "C" ELSE "A"

\* BR-D9-06.
AssetLimitCategory(req) ==
    IF req.applicant_pwd /\ req.spouse_pwd THEN "D"
    ELSE IF req.applicant_pwd \/ req.spouse_pwd THEN "C"
    ELSE IF IsCouple(req) \/ HasDependants(req) THEN "B" ELSE "A"

MaxRateTableFamilySize == 7

Capped(size) == IF size < MaxRateTableFamilySize THEN size ELSE MaxRateTableFamilySize

IncomeLimit(rates, req) == rates[Capped(FamilySize(req))][ClassifyClientType(req)]

Response(eligible, amount, reason, req) ==
    [eligible |-> eligible, estimated_amount |-> amount,
     ineligibility_reason |-> reason, client_type |-> ClassifyClientType(req)]

\* BR-D9-07 and 08.
Calculate(rates, limits, req) ==
    LET benefit == IncomeLimit(rates, req) - TotalIncome(req)
    IN  IF TotalAssets(req) > limits[AssetLimitCategory(req)]
          THEN Response(FALSE, 0, "assets_exceed_limit", req)
        ELSE IF benefit <= 0
          THEN Response(FALSE, 0, "income_exceeds_limit", req)
        ELSE Response(TRUE, benefit, "none", req)

Row(a, b, c, d, e) == [A |-> a, B |-> b, C |-> c, D |-> d, E |-> e]

\* The rates of August 2023, by family size.  A zero stands for no such family.
IncomeRates2023 ==
    << Row(106000,      0, 153550,      0,      0),
       Row(165000, 140500, 212550, 188050, 265250),
       Row(184500, 150000, 232050, 197550, 284750),
       Row(189500, 155000, 237050, 202550, 289750),
       Row(194500, 160000, 242050, 207550, 294750),
       Row(199500, 165000, 247050, 212550, 299750),
       Row(204500, 170000, 252050, 217550, 304750) >>

AssetLimits2023 ==
    [A |-> 500000, B |-> 1000000, C |-> 10000000, D |-> 20000000]

=============================================================================
