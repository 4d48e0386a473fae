------------------------------ MODULE MCCache --------------------------------
(* Two units of different classes and three fetches, one of them a warm-up: *)
(* the budget holds one unit, or one and its decoded form.                  *)
EXTENDS Cache, TLC

MCKeyOf == "a" :> "x" @@ "b" :> "x" @@ "c" :> "y"
MCModes == [f \in Fetches |-> IF f = "b" THEN {"normal", "bypass"} ELSE {"normal"}]
MCClassOf == "x" :> 1 @@ "y" :> 2
MCCharge == "x" :> 2 @@ "y" :> 2
MCExtra == "x" :> 1 @@ "y" :> 0
MCFloor == 1 :> 0 @@ 2 :> 1
MCBudgets == <<3>>
MCWarm == <<"c">>
=============================================================================
