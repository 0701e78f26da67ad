---------------------------- MODULE MCCalibration ---------------------------
(* One Template, two seeds of which the causal runs use one and add another. *)
EXTENDS Calibration

MCTemplates == <<"T">>
MCSeeds == <<1, 2>>
MCCausalSeeds == <<2, 3>>
MCConfigs ==
    {c \in [stub : BOOLEAN, purpose : {"full", "smoke"}, bounded : BOOLEAN,
            reference : BOOLEAN, transfer : BOOLEAN] :
        \* of what makes an experiment unreleasable by itself, at most one
        ~(c.stub /\ c.purpose = "smoke")}

============================================================================
