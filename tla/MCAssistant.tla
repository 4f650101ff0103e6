----------------------------- MODULE MCAssistant ------------------------------
(***************************************************************************)
(* Model-checking instance of Assistant: one thing goes wrong, a store     *)
(* call or the process, perhaps followed by a fault of the run or of its   *)
(* refund, and the key is not taken away once it is set.                   *)
(***************************************************************************)
EXTENDS Assistant

MCNext ==
    /\ Next
    /\ \/ UNCHANGED <<faults, crashes>>
       \/ faults' + crashes' <= IF slips' > slips THEN 2 ELSE 1
    /\ key # None => key' # None

MCSpec == Init /\ [][MCNext]_vars /\ Fairness

===============================================================================
