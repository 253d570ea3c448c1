------------------------------ MODULE MCH3Body ------------------------------
(* H3Body for a main server and one virtual host, with small limits.       *)
EXTENDS H3Body

Unlimited == 9
DefaultValues == [f \in Limits |-> IF f = "h3_max_response_body_size" THEN Unlimited ELSE 3]
MaximumValues == [f \in Limits \cup {"h3_port"} |-> 4]
ServerAddrs == [v \in 1..2 |-> IF v = 1 THEN <<0, 3>> ELSE <<>>]
DirectiveArguments == [v \in 1..2 |-> IF v = 1 THEN {0, 2} ELSE {-1, 4, 5}]
=============================================================================
