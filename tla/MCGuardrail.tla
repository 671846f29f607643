------------------------------ MODULE MCGuardrail ------------------------------
(* A chain of three roles, as config/org.yaml has many.                        *)
EXTENDS Guardrail

CONSTANTS eng, lead, chief

Chain == [r \in {eng, lead, chief} |->
            IF r = eng THEN lead ELSE IF r = lead THEN chief ELSE NoRole]
===============================================================================
