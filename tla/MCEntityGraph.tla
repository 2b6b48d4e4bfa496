--------------------------- MODULE MCEntityGraph ---------------------------
(* Names and scores for the finite instances of EntityGraph. *)
EXTENDS EntityGraph

CONSTANTS d1, d2, d3

\* Two ways to write a person, two to write a company.
Known == {"Jo", "Joe", "Acme", "Acme Inc"}
Person == {"Jo", "Joe"}
Company == {"Acme", "Acme Inc"}

Texts == [t \in Docs |-> IF t = d1 THEN <<"Jo", "Joe", "Acme">> ELSE <<"Acme Inc", "Jo">>]
SameTexts == [t \in Docs |-> <<"Jo", "Acme">>]

Blocks == [n \in Names |-> IF n \in Person THEN "person" ELSE "company"]

\* The company's names are near enough to merge, the person's to ask somebody.
Scores == [n \in Names |-> [m \in Names |->
             IF n = m \/ {n, m} = Company THEN High
             ELSE IF {n, m} = Person THEN Review ELSE Low]]
=============================================================================
