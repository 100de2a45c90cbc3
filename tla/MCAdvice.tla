------------------------------ MODULE MCAdvice ------------------------------
(***************************************************************************)
(* Chains for model checking Advice: any set of contracts over two         *)
(* expiries, one of which may be past, and three strikes of the nearer one.*)
(***************************************************************************)
EXTENDS Advice

AllChains ==
    {{Contract(k[1], k[2], k[3]) : k \in kept} :
       kept \in SUBSET (({1} \X {12, 24, 36} \X {"CE", "PE"}) \cup ({2} \X {24} \X {"CE", "PE"}))}
      \ {{}}
=============================================================================
