------------------------------- MODULE MCApi --------------------------------
(* Instances of Api: the lists of workers that requests give.  Handlers are *)
(* alike.                                                                   *)
EXTENDS Api, TLC

CONSTANTS a, b

Sa == Worker("scaler", a, TRUE)
Sb == Worker("scaler", b, TRUE)
Ca == Worker("scheduler", a, TRUE)
Bad == Worker("scaler", a, FALSE)

MCLists ==
  {<<Sa>>, <<Ca>>, <<Bad>>, <<Worker("scaler", Short, TRUE)>>, <<Worker("healer", a, TRUE)>>,
   <<Sa, Sb>>, <<Ca, Bad>>, <<Unknown, Sa>>}

MCNoLists == {}

Symmetry == Permutations(Handlers)
=============================================================================
