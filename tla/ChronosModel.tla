---------------------------- MODULE ChronosModel ----------------------------
(***************************************************************************)
(* Chronos (integrations/chronos): a pretrained model that is given the    *)
(* history of every instance as an array, and answers an array of steps    *)
(* for each, in the same order. Nothing is fitted, and neither array says  *)
(* when it is about.                                                       *)
(***************************************************************************)
EXTENDS ModelViews

ChronosDeclares == Declared("none", FALSE, {"observed", "known"}, {"point", "quantiles"})

(* inputs_for: the values of every instance, without their moments.        *)
Inputs(view) ==
  [n \in DOMAIN view.instances |->
     [of |-> view.instances[n], events |-> view.history[view.instances[n]]]]

Parts(output) ==
  IF output.kind = "point" THEN {Point}
  ELSE {<<level, <<"level", level>>>> : level \in output.levels}

(* The library continues every array, and answer labels what it answers.   *)
ChronosForecast(view, output, steps) ==
  LET inputs == Inputs(view)
      predicted == [n \in DOMAIN inputs |->
                      Continued(inputs[n].of, Max(inputs[n].events), steps[inputs[n].of])]
  IN IF \/ output.kind = "samples"
        \/ Len(predicted) # Len(view.instances)
        \/ \E n \in DOMAIN predicted : Len(predicted[n]) # view.horizon
     THEN Refused
     ELSE {Row(view.instances[n], EventTimes(view)[k], part, predicted[n][k]) :
             n \in DOMAIN predicted, k \in 1 .. view.horizon, part \in Parts(output)}
=============================================================================
