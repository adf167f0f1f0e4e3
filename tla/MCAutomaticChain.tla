---------------------------- MODULE MCAutomaticChain ----------------------------
(* Values for the model checking of AutomaticChain: two views of what a collector
   stores, one of them also of what an interpolator stores, and an alert that has this
   view.  An analysis would be one more collector, with fewer outcomes. *)
EXTENDS AutomaticChain

CONSTANTS c, i, v, w, l

MCInputs == {<<c, v>>, <<c, w>>, <<i, v>>}
MCWatches == {<<v, l>>}
=============================================================================
