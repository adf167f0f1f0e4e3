---------------------------- MODULE MCCollectCycle ----------------------------
(* Values for the model checking of CollectCycle. *)
EXTENDS CollectCycle

\* Files are numbered.  One data set: a file a day, the second without data for
\* the collector, the third with records of the evening after its name.
Daily == [f \in Files |-> 2 * f]
Evenings == [f \in Files |-> IF f = 3 THEN 2 * f + 1 ELSE 2 * f]
OneDataset == [f \in Files |-> 1]

\* Two data sets with files of the same days.
TwoDatasets == [f \in Files |-> IF f > 2 THEN 2 ELSE 1]
SameDays == [f \in Files |-> IF f > 2 THEN f - 2 ELSE f]
=============================================================================
