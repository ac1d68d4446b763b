------------------------ MODULE MC_CategoricalAccuracy ------------------------
(* Model-checking instance of CategoricalAccuracy: three classes, two      *)
(* samples, prediction values 0..2 (so ties happen), one-hot truth.        *)
EXTENDS CategoricalAccuracy

MC_Preds == [Rows -> [Cols -> 0 .. 2]]

MC_Truths == {t \in [Rows -> [Cols -> {0, 1}]] :
                \A c \in Cols : Cardinality({f \in Rows : t[f][c] = 1}) = 1}
=============================================================================
