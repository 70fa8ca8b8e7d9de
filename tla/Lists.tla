-------------------------------- MODULE Lists --------------------------------
(***************************************************************************)
(* What loops do to lists, as folds.                                       *)
(***************************************************************************)
EXTENDS Sequences, SequencesExt

(* for x in more: if x in wanted and len(list) < room: list.append(x)      *)
FillUp(list, more, wanted, room) ==
    FoldLeft(LAMBDA l, x : IF x \in wanted /\ Len(l) < room THEN Append(l, x) ELSE l, list, more)

(* [x for x in list if x in wanted]: there is room for all of them.        *)
Among(list, wanted) == FillUp(<<>>, list, wanted, Len(list))

=============================================================================
