----------------------------- MODULE MCStackPlot -----------------------------
(* Small instances of StackPlot.                                           *)
EXTENDS StackPlot

Mc == [kind |-> "mc", training |-> FALSE, signal |-> FALSE,
       validate |-> FALSE, mergedown |-> FALSE, on_top |-> FALSE]

\* The kinds of entries the repository's XMLs are made of.
MCFileTypes ==
    {Mc,
     [Mc EXCEPT !.signal = TRUE, !.on_top = TRUE],
     [Mc EXCEPT !.signal = TRUE, !.mergedown = TRUE],
     [Mc EXCEPT !.mergedown = TRUE],
     [Mc EXCEPT !.kind = "offbeam"],
     [Mc EXCEPT !.kind = "offbeam", !.signal = TRUE],
     [Mc EXCEPT !.kind = "onbeam"],
     [Mc EXCEPT !.training = TRUE],
     [Mc EXCEPT !.validate = TRUE]}
=============================================================================
