----------------------------- MODULE MCChiScan -----------------------------
(* A small instance of ChiScan: three run periods, one or two BDTs.          *)
EXTENDS ChiScan

\* Shares of the data, in tenths; the second period may have none.
MCFractions == {<<2, 4, 4>>, <<5, 0, 5>>}

MCGrids == {<<2>>, <<3>>, <<2, 1>>, <<1, 2>>, <<2, 2>>}
=============================================================================
