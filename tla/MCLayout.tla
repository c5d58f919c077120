------------------------------ MODULE MCLayout ------------------------------
(***************************************************************************)
(* The dashboard's own constants and rows, in the smallest window, in one  *)
(* where the second row wraps two and one, and in the default size and a   *)
(* larger one, where nothing wraps.                                        *)
(***************************************************************************)
EXTENDS Layout

MCRows == << [height |-> 360, weights |-> <<1, 1>>], [height |-> 250, weights |-> <<1, 1, 1>>] >>
MCDeltas == {-97, 450}
MCWindows == {[w |-> 444, h |-> 340], [w |-> 724, h |-> 900], [w |-> 1264, h |-> 760],
              [w |-> 1900, h |-> 1000]}
=============================================================================
