--------------------------- MODULE MCWindowResize ---------------------------
(* Model values for checking WindowResize: three sizes and a minimised     *)
(* window.                                                                 *)
EXTENDS WindowResize

MCSizes == {<<0, 0>>, <<1, 2>>, <<2, 1>>, <<2, 2>>}
=============================================================================
