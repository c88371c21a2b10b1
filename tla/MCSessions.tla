----------------------------- MODULE MCSessions -----------------------------
(* Small instance of Sessions: one tab, beside clients that present every  *)
(* key there ever was.                                                     *)
EXTENDS Sessions

CONSTANT tab

MCPages == {tab}
=============================================================================
