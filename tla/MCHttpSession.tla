---------------------------- MODULE MCHttpSession ----------------------------
(* A head that can be cut in three, and bodies of up to three units, so    *)
(* that the rest of one can come in more than one read after the head.     *)
EXTENDS HttpSession

MCHeadLen == 3
MCMaxBody == 3
=============================================================================
