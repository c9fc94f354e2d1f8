-------------------------- MODULE MCAdminExchange --------------------------
(* AdminExchange with a probe, begin, two sections and the commit.         *)
EXTENDS AdminExchange
=============================================================================
