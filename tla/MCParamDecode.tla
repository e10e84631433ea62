---------------------------- MODULE MCParamDecode ----------------------------
(***************************************************************************)
(* Queries of up to four bytes over one letter and the three separators.  *)
(***************************************************************************)
EXTENDS ParamDecode

QueriesSmall == UNION {[1 .. n -> {"a", "=", "&", "+"}] : n \in 0 .. 4}
=============================================================================
