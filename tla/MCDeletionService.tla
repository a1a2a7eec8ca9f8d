-------------------------- MODULE MCDeletionService -------------------------
(* Instances of DeletionService for TLC.                                   *)
EXTENDS DeletionService

(* Record 2 is derived from record 1; record 3 stands alone.               *)
OneLink == {<<2, 1, "derived_from">>} \cap (Existing \X Existing \X Relations)
=============================================================================
