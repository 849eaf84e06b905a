---------------------------- MODULE MCCamEditor -----------------------------
(***************************************************************************)
(* A CAM of two sections, one of which may join late, edited by its        *)
(* analyst and a reviewer while the pipeline regenerates it.  The two      *)
(* sessions are interchangeable.                                           *)
(***************************************************************************)
EXTENDS CamEditor, TLC

EditorSymmetry == Permutations(Editors)
=============================================================================
