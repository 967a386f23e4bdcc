---------------------------- MODULE MCEditorMaps ----------------------------
(***************************************************************************)
(* EditorMaps for TLC.  No symmetry, as liveness is checked.               *)
(***************************************************************************)
EXTENDS EditorMaps
=============================================================================
