--------------------------- MODULE MCEditorSession ---------------------------
(* Model-checked instances of EditorSession: their bounds are in the .cfg  *)
(* files, two loader slots and a few sessions being enough for a loader of *)
(* one package to outlive it into the next.                                *)
EXTENDS EditorSession
=============================================================================
