----------------------------- MODULE MCEditorHook -----------------------------
(* EditorHook for TLC: the turns may be of one window or of two.            *)
EXTENDS EditorHook

===============================================================================
