-------------------------- MODULE MCEditorHistory --------------------------
EXTENDS EditorHistory
=============================================================================
