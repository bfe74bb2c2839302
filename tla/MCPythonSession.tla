--------------------------- MODULE MCPythonSession ---------------------------
(* Small instances of PythonSession for TLC.                                *)
EXTENDS PythonSession
=============================================================================
