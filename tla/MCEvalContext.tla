---------------------------- MODULE MCEvalContext ----------------------------
EXTENDS EvalContext

Bits == {0, 1}

=============================================================================
