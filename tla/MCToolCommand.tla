---------------------------- MODULE MCToolCommand ----------------------------
EXTENDS ToolCommand

=============================================================================
