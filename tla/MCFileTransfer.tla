--------------------------- MODULE MCFileTransfer ----------------------------
(* A file of two blocks, sent one way.                                        *)
EXTENDS FileTransfer

CONSTANTS a, b, f1, f2
MCPlan == {<<a, f1>>, <<a, f2>>}
\* both ends send a file of the same name and size
MCCrossPlan == {<<a, f1>>, <<b, f1>>}
=============================================================================
