---------------------------- MODULE MCHeapSnapshot ----------------------------
(* Constants for checking HeapSnapshot with TLC.                             *)
EXTENDS HeapSnapshot

CONSTANTS t1, t2, server

(* The server thread is the youngest, or stands between the others.          *)
ServerLast == <<t1, t2, server>>
ServerSecond == <<t1, server, t2>>
=============================================================================
