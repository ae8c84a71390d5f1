---------------------------- MODULE MCDbSemaphore ----------------------------
(* DbSemaphore with more goroutines than tokens, so that the channel fills, *)
(* several goroutines park and the queue has an order to keep.             *)
EXTENDS DbSemaphore
=============================================================================
