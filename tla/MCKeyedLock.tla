---------------------------- MODULE MCKeyedLock ----------------------------
(***************************************************************************)
(* KeyedLock for TLC: three callers over two keys, and as many heap        *)
(* objects as can be reachable at once.                                    *)
(***************************************************************************)
EXTENDS KeyedLock
=============================================================================
