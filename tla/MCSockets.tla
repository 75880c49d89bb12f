----------------------------- MODULE MCSockets -----------------------------
(* Small instances of Sockets. *)
EXTENDS Sockets

CONSTANTS u, v, s1, s2, s3

(* The first user has two tabs open. *)
TwoTabs == [s \in Sockets |-> IF s = s3 THEN v ELSE u]
=============================================================================
