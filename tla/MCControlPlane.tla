--------------------------- MODULE MCControlPlane ---------------------------
(* A few signups, their staff and the migration command for TLC. *)
EXTENDS ControlPlane

CONSTANTS s3, d1, d2

(* All slugs but s3 agree in the bytes PostgreSQL keeps.                   *)
Kept == [s \in Slug |-> IF s = s3 THEN d2 ELSE d1]
=============================================================================
