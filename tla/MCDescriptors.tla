--------------------------- MODULE MCDescriptors ---------------------------
(* A small instance of Descriptors for TLC. *)
EXTENDS Descriptors

\* The properties excuse everything that follows a restart that is not orderly, so
\* TLC need not look at it.
Excused == Orderly
=============================================================================
