----------------------------- MODULE MCAcpAdapter -----------------------------
(* Values of the constants for the runs of AcpAdapter. *)
EXTENDS AcpAdapter

OrdinaryKinds == AllKinds \ {"badExpiry"}
ServedOnly == {"served"}
===============================================================================
