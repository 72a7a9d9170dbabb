---------------------------- MODULE SurrealCalls ----------------------------
(***************************************************************************)
(* What one call of SurrealClient::exec can do to the database and to the  *)
(* handler that makes it.  exec posts a statement to SurrealDB and blocks. *)
(* It throws when the request fails or when the body is not JSON; any JSON *)
(* body is returned, whatever its "status" says (SurrealClient.cc:52-60).  *)
(*                                                                         *)
(*   "ok"      the statement ran and its rows came back                    *)
(*   "lost"    the request never reached the database; exec throws         *)
(*   "noreply" the statement ran, its answer was lost; exec throws         *)
(*   "error"   the database refused the statement with a JSON body; exec   *)
(*             returns it and the caller sees a result without rows        *)
(*                                                                         *)
(* Faults says which of them an instance allows, and whether the process   *)
(* may crash between two calls.                                            *)
(***************************************************************************)
CONSTANT Faults

ASSUME FaultsAssumption == Faults \subseteq {"lost", "noreply", "error", "crash"}

Outcomes == {"ok"} \cup (Faults \ {"crash"})

Applied(o) == o \in {"ok", "noreply"}

Throws(o) == o \in {"lost", "noreply"}

=============================================================================
