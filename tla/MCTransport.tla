---------------------------- MODULE MCTransport ----------------------------
(* Transport with records of two bytes and streams of four. *)
EXTENDS Transport
=============================================================================
