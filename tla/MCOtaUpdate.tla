---------------------------- MODULE MCOtaUpdate ----------------------------
(* OtaUpdate on a slot of eight bytes and a few releases around its limits. *)
EXTENDS OtaUpdate

\* 0.1.2, 0.1.3, 0.1.4-rc.0, 0.1.4-rc.1, 0.1.4 and 0.2.0
CONSTANTS oldest, old, empty, rc, new, huge

Stable(minor, patch) == [major |-> 0, minor |-> minor, patch |-> patch,
                         pre_release |-> None]
Candidate(n) == [Stable(1, 4) EXCEPT !.pre_release = [kind |-> Rc, number |-> n]]
MCVersionOf ==
  [r \in Release |->
     CASE r = oldest -> Stable(1, 2)
       [] r = old -> Stable(1, 3)
       [] r = empty -> Candidate(0)
       [] r = rc  -> Candidate(1)
       [] r = new -> Stable(1, 4)
       [] OTHER   -> Stable(2, 0)]

(* empty is a file without a byte; huge is so large that size + 4095 wraps *)
(* around.                                                                 *)
MCSizeOf ==
  [r \in Served |-> CASE r = old -> 5 [] r = oldest -> 4 [] r = empty -> 0
                      [] r = huge -> WordSize - 1
                      [] r = NoFirmware -> 3 [] OTHER -> 6]
=============================================================================
