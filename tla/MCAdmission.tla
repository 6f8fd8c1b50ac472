---------------------------- MODULE MCAdmission ----------------------------
(***************************************************************************)
(* A small instance of Admission.  First and retry are the same request    *)
(* with the same key, reused is another with that key, which starts a      *)
(* batch for a developer's machine, and other is one of no key.            *)
(***************************************************************************)
EXTENDS Admission

CONSTANTS first, retry, reused, other, key, same, different

MCKeyOf ==
  [r \in Request |-> IF r \in {first, retry, reused} THEN key ELSE NoKey]

MCBodyOf == [r \in Request |-> IF r = reused THEN different ELSE same]

MCLimited == Request

MCHosted == Request \ {reused}
===========================================================================
