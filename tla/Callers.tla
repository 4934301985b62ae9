------------------------------ MODULE Callers -------------------------------
(***************************************************************************)
(* Who calls hit(): requests, each on behalf of one key.                   *)
(***************************************************************************)
EXTENDS Clock

CONSTANTS
  Requests,  \* requests to limited routes; each is made once
  KeyOf      \* KeyOf[r]: req.user.id, or req.ip without a user

ASSUME KeyAssumption == KeyOf \in [Requests -> Keys]

=============================================================================
