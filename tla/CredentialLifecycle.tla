------------------------ MODULE CredentialLifecycle ------------------------
(***************************************************************************)
(* What the ledger promises about the life of a credential, and nothing    *)
(* else: a credential appears once, is active or suspended for a while,    *)
(* and a revoked one stays revoked.  QChaincode implements this module.    *)
(***************************************************************************)
CONSTANT CredIDs

VARIABLE status

Statuses == {"absent", "active", "suspended", "revoked"}

Init == status = [c \in CredIDs |-> "absent"]

Move(c, from, to) ==
  /\ status[c] \in from
  /\ status' = [status EXCEPT ![c] = to]

Issue(c)   == Move(c, {"absent"}, "active")
Suspend(c) == Move(c, {"active"}, "suspended")
Restore(c) == Move(c, {"suspended"}, "active")
Revoke(c)  == Move(c, {"active", "suspended"}, "revoked")

Next == \E c \in CredIDs : Issue(c) \/ Suspend(c) \/ Restore(c) \/ Revoke(c)

Spec == Init /\ [][Next]_status
=============================================================================
