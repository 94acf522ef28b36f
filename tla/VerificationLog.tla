--------------------------- MODULE VerificationLog ---------------------------
(***************************************************************************)
(* The rows of verification_logs: what logVerificationToDB writes of an    *)
(* outcome, and what the portal's history, its filters, the detail view    *)
(* and the dashboard make of a row afterwards.                             *)
(*                                                                         *)
(* An outcome is a record with the fields of VerifyOutcome that matter     *)
(* here: Reason ("" when verified), Status, ExistsOnChain, NotRevoked,     *)
(* SignatureValid and FieldHashesValid.                                    *)
(***************************************************************************)

\* The columns.  hash_verified is given the result of the field hashes.
\* (Mutant: a failure is stored without its reason.)
RowOfMutant(out) ==
  [result |-> IF out.Reason = "" THEN "success" ELSE "failure",
   failure_reason     |-> "",
   chain_verified     |-> out.ExistsOnChain,
   hash_verified      |-> out.FieldHashesValid,
   signature_verified |-> out.SignatureValid,
   status_at_verify   |-> out.Status]
RowOf(out) ==
  [result |-> IF out.Reason = "" THEN "success" ELSE "failure",
   failure_reason     |-> out.Reason,
   chain_verified     |-> out.ExistsOnChain,
   hash_verified      |-> out.FieldHashesValid,
   signature_verified |-> out.SignatureValid,
   status_at_verify   |-> out.Status]

-----------------------------------------------------------------------------
(* verifyResultDBToAPI, verifyResultAPIToDB. *)

StatusReasons == {"REVOKED", "SUSPENDED", "EXPIRED", "NOT_FOUND"}

StatusWord(reason) ==
  CASE reason = "REVOKED"   -> "revoked"
    [] reason = "SUSPENDED" -> "suspended"
    [] reason = "EXPIRED"   -> "expired"
    [] reason = "NOT_FOUND" -> "notFound"

VerifyResultDBToAPI(row) ==
  IF row.result = "success" THEN "valid"
  ELSE IF row.failure_reason \in StatusReasons THEN StatusWord(row.failure_reason)
  ELSE "tampered"

Filters == {"", "valid", "revoked", "suspended", "expired", "tampered", "notFound"}

\* What a filter asks of result and failure_reason, "" for nothing; columns
\* compare without regard to case.  (Mutant: tampered asks for no reason.)
AnyFailureMutant(f) ==
  CASE f = ""      -> [result |-> "", reason |-> ""]
    [] f = "valid" -> [result |-> "success", reason |-> ""]
    [] OTHER       -> [result |-> "failure", reason |-> ""]
VerifyResultAPIToDB(f) ==
  CASE f = ""         -> [result |-> "", reason |-> ""]
    [] f = "valid"    -> [result |-> "success", reason |-> ""]
    [] f = "tampered" -> [result |-> "failure", reason |-> "SIGNATURE_INVALID"]
    [] OTHER -> [result |-> "failure",
                 reason |-> CHOOSE r \in StatusReasons : StatusWord(r) = f]

Selects(f, row) ==
  LET asked == VerifyResultAPIToDB(f) IN
  /\ asked.result \in {"", row.result}
  /\ asked.reason \in {"", row.failure_reason}

-----------------------------------------------------------------------------
(* handleGetVerificationDetail.  (Mutant: only an active credential counts *)
(* as not revoked.)                                                        *)

NotRevokedWordsMutant == {"active"}
NotRevokedWords == {"active", "expired"}

Detail(row) ==
  [result         |-> VerifyResultDBToAPI(row),
   reason         |-> row.failure_reason,
   existsOnChain  |-> row.chain_verified,
   notRevoked     |-> IF row.status_at_verify = ""
                      THEN VerifyResultDBToAPI(row) \in {"valid", "expired"}
                      ELSE row.status_at_verify \in NotRevokedWords,
   signatureValid |-> row.signature_verified,
   hashMatches    |-> row.hash_verified]

\* recentVerifications, on the dashboard.
RecentStatus(row) ==
  CASE row.result = "success" -> "VALID"
    [] row.result = "failure" /\ row.failure_reason \in {"REVOKED", "SUSPENDED", "EXPIRED"}
         -> row.failure_reason
    [] OTHER -> "INVALID"
=============================================================================
