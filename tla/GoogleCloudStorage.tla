------------------------- MODULE GoogleCloudStorage -------------------------
(***************************************************************************)
(* platform::gcloud::GoogleCloudStorage: the credential of one instance,   *)
(* and what downloadObject does with it.  A credential is "fresh", "late"  *)
(* (it expires within kCredentialExpirationMarginSec), "expired" or "none" *)
(* yet.  The metadata server and the storage service are external; each    *)
(* request may fail.                                                       *)
(***************************************************************************)

VARIABLE credential  \* credential_

Credentials == {"none", "fresh", "late", "expired"}

StorageInit == credential = "none"

\* Time passes.
Expire ==
  \/ credential = "fresh" /\ credential' = "late"
  \/ credential = "late" /\ credential' = "expired"

\* The service answers requests with a credential that has not expired.
Accepted(c) == c \in {"fresh", "late"}

\* Variant for a mutation test: refresh only if there is no credential.
AuthenticateOnce(status) ==
  \/ credential # "none" /\ status = "ok" /\ UNCHANGED credential
  \/ credential = "none" /\ status = "ok" /\ credential' = "fresh"
  \/ credential = "none" /\ status = "error" /\ UNCHANGED credential

\* authenticate: keep a fresh credential, get one from GCE otherwise.
Authenticate(status) ==
  \/ credential = "fresh" /\ status = "ok" /\ UNCHANGED credential
  \/ credential # "fresh" /\ status = "ok" /\ credential' = "fresh"
  \/ credential # "fresh" /\ status = "error" /\ UNCHANGED credential

\* getObject authenticates again and does not look at the result.
GetObject(exists, status) ==
  /\ \E auth \in {"ok", "error"} : Authenticate(auth)
  /\ status = "ok" => exists /\ Accepted(credential')

\* The second half of downloadObject: authorize and execute a request for the
\* data.  A file that cannot be written ends the process.
GetMedia(status) ==
  /\ status = "ok" => Accepted(credential)
  /\ UNCHANGED credential
=============================================================================
