---------------------------- MODULE TransferFaults ----------------------------
(***************************************************************************)
(* What a failed manifest, presign, GET or PUT says about trying again and  *)
(* about what the server may have written (sync/remote.py,                  *)
(* sync/transfer.py). Pure definitions.                                    *)
(***************************************************************************)
EXTENDS Naturals

TransferOperation == {"manifest", "presign", "GET", "PUT"}

(* Where in an exchange it can break, with what the client then sees.        *)
BeforeSending == {"invalid-url", "unsupported-protocol", "pool-timeout",
                  "connect-timeout", "connect-error", "tls-certificate"}
WhileSending == {"write-timeout", "write-error"}
WhileWaiting == {"read-timeout", "read-error", "remote-protocol-error", "unknown"}
ExceptionKind == BeforeSending \union WhileSending \union WhileWaiting

(* classify_exception: retry value and PUT evidence are separate questions.  *)
ClassifyException(kind, operation) ==
  [retry |-> IF kind \in {"tls-certificate", "invalid-url", "unsupported-protocol", "unknown"}
               THEN "permanent" ELSE "transient",
   write |-> IF operation # "PUT" THEN "not-applicable"
             ELSE IF kind \in BeforeSending THEN "not-written" ELSE "ambiguous"]

TransientStatus == {429, 500, 502, 503, 504}

(* Mutant: any failure of a PUT counts as not written.                       *)
ClassifyStatusFailed(status, operation) ==
  [retry |-> IF status \in TransientStatus THEN "transient" ELSE "permanent",
   write |-> IF operation # "PUT" THEN "not-applicable" ELSE "not-written"]

(* classify_status.                                                         *)
ClassifyStatus(status, operation) ==
  [retry |-> IF status = 403 /\ operation \in {"GET", "PUT"} THEN "expired-candidate"
             ELSE IF status \in TransientStatus THEN "transient" ELSE "permanent",
   write |-> IF operation # "PUT" THEN "not-applicable"
             ELSE IF status \in 400 .. 499 THEN "not-written" ELSE "ambiguous"]

(* put_via_presigned_url of a 2xx answer.                                    *)
AcceptedWrite(hasEtag) == IF hasEtag THEN "verified" ELSE "written-unverified"

(* aborts_origin: a failure after which the session sends that origin nothing *)
(* more.                                                                    *)
AbortsOrigin(kind, retry, operation) ==
  \/ kind = "tls-certificate"
  \/ /\ kind \in {"http-status", "invalid-response"}
     /\ retry = "permanent" /\ operation \in {"manifest", "presign"}

(* The answers of a GET that failed, by what download_with_retry does next.  *)
GetFault == {ClassifyException(k, "GET").retry : k \in ExceptionKind}
              \union {ClassifyStatus(s, "GET").retry : s \in {403, 404, 429, 503}}
=============================================================================
