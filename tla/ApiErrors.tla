------------------------------ MODULE ApiErrors ------------------------------
(***************************************************************************)
(* The view model of an error in the browser client: its code, the HTTP    *)
(* status it came with (0: none) and whether a Retry-After came with it.   *)
(* Wording is left out, and so are the retryable flags, which nothing      *)
(* reads.                                                                  *)
(***************************************************************************)
EXTENDS Naturals

ServerCodes ==
    {"INVALID_INPUT", "SESSION_NOT_FOUND", "SESSION_EXPIRED",
     "UNSUPPORTED_FORMAT", "PAYLOAD_TOO_LARGE", "INTERVIEW_NOT_ACTIVE",
     "REQUIRED_QUESTIONS_PENDING", "ANALYSIS_PRECONDITION_FAILED",
     "JOB_NOT_FOUND", "JOB_NOT_RETRYABLE", "JOB_NOT_CANCELLABLE",
     "PIPELINE_STAGE_FAILED", "LLM_UPSTREAM_ERROR", "RATE_LIMITED", "INTERNAL"}
Codes == ServerCodes \cup {"NETWORK_ERROR", "TIMEOUT", "PARSE_ERROR"}
RawCodes == ServerCodes \cup {"none"}   \* "none": no error object in the body
ErrorStatuses == {400, 404, 409, 410, 413, 415, 429, 500, 502}

ErrorViewModel ==
    [code: Codes, httpStatus: ErrorStatuses \cup {0}, retryAfter: BOOLEAN]

inferCodeFromStatus(status) ==
    CASE status = 400 -> "INVALID_INPUT"
      [] status = 404 -> "SESSION_NOT_FOUND"
      [] status = 410 -> "SESSION_EXPIRED"
      [] status = 413 -> "PAYLOAD_TOO_LARGE"
      [] status = 415 -> "UNSUPPORTED_FORMAT"
      [] status = 429 -> "RATE_LIMITED"
      [] status = 502 -> "LLM_UPSTREAM_ERROR"
      [] OTHER -> "INTERNAL"

toErrorViewModel(raw, status, retryAfter) ==
    [code |-> IF raw # "none" THEN raw ELSE inferCodeFromStatus(status),
     httpStatus |-> status, retryAfter |-> retryAfter]

\* An error the client makes itself: no status came with it.
ClientError(code) == [code |-> code, httpStatus |-> 0, retryAfter |-> FALSE]

isSessionGoneError(vm) == vm.code \in {"SESSION_NOT_FOUND", "SESSION_EXPIRED"}
=============================================================================
