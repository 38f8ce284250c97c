--------------------------- MODULE ErrorContracts ---------------------------
(***************************************************************************)
(* How an upstream answer is classified and what the class asks of routing *)
(* (app/dataplane/fireworks/error_contracts.py and                         *)
(* classify_upstream_failure of app/dataplane/routing/failover.py).        *)
(*                                                                         *)
(* An answer is a status, the keyword families that occur in the error     *)
(* text and, when no response arrived, the kind of the httpx exception.    *)
(* The text itself is abstracted to the families the code looks for.       *)
(***************************************************************************)
EXTENDS Naturals

NoStatus == 0

\* The keyword lists of _classify_error_type, one family per list.
WordFamilies == {"validation", "auth", "missing", "payment",
                 "throttle", "quota", "capacity"}

\* Kinds of httpx.HTTPError by what their class name contains.
Exceptions == {"none", "timeout", "network", "other"}

Answer == [status : Nat, words : SUBSET WordFamilies, exc : Exceptions]

-----------------------------------------------------------------------------
(* The first rule that applies decides, in this order.                     *)
ErrorType(a) ==
  IF a.exc = "timeout" THEN "timeout_error"
  ELSE IF a.exc = "network" THEN "network_error"
  ELSE IF a.status = 400 \/ "validation" \in a.words THEN "validation_error"
  ELSE IF a.status \in {401, 403} \/ "auth" \in a.words THEN "auth_error"
  ELSE IF a.status = 404 \/ "missing" \in a.words THEN "model_not_found"
  ELSE IF a.status = 402 \/ "payment" \in a.words THEN "quota_exhausted"
  ELSE IF a.status = 408 THEN "timeout_error"
  ELSE IF a.status = 429 \/ "throttle" \in a.words
       THEN IF "quota" \in a.words THEN "quota_exhausted" ELSE "rate_limit"
  ELSE IF a.status >= 500
       THEN IF "capacity" \in a.words THEN "capacity_error" ELSE "server_error"
  ELSE IF a.exc = "other" THEN "network_error"
  ELSE "upstream_error"

\* Mutant: a timeout is taken for the client's fault.
HarmlessTimeout(a) ==
  \/ ErrorType(a) \in {"validation_error", "model_not_found", "timeout_error"}
  \/ ErrorType(a) = "upstream_error" /\ a.status \in 400..499

Harmless(a) ==
  \/ ErrorType(a) \in {"validation_error", "model_not_found"}
  \/ ErrorType(a) = "upstream_error" /\ a.status \in 400..499

ShouldFailover(a) == ~Harmless(a)

ShouldCooldown(a) == ~Harmless(a) /\ ErrorType(a) # "auth_error"

ShouldDisableKey(a) == ErrorType(a) = "auth_error"

(* The status the contract offers the client.                              *)
ClientStatus(a) ==
  LET t == ErrorType(a)
  IN  CASE t = "validation_error" -> 400
        [] t = "auth_error" -> 401
        [] t = "model_not_found" -> 404
        [] t \in {"rate_limit", "quota_exhausted"} -> 429
        [] t \in {"capacity_error", "server_error"} -> a.status
        [] t = "timeout_error" -> 504
        [] t = "network_error" -> 502
        [] OTHER -> IF a.status = NoStatus THEN 502 ELSE a.status

-----------------------------------------------------------------------------
(* The failure decision.  The seconds are literals of the source.          *)
RateLimitCooldown == 120
TransientCooldown == 15
LongCooldown == 3600

\* Mutant: throttling counted with the transient failures.
BriefRateLimit(a) ==
  IF ~ShouldCooldown(a) THEN 0
  ELSE IF ErrorType(a) = "quota_exhausted" THEN RateLimitCooldown
  ELSE TransientCooldown

CooldownSeconds(a) ==
  LET t == ErrorType(a)
  IN  IF ~ShouldCooldown(a) THEN 0
      ELSE IF t \in {"rate_limit", "quota_exhausted"} THEN RateLimitCooldown
      ELSE IF t \in {"timeout_error", "network_error", "capacity_error",
                     "server_error", "upstream_error"} THEN TransientCooldown
      ELSE LongCooldown

\* Mutant: authentication failures fail over and leave the key in use.
DisablesUnpaidKey(a) ==
  ErrorType(a) = "quota_exhausted" /\ a.status \in {402, 412}

\* Mutant: every quota error disables.
DisablesAnyQuota(a) == ShouldDisableKey(a) \/ ErrorType(a) = "quota_exhausted"

DisablesKey(a) ==
  \/ ShouldDisableKey(a)
  \/ ErrorType(a) = "quota_exhausted" /\ a.status \in {402, 412}

DisableReason(a) ==
  IF ShouldDisableKey(a) THEN "upstream_auth_failed"
  ELSE "upstream_account_unavailable"

Decision(a) == [errorType |-> ErrorType(a),
                retryable |-> ShouldFailover(a),
                cooldown  |-> CooldownSeconds(a),
                disable   |-> DisablesKey(a),
                reason    |-> DisableReason(a)]

=============================================================================
