---------------------------- MODULE CollateralTrust ----------------------------
(***************************************************************************)
(* What the calls of CollateralVerification promise, in one step: OK for   *)
(* trusted, current collateral. Expiration is reported of collateral that  *)
(* is otherwise trusted, and of no other, so a caller may decide what to   *)
(* do about it.                                                            *)
(***************************************************************************)
EXTENDS TrustedCollateral

CONSTANT Calls

VARIABLES call, verdict

ExpiredStatuses ==
    { "SGX_PCK_CERT_CHAIN_EXPIRED", "SGX_SIGNING_CERT_CHAIN_EXPIRED", "SGX_CRL_EXPIRED",
      "SGX_TCB_INFO_EXPIRED", "SGX_ENCLAVE_IDENTITY_EXPIRED" }

Answers(c, answer) ==
    /\ answer # "none"
    /\ answer = "OK" <=> Trusted(c) /\ Current(c)
    /\ answer \in ExpiredStatuses <=> Trusted(c) /\ ~Current(c)

Init == call \in Calls /\ verdict = "none"

Next ==
    /\ verdict = "none"
    /\ Answers(call, verdict')
    /\ UNCHANGED call

Spec == Init /\ [][Next]_<<call, verdict>>
===============================================================================
