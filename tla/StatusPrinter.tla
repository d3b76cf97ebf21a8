----------------------------- MODULE StatusPrinter -----------------------------
(***************************************************************************)
(* printStatus of the application (AppCore/StatusPrinter.cpp) and of the   *)
(* library (Utils/StatusPrinter.cpp): the number of a status becomes its   *)
(* name by position in a table of strings. The enumeration in              *)
(* QuoteVerification.h and the two tables are kept in step by hand; an     *)
(* array takes fewer strings than it has places without a word.            *)
(*                                                                         *)
(* Names are given without STATUS_. A text is a name and a number.         *)
(***************************************************************************)
EXTENDS Integers, Sequences, SequencesExt

\* The names of enum _status in their order; the first is 0.
Status ==
    << "OK", "UNSUPPORTED_CERT_FORMAT", "SGX_ROOT_CA_MISSING", "SGX_ROOT_CA_INVALID",
       "SGX_ROOT_CA_INVALID_EXTENSIONS", "SGX_ROOT_CA_INVALID_ISSUER", "SGX_ROOT_CA_UNTRUSTED",
       "SGX_INTERMEDIATE_CA_MISSING", "SGX_INTERMEDIATE_CA_INVALID",
       "SGX_INTERMEDIATE_CA_INVALID_EXTENSIONS", "SGX_INTERMEDIATE_CA_INVALID_ISSUER",
       "SGX_INTERMEDIATE_CA_REVOKED", "SGX_PCK_MISSING", "SGX_PCK_INVALID",
       "SGX_PCK_INVALID_EXTENSIONS", "SGX_PCK_INVALID_ISSUER", "SGX_PCK_REVOKED",
       "TRUSTED_ROOT_CA_INVALID", "SGX_PCK_CERT_CHAIN_UNTRUSTED",
       "SGX_TCB_INFO_UNSUPPORTED_FORMAT", "SGX_TCB_INFO_INVALID", "TCB_INFO_INVALID_SIGNATURE",
       "SGX_TCB_SIGNING_CERT_MISSING", "SGX_TCB_SIGNING_CERT_INVALID",
       "SGX_TCB_SIGNING_CERT_INVALID_EXTENSIONS", "SGX_TCB_SIGNING_CERT_INVALID_ISSUER",
       "SGX_TCB_SIGNING_CERT_CHAIN_UNTRUSTED", "SGX_TCB_SIGNING_CERT_REVOKED",
       "SGX_CRL_UNSUPPORTED_FORMAT", "SGX_CRL_UNKNOWN_ISSUER", "SGX_CRL_INVALID",
       "SGX_CRL_INVALID_EXTENSIONS", "SGX_CRL_INVALID_SIGNATURE",
       "SGX_CA_CERT_UNSUPPORTED_FORMAT", "SGX_CA_CERT_INVALID",
       "TRUSTED_ROOT_CA_UNSUPPORTED_FORMAT", "MISSING_PARAMETERS", "UNSUPPORTED_QUOTE_FORMAT",
       "UNSUPPORTED_PCK_CERT_FORMAT", "INVALID_PCK_CERT", "UNSUPPORTED_PCK_RL_FORMAT",
       "INVALID_PCK_CRL", "UNSUPPORTED_TCB_INFO_FORMAT", "PCK_REVOKED", "TCB_INFO_MISMATCH",
       "TCB_OUT_OF_DATE", "TCB_REVOKED", "TCB_CONFIGURATION_NEEDED",
       "TCB_OUT_OF_DATE_CONFIGURATION_NEEDED", "TCB_NOT_SUPPORTED", "TCB_UNRECOGNIZED_STATUS",
       "UNSUPPORTED_QE_CERTIFICATION", "INVALID_QE_CERTIFICATION_DATA_SIZE",
       "UNSUPPORTED_QE_CERTIFICATION_DATA_TYPE", "PCK_CERT_MISMATCH",
       "INVALID_QE_REPORT_SIGNATURE", "INVALID_QE_REPORT_DATA", "INVALID_QUOTE_SIGNATURE",
       "SGX_QE_IDENTITY_UNSUPPORTED_FORMAT", "SGX_QE_IDENTITY_INVALID",
       "SGX_QE_IDENTITY_INVALID_SIGNATURE", "SGX_ENCLAVE_REPORT_UNSUPPORTED_FORMAT",
       "SGX_ENCLAVE_IDENTITY_UNSUPPORTED_FORMAT", "SGX_ENCLAVE_IDENTITY_INVALID",
       "SGX_ENCLAVE_IDENTITY_UNSUPPORTED_VERSION", "SGX_ENCLAVE_IDENTITY_OUT_OF_DATE",
       "SGX_ENCLAVE_REPORT_MISCSELECT_MISMATCH", "SGX_ENCLAVE_REPORT_ATTRIBUTES_MISMATCH",
       "SGX_ENCLAVE_REPORT_MRENCLAVE_MISMATCH", "SGX_ENCLAVE_REPORT_MRSIGNER_MISMATCH",
       "SGX_ENCLAVE_REPORT_ISVPRODID_MISMATCH", "SGX_ENCLAVE_REPORT_ISVSVN_OUT_OF_DATE",
       "UNSUPPORTED_QE_IDENTITY_FORMAT", "QE_IDENTITY_OUT_OF_DATE", "QE_IDENTITY_MISMATCH",
       "SGX_TCB_INFO_EXPIRED", "SGX_ENCLAVE_IDENTITY_INVALID_SIGNATURE", "INVALID_PARAMETER",
       "SGX_PCK_CERT_CHAIN_EXPIRED", "SGX_CRL_EXPIRED", "SGX_SIGNING_CERT_CHAIN_EXPIRED",
       "SGX_ENCLAVE_IDENTITY_EXPIRED", "TCB_SW_HARDENING_NEEDED",
       "TCB_CONFIGURATION_AND_SW_HARDENING_NEEDED", "SGX_ENCLAVE_REPORT_ISVSVN_REVOKED",
       "TDX_MODULE_MISMATCH", "SGX_ENCLAVE_REPORT_ISVSVN_NOT_SUPPORTED",
       "TCB_TD_RELAUNCH_ADVISED", "TCB_TD_RELAUNCH_ADVISED_CONFIGURATION_NEEDED" >>

\* The strings of the application.
appStatusStrs ==
    << "OK", "UNSUPPORTED_CERT_FORMAT", "SGX_ROOT_CA_MISSING", "SGX_ROOT_CA_INVALID",
       "SGX_ROOT_CA_INVALID_EXTENSIONS", "SGX_ROOT_CA_INVALID_ISSUER", "SGX_ROOT_CA_UNTRUSTED",
       "SGX_INTERMEDIATE_CA_MISSING", "SGX_INTERMEDIATE_CA_INVALID",
       "SGX_INTERMEDIATE_CA_INVALID_EXTENSIONS", "SGX_INTERMEDIATE_CA_INVALID_ISSUER",
       "SGX_INTERMEDIATE_CA_REVOKED", "SGX_PCK_MISSING", "SGX_PCK_INVALID",
       "SGX_PCK_INVALID_EXTENSIONS", "SGX_PCK_INVALID_ISSUER", "SGX_PCK_REVOKED",
       "TRUSTED_ROOT_CA_INVALID", "SGX_PCK_CERT_CHAIN_UNTRUSTED",
       "SGX_TCB_INFO_UNSUPPORTED_FORMAT", "SGX_TCB_INFO_INVALID", "TCB_INFO_INVALID_SIGNATURE",
       "SGX_TCB_SIGNING_CERT_MISSING", "SGX_TCB_SIGNING_CERT_INVALID",
       "SGX_TCB_SIGNING_CERT_INVALID_EXTENSIONS", "SGX_TCB_SIGNING_CERT_INVALID_ISSUER",
       "SGX_TCB_SIGNING_CERT_CHAIN_UNTRUSTED", "SGX_TCB_SIGNING_CERT_REVOKED",
       "SGX_CRL_UNSUPPORTED_FORMAT", "SGX_CRL_UNKNOWN_ISSUER", "SGX_CRL_INVALID",
       "SGX_CRL_INVALID_EXTENSIONS", "SGX_CRL_INVALID_SIGNATURE",
       "SGX_CA_CERT_UNSUPPORTED_FORMAT", "SGX_CA_CERT_INVALID",
       "TRUSTED_ROOT_CA_UNSUPPORTED_FORMAT", "MISSING_PARAMETERS", "UNSUPPORTED_QUOTE_FORMAT",
       "UNSUPPORTED_PCK_CERT_FORMAT", "INVALID_PCK_CERT", "UNSUPPORTED_PCK_RL_FORMAT",
       "INVALID_PCK_CRL", "UNSUPPORTED_TCB_INFO_FORMAT", "PCK_REVOKED", "TCB_INFO_MISMATCH",
       "TCB_OUT_OF_DATE", "TCB_REVOKED", "TCB_CONFIGURATION_NEEDED",
       "TCB_OUT_OF_DATE_CONFIGURATION_NEEDED", "TCB_NOT_SUPPORTED", "TCB_UNRECOGNIZED_STATUS",
       "UNSUPPORTED_QE_CERTIFICATION", "INVALID_QE_CERTIFICATION_DATA_SIZE",
       "UNSUPPORTED_QE_CERTIFICATION_DATA_TYPE", "PCK_CERT_MISMATCH",
       "INVALID_QE_REPORT_SIGNATURE", "INVALID_QE_REPORT_DATA", "INVALID_QUOTE_SIGNATURE",
       "SGX_QE_IDENTITY_UNSUPPORTED_FORMAT", "SGX_QE_IDENTITY_INVALID",
       "SGX_QE_IDENTITY_INVALID_SIGNATURE", "SGX_ENCLAVE_REPORT_UNSUPPORTED_FORMAT",
       "SGX_ENCLAVE_IDENTITY_UNSUPPORTED_FORMAT", "SGX_ENCLAVE_IDENTITY_INVALID",
       "SGX_ENCLAVE_IDENTITY_UNSUPPORTED_VERSION", "SGX_ENCLAVE_IDENTITY_OUT_OF_DATE",
       "SGX_ENCLAVE_REPORT_MISCSELECT_MISMATCH", "SGX_ENCLAVE_REPORT_ATTRIBUTES_MISMATCH",
       "SGX_ENCLAVE_REPORT_MRENCLAVE_MISMATCH", "SGX_ENCLAVE_REPORT_MRSIGNER_MISMATCH",
       "SGX_ENCLAVE_REPORT_ISVPRODID_MISMATCH", "SGX_ENCLAVE_REPORT_ISVSVN_OUT_OF_DATE",
       "UNSUPPORTED_QE_IDENTITY_FORMAT", "QE_IDENTITY_OUT_OF_DATE", "QE_IDENTITY_MISMATCH",
       "SGX_TCB_INFO_EXPIRED", "SGX_ENCLAVE_IDENTITY_INVALID_SIGNATURE", "INVALID_PARAMETER",
       "SGX_PCK_CERT_CHAIN_EXPIRED", "SGX_CRL_EXPIRED", "SGX_SIGNING_CERT_CHAIN_EXPIRED",
       "SGX_ENCLAVE_IDENTITY_EXPIRED", "TCB_SW_HARDENING_NEEDED",
       "TCB_CONFIGURATION_AND_SW_HARDENING_NEEDED", "SGX_ENCLAVE_REPORT_ISVSVN_REVOKED",
       "TDX_MODULE_MISMATCH", "SGX_ENCLAVE_REPORT_ISVSVN_NOT_SUPPORTED",
       "TCB_TD_RELAUNCH_ADVISED", "TCB_TD_RELAUNCH_ADVISED_CONFIGURATION_NEEDED" >>

\* Fault: a string is missing in the middle of the table.
libraryStatusStrs_Without ==
    Remove(appStatusStrs, "SGX_CRL_EXPIRED")

\* The strings of the library.
libraryStatusStrs ==
    << "OK", "UNSUPPORTED_CERT_FORMAT", "SGX_ROOT_CA_MISSING", "SGX_ROOT_CA_INVALID",
       "SGX_ROOT_CA_INVALID_EXTENSIONS", "SGX_ROOT_CA_INVALID_ISSUER", "SGX_ROOT_CA_UNTRUSTED",
       "SGX_INTERMEDIATE_CA_MISSING", "SGX_INTERMEDIATE_CA_INVALID",
       "SGX_INTERMEDIATE_CA_INVALID_EXTENSIONS", "SGX_INTERMEDIATE_CA_INVALID_ISSUER",
       "SGX_INTERMEDIATE_CA_REVOKED", "SGX_PCK_MISSING", "SGX_PCK_INVALID",
       "SGX_PCK_INVALID_EXTENSIONS", "SGX_PCK_INVALID_ISSUER", "SGX_PCK_REVOKED",
       "TRUSTED_ROOT_CA_INVALID", "SGX_PCK_CERT_CHAIN_UNTRUSTED",
       "SGX_TCB_INFO_UNSUPPORTED_FORMAT", "SGX_TCB_INFO_INVALID", "TCB_INFO_INVALID_SIGNATURE",
       "SGX_TCB_SIGNING_CERT_MISSING", "SGX_TCB_SIGNING_CERT_INVALID",
       "SGX_TCB_SIGNING_CERT_INVALID_EXTENSIONS", "SGX_TCB_SIGNING_CERT_INVALID_ISSUER",
       "SGX_TCB_SIGNING_CERT_CHAIN_UNTRUSTED", "SGX_TCB_SIGNING_CERT_REVOKED",
       "SGX_CRL_UNSUPPORTED_FORMAT", "SGX_CRL_UNKNOWN_ISSUER", "SGX_CRL_INVALID",
       "SGX_CRL_INVALID_EXTENSIONS", "SGX_CRL_INVALID_SIGNATURE",
       "SGX_CA_CERT_UNSUPPORTED_FORMAT", "SGX_CA_CERT_INVALID",
       "TRUSTED_ROOT_CA_UNSUPPORTED_FORMAT", "MISSING_PARAMETERS", "UNSUPPORTED_QUOTE_FORMAT",
       "UNSUPPORTED_PCK_CERT_FORMAT", "INVALID_PCK_CERT", "UNSUPPORTED_PCK_RL_FORMAT",
       "INVALID_PCK_CRL", "UNSUPPORTED_TCB_INFO_FORMAT", "PCK_REVOKED", "TCB_INFO_MISMATCH",
       "TCB_OUT_OF_DATE", "TCB_REVOKED", "TCB_CONFIGURATION_NEEDED",
       "TCB_OUT_OF_DATE_CONFIGURATION_NEEDED", "TCB_NOT_SUPPORTED", "TCB_UNRECOGNIZED_STATUS",
       "UNSUPPORTED_QE_CERTIFICATION", "INVALID_QE_CERTIFICATION_DATA_SIZE",
       "UNSUPPORTED_QE_CERTIFICATION_DATA_TYPE", "PCK_CERT_MISMATCH",
       "INVALID_QE_REPORT_SIGNATURE", "INVALID_QE_REPORT_DATA", "INVALID_QUOTE_SIGNATURE",
       "SGX_QE_IDENTITY_UNSUPPORTED_FORMAT", "SGX_QE_IDENTITY_INVALID",
       "SGX_QE_IDENTITY_INVALID_SIGNATURE", "SGX_ENCLAVE_REPORT_UNSUPPORTED_FORMAT",
       "SGX_ENCLAVE_IDENTITY_UNSUPPORTED_FORMAT", "SGX_ENCLAVE_IDENTITY_INVALID",
       "SGX_ENCLAVE_IDENTITY_UNSUPPORTED_VERSION", "SGX_ENCLAVE_IDENTITY_OUT_OF_DATE",
       "SGX_ENCLAVE_REPORT_MISCSELECT_MISMATCH", "SGX_ENCLAVE_REPORT_ATTRIBUTES_MISMATCH",
       "SGX_ENCLAVE_REPORT_MRENCLAVE_MISMATCH", "SGX_ENCLAVE_REPORT_MRSIGNER_MISMATCH",
       "SGX_ENCLAVE_REPORT_ISVPRODID_MISMATCH", "SGX_ENCLAVE_REPORT_ISVSVN_OUT_OF_DATE",
       "UNSUPPORTED_QE_IDENTITY_FORMAT", "QE_IDENTITY_OUT_OF_DATE", "QE_IDENTITY_MISMATCH",
       "SGX_TCB_INFO_EXPIRED", "SGX_ENCLAVE_IDENTITY_INVALID_SIGNATURE", "INVALID_PARAMETER",
       "SGX_PCK_CERT_CHAIN_EXPIRED", "SGX_CRL_EXPIRED", "SGX_SIGNING_CERT_CHAIN_EXPIRED",
       "SGX_ENCLAVE_IDENTITY_EXPIRED", "TCB_SW_HARDENING_NEEDED",
       "TCB_CONFIGURATION_AND_SW_HARDENING_NEEDED", "SGX_ENCLAVE_REPORT_ISVSVN_REVOKED",
       "TDX_MODULE_MISMATCH", "SGX_ENCLAVE_REPORT_ISVSVN_NOT_SUPPORTED",
       "TCB_TD_RELAUNCH_ADVISED", "TCB_TD_RELAUNCH_ADVISED_CONFIGURATION_NEEDED" >>

ValueOfStatus(name) == CHOOSE value \in 0 .. Len(Status) - 1 : Status[value + 1] = name

MAX_STATUS == ValueOfStatus("TCB_TD_RELAUNCH_ADVISED_CONFIGURATION_NEEDED")

\* A string of std::array<std::string, MAX_STATUS + 1> that has no initialiser is empty.
StringAt(strings, value) == IF value < Len(strings) THEN strings[value + 1] ELSE ""

printStatusOnly(strings, value) ==
    IF value > MAX_STATUS THEN "Unknown status" ELSE StringAt(strings, value)

printStatus(strings, value) == <<printStatusOnly(strings, value), value>>

VARIABLES
    statusValue,    \* what is to be printed, an int as an ecall returns it
    statusTexts     \* what the application and the library make of it

statusVars == <<statusValue, statusTexts>>

CONSTANT StatusValues

ASSUME StatusAssumption == StatusValues \subseteq Nat

StatusInit == statusValue \in StatusValues /\ statusTexts = << >>

PrintAStatus ==
    /\ statusTexts = << >>
    /\ statusTexts' = << printStatus(appStatusStrs, statusValue),
                         printStatus(libraryStatusStrs, statusValue) >>
    /\ UNCHANGED statusValue

StatusSpec == StatusInit /\ [][PrintAStatus]_statusVars

(***************************************************************************)
(* Properties.                                                             *)
(***************************************************************************)
\* Each status is printed, by the application and by the library, under its own name
\* (StatusPrinter.cpp:40, :49), no two under one, and a number that is no status as
\* unknown: no table has a string too many, too few or out of place.
StatusesArePrintedByName ==
    statusTexts # << >> =>
        \A i \in DOMAIN statusTexts :
            statusTexts[i] = << IF statusValue < Len(Status) THEN Status[statusValue + 1]
                               ELSE "Unknown status", statusValue >>
===============================================================================
