--------------------------------- MODULE Main ---------------------------------
(***************************************************************************)
(* main.cpp: the command line is parsed, then runVerification is called    *)
(* with the options it says. AppOptions names the files; of the names,     *)
(* AttestationApp knows whether those of the optional files are empty. The *)
(* process ends with 0 in every case but that of an enclave that fails.    *)
(***************************************************************************)
EXTENDS AttestationApp, CommandLine

CONSTANTS QeIdentity, QveIdentity, VerCollInfo    \* their entries of the table

mainVars == <<vars, clVars>>

\* main has not called runVerification yet.
NoOptions == [ qeIdentity |-> FALSE, qveIdentity |-> FALSE, verCollInfo |-> FALSE,
               expirationDate |-> 0 ]

MainInit ==
    /\ CommandLineInit
    /\ files = NothingRead
    /\ options = NoOptions
    /\ step = "parse"
    /\ read = NothingRead
    /\ failed = {} /\ judged = {} /\ saved = {}
    /\ result = "none"
    /\ replacements = 0

\* What runVerification makes of the texts.
AppOptions ==
    [ qeIdentity     |-> TextOf(QeIdentity) # Nothing,
      qveIdentity    |-> TextOf(QveIdentity) # Nothing,
      verCollInfo    |-> TextOf(VerCollInfo) # Nothing,
      expirationDate |-> Numeral[TextOf(ExpirationDate)[1]] ]

\* arg_freetable: of the words, only the options are left.
Freed ==
    /\ commandLine' = << >> /\ argv' = << >>
    /\ match' = {} /\ given' = [ o \in Opts |-> {} ] /\ errors' = << >>
    /\ optind' = 1 /\ parsing' = "freed" /\ posixly' = FALSE
    /\ UNCHANGED <<place, nonoptStart, nonoptEnd>>

CallRunVerification ==
    /\ parsing = "parsed" /\ step = "parse"
    /\ files' \in Starts
    /\ options' = AppOptions
    /\ step' = "pckCert"
    /\ Freed
    /\ UNCHANGED <<read, failed, judged, saved, result, replacements>>

\* parse returned a null pointer: there is nothing to verify.
ReturnAtOnce ==
    /\ parsing \in { "refused", "helped" } /\ step = "parse"
    /\ Return("terminated")
    /\ UNCHANGED <<files, options, read, failed, judged, saved, replacements, clVars>>

\* The adapter creates the enclave before a word is parsed, and asks it for its version
\* after the last one: std::runtime_error, which nobody catches.
EnclaveFails ==
    /\ Enclave
    /\ step = "parse"
    /\ CommandLineStart \/ parsing = "parsed"
    /\ Return("terminated")
    /\ UNCHANGED <<files, options, read, failed, judged, saved, replacements, clVars>>

\* The one thread of the process.
MainThread ==
    \/ step = "parse" /\ CommandLineNext /\ UNCHANGED vars
    \/ EnclaveFails
    \/ CallRunVerification
    \/ ReturnAtOnce
    \/ parsing = "freed" /\ RunVerification /\ UNCHANGED clVars

\* Files replaced before they are first read are those of another start.
MainNext == MainThread \/ (parsing = "freed" /\ ReplaceFile /\ UNCHANGED clVars)

\* It blocks on nothing.
MainSpec == MainInit /\ [][MainNext]_mainVars /\ WF_mainVars(MainThread)
===============================================================================
