----------------------------- MODULE MCGetVersion -----------------------------
(***************************************************************************)
(* TLC instance of the library's helpers: GetVersion, OptionalValue and    *)
(* StatusPrinter, which have no state in common; one of the three runs     *)
(* while the others wait.                                                  *)
(*                                                                         *)
(* Three characters of version and a suffix of two show every way in which *)
(* the texts of two calls can overlap; the buffer has room for both, and   *)
(* one byte over.  The buffer of an enclave's caller has room for the text *)
(* and its terminator, or is filled by it, as the application's ten bytes  *)
(* are by "1.0.0+fips".                                                    *)
(***************************************************************************)
EXTENDS GetVersion, OptionalValue, StatusPrinter

VersionText == << "1", ".", "0" >>
SuffixText  == << "+", "fips" >>

Mode(fips, serialised, len) == [ fips |-> fips, serialised |-> serialised, len |-> len ]

\* Callers that need no lock because there is no FIPS provider, or that take one.
SafeModes ==
    { Mode(FALSE, FALSE, 0), Mode(FALSE, TRUE, 0), Mode(TRUE, TRUE, 0),
      Mode(FALSE, FALSE, Len(VersionText) + 1),
      Mode(TRUE, TRUE, Len(VersionText \o SuffixText) + 1) }

ConcurrentFips == { Mode(TRUE, FALSE, 0) }

\* Callers that lock, out of an enclave with a FIPS provider, whose buffer the text fills.
FullBuffer == { Mode(TRUE, TRUE, Len(VersionText \o SuffixText)) }

McOptionalObjects == 1 .. 3
McOptionalCells   == 1 .. 3
McOptionalValues  == { "UpToDate", "Revoked" }

McStatusValues == 0 .. 95

VARIABLE called

VersionWaits  == Init /\ mode = CHOOSE m \in Modes : TRUE
OptionalWaits == OptionalInit
StatusWaits   == statusValue = 0 /\ statusTexts = << >>

VersionSpec ==
    /\ called = "version" /\ Init /\ OptionalWaits /\ StatusWaits
    /\ [][ Next /\ UNCHANGED <<called, optionalVars, statusVars>> ]_<<called, vars, optionalVars, statusVars>>

AllInit ==
    \/ called = "version" /\ Init /\ OptionalWaits /\ StatusWaits
    \/ called = "optional" /\ VersionWaits /\ OptionalInit /\ StatusWaits
    \/ called = "status" /\ VersionWaits /\ OptionalWaits /\ StatusInit

AllNext ==
    \/ called = "version" /\ Next /\ UNCHANGED <<called, optionalVars, statusVars>>
    \/ called = "optional" /\ OptionalNext /\ UNCHANGED <<called, vars, statusVars>>
    \/ called = "status" /\ PrintAStatus /\ UNCHANGED <<called, vars, optionalVars>>

AllSpec == AllInit /\ [][AllNext]_<<called, vars, optionalVars, statusVars>>
===============================================================================
