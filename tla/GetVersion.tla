------------------------------ MODULE GetVersion ------------------------------
(***************************************************************************)
(* sgxAttestationGetVersion (QuoteVerification.cpp:66-75), called by the   *)
(* threads of a program. The version is built in one static buffer: first  *)
(* snprintf writes VERSION, then, where a FIPS provider is available, a    *)
(* second one appends "+fips" to what the buffer holds. The caller is      *)
(* given the buffer itself and reads it afterwards. The accesses race, so  *)
(* they are taken one byte at a time, in any interleaving.                 *)
(*                                                                         *)
(* mode.fips        a FIPS provider is available                           *)
(* mode.serialised  the callers keep other calls out until they have read  *)
(*                  the version                                            *)
(* mode.len         the size of the caller's buffer, 0 if there is no      *)
(*                  enclave                                                *)
(***************************************************************************)
EXTENDS Integers, Sequences, FiniteSetsExt

CONSTANTS
    Threads,
    VERSION,        \* the characters of the version, a sequence
    Suffix,         \* those of "+fips"
    NUL,            \* the terminator
    BufferSize,     \* 32 in the code
    Modes           \* the modes considered

IsText(s) == s \in Seq({ s[i] : i \in 1 .. Len(s) })

ASSUME VersionAssumption ==
    /\ IsText(VERSION) /\ IsText(Suffix)
    /\ BufferSize \in Nat /\ Len(VERSION) > 0
    /\ Len(VERSION) + Len(Suffix) < BufferSize
    /\ \A i \in 1 .. Len(VERSION) : VERSION[i] # NUL
    /\ \A i \in 1 .. Len(Suffix) : Suffix[i] # NUL
    /\ Modes \subseteq [ fips : BOOLEAN, serialised : BOOLEAN, len : Nat ]

VARIABLES
    ver,        \* the static buffer
    pc,         \* where each thread is
    at,         \* the byte it is about to copy or to read
    end,        \* where the text it appends starts
    read,       \* what it has read, and then has
    mode

vars == <<ver, pc, at, end, read, mode>>

Bytes == 1 .. BufferSize

\* The place of the terminator.
Terminator(buffer) == Min({ i \in Bytes : buffer[i] = NUL })

Init ==
    /\ ver = [ i \in Bytes |-> NUL ]
    /\ pc = [ t \in Threads |-> "idle" ]
    /\ at = [ t \in Threads |-> 1 ]
    /\ end = [ t \in Threads |-> 1 ]
    /\ read = [ t \in Threads |-> << >> ]
    /\ mode \in Modes

Go(t, next, position) ==
    /\ pc' = [ pc EXCEPT ![t] = next ]
    /\ at' = [ at EXCEPT ![t] = position ]

Call(t) ==
    /\ pc[t] \in { "idle", "done" }
    /\ mode.serialised => \A other \in Threads : pc[other] \in { "idle", "done" }
    /\ Go(t, "copy", 1)
    /\ read' = [ read EXCEPT ![t] = << >> ]
    /\ UNCHANGED <<ver, end, mode>>

\* Fault: the text is terminated after each character.
CopyByte_Terminating(t) ==
    /\ pc[t] = "copy" /\ at[t] <= Len(VERSION)
    /\ ver' = [ ver EXCEPT ![at[t]] = VERSION[at[t]], ![at[t] + 1] = NUL ]
    /\ Go(t, "copy", at[t] + 1)
    /\ UNCHANGED <<end, read, mode>>

\* The first snprintf: the text, then the terminator.
CopyByte(t) ==
    /\ pc[t] = "copy" /\ at[t] <= Len(VERSION)
    /\ ver' = [ ver EXCEPT ![at[t]] = VERSION[at[t]] ]
    /\ Go(t, "copy", at[t] + 1)
    /\ UNCHANGED <<end, read, mode>>

CopyTerminator(t) ==
    /\ pc[t] = "copy" /\ at[t] = Len(VERSION) + 1
    /\ ver' = [ ver EXCEPT ![at[t]] = NUL ]
    /\ Go(t, IF mode.fips THEN "measure" ELSE "read", 1)
    /\ UNCHANGED <<end, read, mode>>

\* strlen(ver), taken once for the place and the room left.
Measure(t) ==
    /\ pc[t] = "measure"
    /\ end' = [ end EXCEPT ![t] = Terminator(ver) ]
    /\ Go(t, "append", 1)
    /\ UNCHANGED <<ver, read, mode>>

\* The second snprintf writes what fits into the rest of the buffer.
Fitting(t) == IF BufferSize - end[t] < Len(Suffix) THEN BufferSize - end[t] ELSE Len(Suffix)

AppendByte(t) ==
    /\ pc[t] = "append" /\ at[t] <= Fitting(t)
    /\ ver' = [ ver EXCEPT ![end[t] + at[t] - 1] = Suffix[at[t]] ]
    /\ Go(t, "append", at[t] + 1)
    /\ UNCHANGED <<end, read, mode>>

AppendTerminator(t) ==
    /\ pc[t] = "append" /\ at[t] = Fitting(t) + 1
    /\ ver' = [ ver EXCEPT ![end[t] + at[t] - 1] = NUL ]
    /\ Go(t, "read", 1)
    /\ UNCHANGED <<end, read, mode>>

\* The caller, with the pointer it was given.
ReadByte(t) ==
    /\ pc[t] = "read"
    /\ IF ver[at[t]] = NUL
       THEN Go(t, IF mode.len = 0 THEN "done" ELSE "copyOut", 1) /\ UNCHANGED read
       ELSE /\ read' = [ read EXCEPT ![t] = Append(@, ver[at[t]]) ]
            /\ Go(t, "read", at[t] + 1)
    /\ UNCHANGED <<ver, end, mode>>

\* The caller's buffer: as much of the text as fits, then the zeros.
CallersBuffer(t) == [ i \in 1 .. mode.len |-> IF i <= Len(read[t]) THEN read[t][i] ELSE NUL ]

\* sgxEnclaveAttestationGetVersion, and std::string(version.get()) after the ecall: what
\* is read beyond a buffer without a terminator could be anything.
CopyOut(t) ==
    LET buffer == CallersBuffer(t)
        ends == { i \in DOMAIN buffer : buffer[i] = NUL }
    IN
    /\ pc[t] = "copyOut"
    /\ read' = [ read EXCEPT ![t] =
                   IF ends = { } THEN buffer \o << "beyond" >>
                   ELSE SubSeq(buffer, 1, Min(ends) - 1) ]
    /\ Go(t, "done", 1)
    /\ UNCHANGED <<ver, end, mode>>

Next ==
    \E t \in Threads :
        \/ Call(t)
        \/ CopyByte(t)
        \/ CopyTerminator(t)
        \/ Measure(t)
        \/ AppendByte(t)
        \/ AppendTerminator(t)
        \/ ReadByte(t)
        \/ CopyOut(t)

Spec == Init /\ [][Next]_vars

(***************************************************************************)
(* Correctness.                                                            *)
(***************************************************************************)
Points == { "idle", "copy", "measure", "append", "read", "copyOut", "done" }

\* The buffer always holds a terminated string and nobody leaves it.
TypeOK ==
    /\ ver \in [ Bytes -> { VERSION[i] : i \in 1 .. Len(VERSION) }
                          \union { Suffix[i] : i \in 1 .. Len(Suffix) } \union { NUL } ]
    /\ ver[BufferSize] = NUL
    /\ pc \in [ Threads -> Points ]
    /\ at \in [ Threads -> Bytes ] /\ end \in [ Threads -> Bytes ]
    /\ \A t \in Threads : Len(read[t]) <= BufferSize
    /\ mode \in Modes

\* A caller reads the whole version and no more than it, whoever else asks for
\* it meanwhile. It holds of callers that lock, and without a FIPS provider,
\* when all write the same bytes; it fails of concurrent callers with one: the
\* terminator of a second call cuts off the text the first has returned. Out of an
\* enclave it holds as long as the text is shorter than the caller's buffer: "1.0.0+fips"
\* is not.
VersionIntact ==
    \A t \in Threads :
        pc[t] = "done" => read[t] = IF mode.fips THEN VERSION \o Suffix ELSE VERSION

\* "Returned c-string includes: API version", says the documentation of
\* sgxEnclaveAttestationGetVersion of the caller's buffer (QuoteVerification.h:283-285): a
\* caller who reads the buffer up to the terminator never reads on behind its end. The code
\* copies the text alone, or as much of it as fits, and leaves the terminator to the zeros
\* that are there already (QuoteVerification.cpp:81-86); a text that fills the buffer has none.
ReturnsCString ==
    \A t \in Threads :
        pc[t] = "done" => \A i \in 1 .. Len(read[t]) : read[t][i] # "beyond"
===============================================================================
