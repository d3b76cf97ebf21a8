# TLA+ specifications of the Quote Verification Library

This directory holds TLA+ models of the Quote Verification Library (QVL), the
reference implementation of ECDSA-based quote verification for Intel SGX and
TDX, of the parsers that it is built on, of the vendored code that these run
on, and of the sample application that strings the library's calls together.
TLC checks the models on small instances. TLAPS checks the theorems, for every
value of the constants.

The modules are read beside the code. `PROJECT.json` names, for each definition,
the lines that it stands for (`map`), what the code is exposed to (`hazards`),
what each run checks (`runs`), for each property a fault in the code that breaks
it (`mutants`), and where the code and its documentation disagree (`findings`).

## The system

    quote, collateral                      files, command line
          |                                  |
          v                                  v
    +------------------------+      +------------------------+
    | C API                  |<-----| sample application     |
    | QuoteVerification.cpp  |      | main, AppCore, adapters|
    +------------------------+      +------------------------+
        |             |                      |
        v             v                      v
    QuoteVerifier   PckCertVerifier, ...    argtable3
        |           PckCrlVerifier, TCBSigningChain
        v             |
    Checks/*          v
        |           CertificateChain, CrlStore, CommonVerifier
        v             v
    Quote parser    AttestationParsers: certificates and their SGX extensions
                    (X509), TCB info and identities (JSON) -> rapidjson,
                    TimeUtils -> GMTime

The library keeps no state between calls, but for one static buffer. A call is
given all of its evidence, makes some twenty checks in a fixed order, returns
early with a `Status` from any of them, and may fill a buffer of the caller's.
Calls run on the threads of their callers. So what is hard is mostly not
concurrency but length: which checks stand before a verdict on which path,
which part of the evidence is believed at which point, what the parts of a
verdict come to, and whether two pieces of code that read the same thing read
the same. The application adds what a stateless library leaves to its caller:
that the evidence of several calls is the same evidence.

| Component | State | Operations | What makes it correct | Modules |
| --- | --- | --- | --- | --- |
| Quote verification | one call: arguments, verdicts on the launch and current TCB, collateral info, the caller's buffer | `sgxAttestationVerifyQuote(Ex)` | no verdict without the whole chain of trust; nothing judged before it is authenticated; the buffer is written for a verdict only and shows it | `QuoteChecks`, `QuoteVerification`, `QuoteAppraisal` |
| TCB evaluation | none | level matching, convergence, relaunch advice, TDX module | the weakest part decides; advice to relaunch only if it helps | `TcbEvaluation` |
| Enclave reports | none | `EnclaveReportVerifier::verify` | report against identity, mask by mask | `EnclaveReportVerifier` |
| Collateral verification | one call: chain, CRLs, document, trusted root, time | `sgxAttestationVerifyPCKCertificate`, `...TCBInfo`, `...EnclaveIdentity`, `...PCKRevocationList` | accepted means anchored in the trusted root, not revoked, current; "expired" means nothing but expired | `CertificateChain`, `CollateralVerification`, `TrustedCollateral`, `CollateralTrust` |
| Sample application | words of the command line, what was read from ten files, statuses so far | `main`, `AppOptionsParser::parse` with `arg_parse`, `AppCore::runVerification` | the options are what the words say; accepted means that the same evidence was verified and used | `CommandLine`, `AttestationApp`, `Main` |
| Quote parser | cursor, limits, sizes read; the parsed object | `Quote::parse`, `Quote::validate`, the getters, `sgxAttestationGetQECertificationData(Size)` | accepts the format and nothing else; never looks outside the quote; what the object answers is in the quote | `QuoteFormat`, `QuoteParser`, `QuoteObject` |
| Collateral parser | document, levels so far, the objects | `TcbInfo::parse`, `EnclaveIdentity::parse`, their accessors | accepts the format; what is looked up or asked for is what was signed | `CollateralFormat`, `CollateralParser` |
| JSON text | stacks of reader and document, the writer's output | `JsonParser::parse`, `getField`, the writing of the signed body | the document is what the text spells; what is verified is what was read; the stack holds | `JsonReader`, `JsonDocument`, `JsonNumbers`, `JsonMemory` |
| Dates | `struct tm`, bounds of a search | `isValidTimeString`, `getEpochTimeFromString`, `sgxssl_mktime` | both builds read a date alike; the search ends | `GMTime`, `TimeUtils` |
| PCK certificate parser | nested lists of extensions, what is still expected | `PckCertificate::parse` and its two derived classes, accessors | accepts the profile; each extension once; values as in the certificate | `PckCertificateParser` |
| Chains, certificates and CRLs as text | place in the text, members filled | `splitChain`, `Certificate::parse`, `CrlStore::parse`, `str2X509Crl` | no certificate lost or mixed; what two readers read of one thing agrees | `PemChain`, `CrlParser`, `X509Certificate` |
| Helpers | a static buffer that all threads share; heap cells | `sgxAttestationGetVersion`, `Optional`, status printing | a caller reads the version; a cell has one owner; a status has its own name | `GetVersion`, `OptionalValue`, `StatusPrinter` |

`PROJECT.json` lists the components one by one, with what is left out of each.

## How the models correspond to the code

**Quote verification.** `QuoteVerification` has one action for each place at which
`sgxAttestationVerifyQuoteEx` and `QuoteVerifier::verify` can return, in the
code's order; `pc` is the next check and `status` is set by the one that fails.
The condition of a check is an operator of `QuoteChecks`, shared with the abstract
`QuoteAppraisal`; signatures are pairs of a key and the data covered, digests are
what was hashed. TCB levels come from `TcbEvaluation`, in the order in which the
parsers' `std::set` has them, and the order itself is modelled
(`TcbLevelGreater`). SGX, TDX with TD report 1.0 and TD report 1.5 (with the second
evaluation of the current TCB and the advice to relaunch) are covered, as are
the absent QE identity, the dates and advisory ids gathered on the way, and the
exceptions that turn into statuses.

**Collateral verification.** One state machine for four functions of the API: a call
says which, and an action is shared where the verifiers share the check
(`PckCertVerifier`, `TCBSigningChain`, ...). `CertificateChain` models which
certificate of a chain `CertificateChain.cpp` takes for the root, the topmost, the
intermediate and the PCK certificate, whatever the order they are in, and
`CommonVerifier`. Signature bytes can be copied: a signature says which key
made it over which data, and a certificate may carry one that is not its own.

**Application.** `Main` composes `CommandLine` and `AttestationApp`. A word of the
command line is a sequence of pieces, a piece being the characters that no two option
names tell apart, so that a name cut short is a beginning of the sequence;
`getopt_internal`'s turns are actions, and `permute_args` moves blocks of words cycle by
cycle, as the code does. Then each read of a file is a step, and between two
steps another process may replace or delete any file (`ReplaceFile`). DER CRLs are
read twice, as in `FileReader`. The library's calls are one step each, with the
abstract conditions of `TrustedCollateral` for what they accept; an enclave may fail
to come up or fail in a call.

**Quote parser.** `QuoteFormat` says where everything in a quote is, as positions
computed from the quote's own numbers. `QuoteParser` is the cursor of
`Quote.cpp` and `QuoteStructures.cpp`: check that there is enough left, read a size, go back over
it, read the structure with limits of its own. Numbers are found at the position
of their first byte and nowhere else, so a cursor that is one byte off reads
something else. `QuoteObject` adds what the insert functions make of the bytes: numbers
put together with shifts, the four report structures of which one is filled, the
blob the QE report's signature covers, and the two calls that copy certification
data out.

**Collateral parser.** A JSON value is a record with a type; what a getter accepts is
`Reads`. Each constructor is the sequence of its checks with the exception that
each one throws (`FirstFailure`), and levels are inserted one by one into a set
that drops what compares as equal. `CollateralFormat` says what an acceptable document is
without any order. The objects follow the parsers, with the copies of SVNs that the
accessors of the older and of the newer interface answer from.

**JSON text.** A text is a sequence of lexemes. `JsonReader` is rapidjson's iterative
parser, table and all, one action for each turn of its loop, building values on the
document's stack. `JsonDocument` is what `TcbInfo` and `EnclaveIdentity` do with the result:
search for members, measure the depth of the body with an explicit stack, and write
the body again with the recursive `Accept`, a frame for each call. `JsonNumbers` is the
branching of `itoa.h`; `JsonMemory` the pool and the growing stacks below it, on a heap in
which blocks touch, so that one cell too many is seen. There, each letter of a string is
an action of its own (`ReadLetter`), so that a parse can fail within one, and the stack
grow at any of them.

**Dates.** The enclave has no `strptime` or `timegm` and reads a date by hand, then asks
`GMTime.cpp`, cut down from tzcode, for the number of seconds: it searches all of
`time_t` by bisection and breaks every probe down into a date, year by year. `GMTime`
has one action for each turn of these loops, with the quotients of C and the overflow checks;
`TimeUtils` is the three calls of `mktime` for one text, next to what the other build
makes of the same text, in closed form.

**PCK certificate parser.** Object identifiers are sequences of numbers without the
common prefix, as in `ParserUtils.h`. `lists` is the list of extensions that is
being read and, above it, the one it is nested in; `pass` says whose `setMembers`
is at work, since a derived class reads everything three times over. Numbers are
cut to their width as the code casts them, with the widths as constants: the SVN of the PCE to
an `unsigned int`, the SGX type to an `int`, with a sign (`AsInt`). An enumerated value of 2^32 is
the type of 0; `ObjectsAnswerAsCertified` says what is kept of the numbers that fit (`HasRoom`).
What the three objects then answer are functions of `members`.

**Chains, certificates and CRLs as text.** `PemChain` is the loop of `splitChain` over
the markers of a text. `CrlParser` follows a CRL from the file or the argument through
the test for a PEM header (the application's and the library's differ) and, for DER,
through digits and back, then member by member; `X509Certificate` does the same
for a certificate. What OpenSSL decodes is given. Both modules stand side by side because the
verifiers compare what the one has read with what the other has.

**Helpers.** In `GetVersion` the accesses to the static buffer race, so every byte read
or written is a step of its own; that is what the build may do. `mode` says whether a FIPS
provider is available and whether the callers lock; `CopyOut` is the enclave's copy
to its caller. `OptionalValue` has one action for each constructor, assignment and the
destructor of `Optional.h`, over cells of a heap. `StatusPrinter` has the enumeration and the
two tables of strings that are kept in its order by hand.

## Runs

| Run | Instance | What it shows |
| --- | --- | --- |
| `quote` | three genuine quotes (SGX, TDX, TD report 1.5) with every pair out of some forty defects in parameters, quote, certificate, CRL, TCB info, identity, reports, keys and signatures; genuine quotes with all combinations of platform, QE and module SVNs and statuses, four levels of which two are incomparable, advisory lists at the limit | `ChainOfTrust`, `AuthenticatedBeforeJudged`, `WeakestPartDecides`, `RelaunchAdviceSound`, `BufferAgreesWithVerdict`, `BufferSpansCollateral`; the refinement `ImplementsAppraisal`, whose abstract specification also promises that a call returns |
| `collateral` | all chains of up to three certificates over 15 (PCK) and 10 (signing) genuine, foreign, copied and malformed ones, up to two over 10 for CRLs; every order of the genuine ones with 11 forms of each CRL, six roots and 12 instants around every limit | `AnchoredInTrustedRoot`, `PckRevokedByItsIssuer`, the refinement `ImplementsTrust` |
| `app` | command lines of up to five words, with and without `POSIXLY_CORRECT`; ten files of two generations, one of them spoiled at the start, one replacement at any moment, every set of options, an enclave that fails | `OptionsAreTheWords`, `AcceptedMeansTrusted`, `SavedInfoIsTheJudgedOne`, `UndisturbedVerdict`, `EventuallyReturns` |
| `quote_parser` | versions 2 to 6, every TEE and body type, up to two sizes off by one, one far off, cut short or too long, other types | `CursorStaysInside`, `AcceptsTheFormat`, `PartsAreWhereTheyBelong`, `QuoteAnswersAsItStands` |
| `collateral_parser` | TCB info of both versions and ids and identities, one or two fields missing or wrong anywhere, all lists of two or three levels with numbers near each other | `AcceptsTheFormat`, `ObjectsAnswerAsSigned`, `HighestLevelIsChosen` |
| `x509` | certificates of each class with one part changed, one or two extensions replaced, lists too short, too long or rotated, numbers around every width and, for the SGX type, on both sides of the sign, given to each class; every text of up to seven markers; a CRL in each form, as argument and as file, with changes, and its digits misspelled; a certificate with each of its parts changed, against names in each order and encoding | `AcceptsTheProfile`, `ObjectsAnswerAsCertified`, `ExceptionTellsTheCause`, `SplitsTheChain`, `CrlIsReadAsItStands`, `RevokedIsFound`, `CertificateIsReadAsItStands`, `NamesAreJudgedAlike` |
| `texts` | dates at every boundary of the calendar, times of the day, texts that are no dates; texts of some sixty documents with every lexeme dropped, doubled or replaced; integers around every power of the base; up to five events of memory | `BuildsAgree`, `EveryTextIsJudged`, `TextMeansTheDocument`, `SignedIsRead`, `WritingStaysShallow`, `NumbersAreWrittenInDecimal`, `MemoryKeepsWhatItIsGiven` |
| `version` | three threads, no FIPS provider, or callers that lock, also out of an enclave whose caller has room for the terminator; three optional values and three cells; statuses 0 to 95 | `VersionIntact`, `OptionalsKeepTheirValues`, `StatusesArePrintedByName` |
| `quote_statuses`, `collateral_statuses` | as above | violated: the code returns what the header does not list (findings) |
| `version_fips` | two threads with a FIPS provider | violated: a caller reads a version that another call is rewriting, though the library's README calls it thread-safe (finding) |
| `version_enclave` | two threads that lock, a FIPS provider, an enclave whose caller's buffer has exactly the length of the version | `ReturnsCString` violated: a caller reads on behind a buffer that the header says holds a c-string (finding) |

Runs of several modules (`texts`, `x509`, `version`) put side by side what does not
interact: each behaviour is one call of one of them, or one after the other, with the
rest at a fixed start. Each of these MC modules says how.

### Bounds, and why they are enough

- *Defects in pairs.* A call is a fixed sequence of checks, and a wrong order or a
  missing check shows in the first check that fails: one defect shows a missing
  check, two show the order of any two. The theorems do not have this bound.
- *Chains of at most three certificates.* The functions refuse other lengths
  (`EXPECTED_CERTIFICATE_COUNT_IN_...`) before they look at a signature; length 0
  to 3 has every way of filling and missing a role. In PEM texts seven
  markers are enough for three certificates and one marker too many.
- *SVNs of 3 components (16 in the code), 2 in the JSON and PCK instances.* The code
  compares components one by one and stops at the first that is too low; two
  components have incomparable levels, and three have the two that TDX modules skip
  and one that they do not.
- *Advisories: 2 fit* instead of as many as 450 bytes hold. The code has one bound
  and throws when it is passed.
- *The version text* is three characters and the suffix two, with one byte of room,
  and the enclave's caller has room for four: all overlaps of two texts are there.
- *One replacement of a file* (`MaxReplacements`). The application's mistakes would be
  mixtures of two generations; one replacement at each moment mixes any file with
  any other. Two generations differ in keys, CRLs and levels.
- *Five words, three errors* (`MaxErrors`, 20 in the code): blocks of up to two
  words are exchanged on both sides, and a line can have one error too many.
- *Off by one in two sizes*: nested sizes are compared in pairs.
- *Widths* in the PCK instance are 4, 8 and 32 instead of 2^8, 2^32 and 2^64, with
  numbers on both sides of each; in JSON texts `int` has 8 bits and `int64_t` 16; in
  quotes a byte has five values, so that a number of four bytes fits TLC's integers.
- *Base three* in `JsonNumbers`, with 2^15 and 2^30 for 2^32 and 2^64: a number then has up to ten
  and nineteen digits, as in base ten, and takes every branch.
- *A day of eight seconds* in `GMTime`: the calendar with its leap and century years is the real one,
  up to the year 12000 instead of the last that an `int` holds.
- *Depth three* for 32 levels of JSON (`MAX_JSON_DEPTH`): bodies just under, at and over it.
- *Stacks of three cells, chunks of four, a heap of 72, five events* in `JsonMemory`: stacks grow twice, chunks
  are added, blocks larger than a chunk occur, and allocation never fails.

### Fairness

`QuoteVerification` (in `ImplementsAppraisal`) assumes that a step of the call that can be taken is
taken: a call is one thread of sequential code, without locks, waits or calls that do
not return. `Main` (`EventuallyReturns`) assumes the same of the application's own
thread and nothing of the process that replaces files. `TimeUtils` (`EveryTextIsJudged`)
assumes it of the thread that reads a date; there it is the search that has to end. The
other modules state no liveness: they have no loop but over finite lists.

Deadlock is not checked where a call, once it has returned, is the end of the behaviour.

## Proofs

| Module | Theorems | Argument |
| --- | --- | --- |
| `QuoteVerification_proofs` | `ChainOfTrustHolds`, `AuthenticatedBeforeJudgedHolds`, `TypeCorrect`, `BufferAgreesWithVerdictHolds`, `RelaunchAdviceSoundHolds`, `WeakestPartDecidesHolds`, `BufferSpansCollateralHolds`, `ImplementsAppraisalHolds` | `IInv`: at each point of the sequence, all checks before it held (and a status belongs to the check that failed). The properties say nothing of the points in between and are not inductive alone. `DataInv` adds what the evaluations so far have returned, on the lemma `EvaluateResult` that an evaluation yields at most one record with a known status. For `WeakestPartDecides`, `EvaluateConverges` shows that it is the platform's status converged with those of every component, `QeLevelsAreFound` that the QE's level is one that no other reaches, and `ConvergenceKeepsTheWorst` goes through the table of statuses. `DatesInv` adds to `IInv` from which items the verification info has its dates so far; `AddsOne` is its step and `Extremes` reads the earliest and latest off it. For the refinement, `RefusalInv` says that an error on its way out names an actual defect (`ChecksRefuse`, one case per check) or SVNs below every level. `EvaluateRates` shows that the evaluation is the abstract rating of a level that no other dominates: the first level of the ordered set is one (`FirstIsUndominated`), the tables of `convergeTcbStatus` are a union of flags (`ConvergenceIsUnion`), and those of `TDRelaunchCheck` are `Verdict` (`VerdictIs`). `NextRefines` takes the steps: all but the one that returns are stutters. |
| `CollateralVerification_proofs` | `TypeCorrect`, `AnchoredInTrustedRootHolds`, `PckRevokedByItsIssuerHolds`, `ImplementsTrustHolds` | `IInv`: the checks made so far, in the words of the code (`Root`, `Topmost`, ...). A second part, without states, turns these into trust: which certificates the loops of `CertificateChain` select in a chain of at most three (`Selected`), and that the chain they form hangs on the trusted root (`PckChainAnchor`, `SigningChainAnchor`, `CrlChainAnchor`). For the refinement, `TInv` adds what the answer says of the evidence, in both directions: an accepted call has trusted evidence, and a refused one has a defect that the abstract specification names too. |
| `QuoteParser_proofs` | `TypeCorrect`, `CursorStaysInsideHolds`, `AcceptsTheFormatHolds`, `PartsAreWhereTheyBelongHolds`; `QuoteAnswersAsItStandsHolds` | `IInv`: for each `pc`, where the cursor is in terms of `QuoteFormat`, which part of the format has been found to hold, and where the copied parts lie; a rejecting step shows that the part fails. The arithmetic is in `Positions` and `Room`. For `ObjectSpec`, `ObjectInv` adds that the caller holds nothing before a quote was accepted and the certification data or their size afterwards. What a quote answers is shown for every number of values a byte may have: `Swap16`, `Swap32`, `Array16` and `Array32` take numbers apart by division (`DivisionIs`), so that a member that was swapped on the way in is written as it stood (`WrittenAsItStood`); `StartsAre` says where the cursor of `insert` is at each member and `PartWritten` that members written one after another are one row of bytes (`BytesJoin`, `Flattened`). `FromTheFirst` stands for the induction over the members: a set that has the first number and with each the next has all of them. |
| `CollateralParser_proofs` | `TypeCorrect`, `AcceptsTheFormatHolds`, `LevelsAreSignedHolds`, `ObjectsAnswerAsSignedHolds`, `HighestLevelIsChosenHolds` | The lists of checks of the parsers are reduced to what they let pass (`FirstFailureIs`, `BothPass`), one lemma for each stage; only `VersionPasses` can throw `InvalidVersionException`. `FormatByStages`: a document is well-formed if and only if it passes all stages. `IInv`: what has been read so far fits the format and all of it was kept (`LevelsRead(n)`, with the number of levels, since the set drops those that compare as equal), and what is refused does not fit. For the order of the levels, `SvnVectorsCompare` says what `std::array`'s comparison finds, and `LevelsAreOrdered` that `operator>` is a strict total order that tells exactly the levels with different marks apart; `GreatestLevel` then finds the first of a finite set by its rank. For the objects, `IdentitiesKept` adds that the module identities read so far stand for those of the document one for one, and their levels too; `TcbLevelAnswers` shows that each level's accessors, of either version, answer from the JSON level it was made of, and since no two levels of an accepted document have the same SVNs, the set of levels is as large as the list it was read from. |
| `X509_proofs` | `TypeCorrect`, `AcceptsTheProfileHolds`, `ExceptionTellsTheCauseHolds`, `ObjectsAnswerAsCertifiedHolds`; `SplitsTheChainHolds`, `RevokedIsFoundHolds`, `CrlIsReadAsItStandsHolds`, `NamesAreJudgedAlikeHolds`, `CertificateIsReadAsItStandsHolds` | For the PCK classes: the checks are reduced as for `CollateralParser`. `IInv`: of the list that is read, and of the one it lies in, the entries up to its position fit (`ListInv`), and what is still expected are the names that have not come up; after the base class's pass the whole list fits it (`PckPassInv`). Each refusal has a lemma that names what is wrong with the certificate (`Justified`). `DataInv` adds what was found: for the last entry of each name up to the position, its converted value (of an SGX type, `IntIs` shows that what fits is kept) or, for a TCB or configuration, those of its whole list (`Tells`). That an entry leaves the members of other names alone (`MembersDiffer`, `EntryWrites`) makes it inductive, and carries what the base class found through the pass of the derived one. For the three readers beside it (`SplitSpec`, `CrlSpec`, `X509Spec`): `SplitInv` says that the pieces so far each end at an end marker and follow one another without one between them, and `LoopInv` that no end marker is passed over (`FirstTurn`, `LaterTurn`); a piece then holds exactly one block (`PieceHoldsBlock`, `BlockOfEnd`), and there are as many of the one as of the other (`SetOfList`). `CrlInv` and `MembersInv`: the members set so far, in their order, are what the text says, and when a CRL is refused, what is wrong with it. `HexReads` shows that digits are read as the octets they spell and no others, `HexWrites` that what the application writes spells the octets of the file; so `TextDecoded` tells which texts are taken. `TimesInOrder` is the arithmetic of days and seconds around 1970, and `FirstEntry` and `PlainNamesAgree` relate the two readings of a name, by its first entry of each kind and as one text. For certificates, `ThrownInv` adds that no setter so far has thrown or which one has; `RankFound` finds the letter that `std::copy_if` writes to a place, so that what is before the first zero of a printed value is what was kept (`PrintedUpToZero`). |
| `AttestationApp_proofs` | `AcceptedMeansTrustedHolds`, `SavedInfoIsTheJudgedOneHolds`, `UndisturbedVerdictHolds` | For `MainSpec` (and `IInv` for `Spec` alone). `IInv`: at each step of `runVerification`, which chains have been read and, for every call already made, that it is in `failed` or has accepted what is in `read`; no later step reads the files of a call again, whatever happens to `files`. A part without states (`AcceptedIsTrusted`) turns the accepted calls into trust: the certificate at the head of the PCK file, by which `verifyQuote` rates the platform, is the one that the verified chain ends in, since no CA has a PCK certificate's name; and TCB info and identity have the same signer. `UndisturbedInv`: as long as no file is replaced, what has been read is what the files hold and the answers so far are the library's answers about the files. `GivenAsItIs` takes care of the two forms of a CRL, which the application reads a second time when the first is refused; `ReplaceDisturbs` is the step that gives the invariant up. |
| `GetVersion_proofs` | `TypeCorrect`, `VersionIntactHolds`, `OptionalsKeepTheirValuesHolds`, `StatusesArePrintedByNameHolds`; `NumbersAreWrittenInDecimalHolds` | `BufferInv` places each thread in the buffer: no offset runs past the text, and a terminator stands behind what has been measured. `VersionInv` is by cases: callers that lock are alone between call and return, so that what one has written stays until it has read it (`Doing`); without a provider all threads write the same bytes to the same places, and no byte of the version ever changes back. A caller has then read a beginning of the text, and the whole of it when it returns. `OptionalInv`: an object points to no cell or to one that is allocated, has its value and is no other object's; each constructor, assignment and destructor has a step. For the names of the statuses, `TablesAreTheEnumeration` goes through both tables once, and `NamesAreApart` says that no name is there twice. `OptionalValue` and `StatusPrinter` stand here because they are run beside `GetVersion`. For `NumberSpec`, `NumberInv` says that what has been written is the text of a number that the call takes; the rest is about texts. `QuotientIs` and `PairRead`, `FourRead`, `EightRead` put a number together again from its groups, read from the first digit on (`Reads`). All digits up to the k-th are zero exactly when the number is below the power of ten with which the code compares it there (`FirstDigits`), so that what `Leading` drops is a beginning of zeros and what it keeps is one stretch that begins with another digit or is the last (`FirstWritten`, `LeadingStretch`, `LeadingIs`); dropping zeros in front changes no value (`StretchRead`). A number whose first digit is not zero has no more digits than the room for its width (`NoMoreDigits`), and `~u + 1` is the absolute value of the least number too (`NegatedIs`). |
| `Texts_proofs` | `MemoryKeepsWhatItIsGivenHolds`, `BuildsAgreeHolds`, `DayKeptHolds` | For `MemorySpec`, `MemoryInv` has one part for each `life` of a document. In all of them the memory is sound (`MemoryOK`): blocks lie apart, aligned and inside the heap; each stack that has room owns a block of exactly its capacity, each chunk one of its capacity and header, and no block is without an owner, which is why nothing is left when both are destroyed. On top of that lies what is there: the headers (`HeadersHold`), the strings and lists that the pool was given (`BlocksAt`), the values that wait (`ValuesAt`), what the reader returns to (`LevelsAt`) and the letters read so far (`ScannedAt`). The property alone is not inductive: it says nothing of cells behind the top of a stack, but the elements of a list and the letters of a string are copied from there, after they were popped and after the allocator and another stack have moved blocks. `PopShrinks`, `StringIsRead` and `ListIsReady` carry them over that gap (`FirstKept`: the first cells of a stack, popped or not, are what they were, wherever the stack is now); every block that a value points to is one that was handed out (`AllRefer`), and the indices of open lists increase (`LevelsOK`), so that closing one cuts the values where it began. A lemma for each operation of the heap, the stacks and the pool says that it leaves all blocks but its own as they were (`AllKept`, `OnlyMoves`, `PoolKept`), one for each event that the parse goes on (`PlainStep`, ..., `DestroyStep`), and `MemoryIsKept` reads the property off the invariant. For `DayKeptHolds`, no run checks `DayKept`: `BuildsAgree` depends on it, and the theorem holds for every width of `time_t`. `ClockInv` adds that the times probed are integers, which needs that the seconds set aside are, back to the text that was in range. For `BuildsAgreeHolds`, `LoopInv` adds that the loop of `timesub` never runs past the year it looks for, on either side of 1970, although its guess is a year of 366 days; where it ends, what is broken down is a date whose seconds are those asked for (`EndsInItsYear`), and where an `int` does not hold the year, the time is before or after every date a text can name (`NoAnswerIsFar`). Of two dates the one that `tmcomp` finds earlier has fewer seconds (`SecondsInOrder`), so that every probe moves the bound on the right side: `FoundInv` says that the second of a date that is there stays between the bounds, `StagesInv` that a text goes on only if it names such a date, and a second other than -1. |

Assumptions: `LevelsAssumption` (what the parser and the `std::set` guarantee of
levels: statuses, SVNs as functions, no two that compare as equal; that the parser
does keep its levels so is what `CollateralParser_proofs` shows, in `AcceptedLevels` and `GreatestLevel`), `EvidenceAssumption` (the same of the QE's levels; dates and SVNs are numbers; in `CollateralVerification`, at most one document and as many CRLs as the
function takes), `FormatsAssumption` (a quote is of one of two TEEs, a certificate is malformed in
one of two ways), `CallsAssumption` and `QuotesAssumption` (the types of the
arguments), `QuoteObjectAssumption` (a byte has at least two values, and each byte of a quote is one of them), `SvnLengthAssumption`, `VersionAssumption` (the version is a text without terminators that the buffer has room for, with its suffix), `PckAssumption`, `ClockAssumption` and `JsonMemoryAssumption` (constants are
positive and in order, an `int` has as many negative values as others, the SVN of a component fits a `long`, and the headers of the pool are multiples of the alignment); `JsonNumbersAssumption` (the base is two at least, 32 and 64 bits hold no more values than the groups of digits and the room pushed have places for, and numbers lie in their width; it holds of ten, 2^32, 2^64 and the code's 11, 10, 21 and 20); `TextsAssumption` (characters have values, a year fits an `int` and its seconds a `time_t`; four characters, none above 127, are at most 87769, and the widths of the code are 32 and 64 bits); `CertificatesAssumption` (what OpenSSL makes of
extensions: sequences of entries, of which numbers have integers as values); `DocumentsAssumption` (what rapidjson makes of
a text: an array is a sequence, a number an integer, a string a text, a date or hex digits, each in as many forms as a field can have); `CrlsAssumption` and `X509Assumption` (names are sequences of entries, extensions have texts of octets, a serial number has an octet at least; the seconds of a time have the sign of its days; a PEM text has a dash in it; only a binary file has the octets of the DER); `ChainsAssumption` (a chain is shorter than `npos`); `StringsAssumption` (the literals of the model are strings, which the prover does not know); `ContentsAssumption` and `OptionsAssumption` (a file is
missing or, if it holds certificates, a list of them whose subjects are among the common names modelled; a CRL that parses is PEM or DER). TLC evaluates all of them.

Two theorems have a hypothesis that the run's instance meets: `CallersTakeCare` for the version (a provider
means that callers lock, and an enclave's buffer has room for the terminator; the runs `version_fips` and `version_enclave` show that
either is needed) and `~CopiesEmpty` for `OptionalValue` (see the observations below). The proof of `TypeCorrect` for
`GetVersion` holds without: a caller whose buffer is filled without a terminator reads all of it, and no more in the model.

The `TypeOK` of the modules with proofs is in no run, for the theorem says more.

Only model-checked:

- liveness (`EventuallyReturns`, `EveryTextIsJudged`, and that every call returns, which `ImplementsAppraisalHolds` takes
  as its hypothesis): fairness and `ENABLED` are beyond the prover;
- the properties of the remaining modules (`OptionsAreTheWords` and those of `JsonDocument`). They
  say that a loop over a text or a list of words has computed what a definition without the loop says;
  those of `JsonDocument` also need `RECURSIVE` operators, for rapidjson's own recursion.

The library's induction theorems have an operator as parameter, which the installed provers cannot
instantiate. Modules with proofs use quantifiers over lists and sets where they can. Where an induction
is needed, the least number with a property (`LeastNumber`, from the well-foundedness of the naturals)
takes its place: a finite set has a first element (`GreatestLevel`), there is no first member at which
the cursor of `insert` would be elsewhere (`FromTheFirst`), no first digit at which what `itoa.h`
writes would be read otherwise and no first year with a day too many (`FromZero`, for recursive functions on `0..n`). Of `RECURSIVE`
operators nothing is proved: they are in `JsonReader` and `JsonDocument` only, which have no theorems.

## What the models leave out

- OpenSSL: what it decodes, prints and verifies is given. Signatures and digests are symbolic.
- The layout of the verification collateral info (`putValue`), logging (compiled out of enclaves), and the
  enclave's proxies: what they copy in and out is the SDK's, but for the version.
- `sgxAttestationVerifyEnclaveReport`: one parse and the check that `EnclaveReportVerifier`
  models, without a call of its own.
- Memory exhaustion and exceptions that the code does not throw itself.
- Doubles in JSON: one value stands for all; the code refuses them wherever a number is read.
- rapidjson and argtable3 but for what the program runs: iterative parsing of a string in UTF-8, the
  document, the writer for it, the pool; literals, words and strings as options. Pointers, schemas, other
  encodings, the recursive reader, numbers with fractions, dates, files, regular expressions, hash tables
  and the printing of the glossary make up most of their lines. This is why the share of mapped lines
  of the repository is limited: much of it is vendored code that never runs.

## Observed, in no run

- `TimeUtils.h:63-66` says that the enclave's `getCurrentTime` without a time returns a stored one;
  `TimeUtils.cpp:334-342` throws.
- `Tcb::getSgxTcbComponentSvn` throws `std::out_of_range` where
  `AttestationParsers.h:1175` documents `FormatException`; the library never
  asks for a component that is not there.
- `TcbLevel::getStatus` returns seven values (`TcbLevel.cpp:311`); its documentation lists five
  (`AttestationParsers.h:509`).
- Serial number zero is no octets for a certificate and one octet for a CRL, so that it is never
  found revoked (`RevokedIsFound` leaves it out; no certificate may have it). Negative ones are read by their magnitude.
- The library looks for a PEM header within the first 12 characters, the application at the first only
  (`CrlIsReadAsItStands` says what follows).
- An entry of a name that takes another number of bytes in UTF-8 is read as an empty one; CRLs are tied to
  certificates by the whole text of the name, certificates to each other by five entries (`NamesAreJudgedAlike`).
- `main` returns 0 whether or not the verification succeeded.
- A copy assignment from an empty `Optional` deletes the cell and keeps the pointer. The program never does
  it; `CopiesEmpty` is FALSE in the run for that reason.
- `std::stoll` reads the beginning of a text as a number; the expiration date `12x` is 12.

## Order of the modules, and what is left

Modelled first was what a verdict rests on: quote verification, then the
collateral it trusts, then the application that has to connect the two; then
the parsers, outermost first, down to the text they read and the memory they
read it in. Left to do:

1. *Composition*: the calls of `AttestationApp` replaced by those of
   `CollateralVerification` and an abstract verdict, and quotes as `QuoteParser`
   leaves them in place of the record that `QuoteVerification` is given.
2. *The layout of the collateral info*, byte by byte.
