--------------------------- MODULE GetVersion_proofs ---------------------------
(***************************************************************************)
(* Proofs about the helpers: the version that threads ask for, for every   *)
(* text, buffer and number of threads, the optional value, for every       *)
(* number of objects and cells, the names of statuses, and the digits of   *)
(* the integers in a text, for every base and every width: what the        *)
(* comparisons with powers of ten leave out is the zeros before the first  *)
(* digit, and nothing else.                                                *)
(***************************************************************************)
EXTENDS GetVersion, OptionalValue, StatusPrinter, JsonNumbers,
        NaturalsInduction, WellFoundedInduction, SequenceTheorems, TLAPS

\* Every set of numbers has a least one.
LEMMA LeastByte ==
    ASSUME NEW S \in SUBSET Nat, S # {}
    PROVE  Min(S) \in S /\ \A j \in S : Min(S) <= j
<1> DEFINE R == { pair \in Nat \X Nat : pair[1] < pair[2] }
<1>1. IsWellFoundedOn(R, Nat)
  BY NatLessThanWellFounded DEF OpToRel
<1>2. \A x, y \in Nat : <<x, y>> \in R <=> x < y
  OBVIOUS
<1>. HIDE DEF R
<1>3. PICK x \in S : \A y \in S : <<y, x>> \notin R
  BY <1>1, WFMin
<1>4. \A y \in S : ~(y < x)
  BY <1>2, <1>3
<1>5. \A y \in S : x <= y
  BY <1>4
<1>. QED BY <1>5 DEF Min

(***************************************************************************)
(* The buffer is never left, whoever calls: the type invariant.            *)
(***************************************************************************)
Chars ==
    { VERSION[i] : i \in 1 .. Len(VERSION) } \union { Suffix[i] : i \in 1 .. Len(Suffix) }
      \union { NUL }

LEMMA Texts ==
    /\ VERSION \in Seq(Chars) /\ Suffix \in Seq(Chars)
    /\ BufferSize \in Nat /\ Len(VERSION) \in Nat \ {0} /\ Len(Suffix) \in Nat
    /\ Len(VERSION) + Len(Suffix) < BufferSize
    /\ \A i \in 1 .. Len(VERSION) : VERSION[i] # NUL /\ VERSION[i] \in Chars
    /\ \A i \in 1 .. Len(Suffix) : Suffix[i] # NUL /\ Suffix[i] \in Chars
    /\ NUL \in Chars
<1>1. DOMAIN VERSION = 1 .. Len(VERSION) /\ Len(VERSION) \in Nat
  BY VersionAssumption DEF IsText
<1>2. DOMAIN Suffix = 1 .. Len(Suffix) /\ Len(Suffix) \in Nat
  BY VersionAssumption DEF IsText
<1>3. /\ \A i \in 1 .. Len(VERSION) : VERSION[i] \in Chars
      /\ \A i \in 1 .. Len(Suffix) : Suffix[i] \in Chars
      /\ NUL \in Chars
  BY DEF Chars
<1>4. VERSION \in Seq(Chars) /\ Suffix \in Seq(Chars)
  BY <1>1, <1>2, <1>3, VersionAssumption DEF IsText
<1>. QED BY <1>1, <1>2, <1>3, <1>4, VersionAssumption

\* What a caller can have read: characters of the two texts, and beyond them.
Readable == Chars \union { "beyond" }

\* Where a thread is in the buffer, besides the types.
Inside(t) ==
    /\ pc[t] \in { "copy", "measure", "append" } => read[t] = << >>
    /\ pc[t] = "copy" => at[t] <= Len(VERSION) + 1
    /\ pc[t] = "append" => at[t] <= Fitting(t) + 1
    /\ pc[t] = "read" => Len(read[t]) = at[t] - 1
    /\ pc[t] = "copyOut" => Len(read[t]) < BufferSize

BufferInv ==
    /\ TypeOK
    /\ read \in [ Threads -> Seq(Readable) ]
    /\ \A t \in Threads : Inside(t)

LEMMA TypesOf ==
    ASSUME TypeOK, NEW t \in Threads
    PROVE  /\ ver \in [ Bytes -> Chars ] /\ ver[BufferSize] = NUL
           /\ pc[t] \in Points /\ at[t] \in Bytes /\ end[t] \in Bytes
           /\ mode \in Modes /\ mode.len \in Nat /\ mode.fips \in BOOLEAN
           /\ mode.serialised \in BOOLEAN
           /\ pc \in [ Threads -> Points ] /\ at \in [ Threads -> Bytes ]
           /\ end \in [ Threads -> Bytes ]
<1>1. mode \in [ fips : BOOLEAN, serialised : BOOLEAN, len : Nat ]
  BY VersionAssumption DEF TypeOK
<1>. QED BY <1>1 DEF TypeOK, Chars

LEMMA FittingFits ==
    ASSUME BufferInv, NEW t \in Threads
    PROVE  /\ Fitting(t) \in Nat /\ Fitting(t) <= Len(Suffix)
           /\ end[t] + Fitting(t) <= BufferSize
  BY TypesOf, Texts DEF BufferInv, Fitting, Bytes

\* What one thread does leaves the others where they are.
LEMMA OthersStay ==
    ASSUME BufferInv, NEW t \in Threads, NEW o \in Threads, o # t,
           NEW next, NEW position, Go(t, next, position),
           end'[o] = end[o], read'[o] = read[o]
    PROVE  Inside(o)' /\ Len(read'[o]) <= BufferSize
<1>1. pc'[o] = pc[o] /\ at'[o] = at[o]
  BY TypesOf DEF Go, BufferInv
<1>2. Fitting(o)' = Fitting(o)
  BY DEF Fitting
<1>. QED BY <1>1, <1>2 DEF BufferInv, Inside, TypeOK

\* A step of one thread keeps the invariant if it keeps the thread and the buffer inside.
LEMMA StepStaysInside ==
    ASSUME BufferInv, NEW t \in Threads,
           NEW next \in Points, NEW position \in Bytes, Go(t, next, position),
           ver' \in [ Bytes -> Chars ], ver'[BufferSize] = NUL,
           end' \in [ Threads -> Bytes ], \A o \in Threads \ {t} : end'[o] = end[o],
           read' \in [ Threads -> Seq(Readable) ], \A o \in Threads \ {t} : read'[o] = read[o],
           UNCHANGED mode, Inside(t)', Len(read'[t]) <= BufferSize
    PROVE  BufferInv'
<1>1. pc' \in [ Threads -> Points ] /\ at' \in [ Threads -> Bytes ]
  BY TypesOf DEF Go, BufferInv
<1>2. \A o \in Threads : Inside(o)' /\ Len(read'[o]) <= BufferSize
  BY OthersStay
<1>. QED BY <1>1, <1>2 DEF BufferInv, TypeOK, Chars

LEMMA CallStaysInside ==
    ASSUME BufferInv, NEW t \in Threads, Call(t)
    PROVE  BufferInv'
<1>1. pc'[t] = "copy" /\ at'[t] = 1 /\ 1 \in Bytes
  BY TypesOf, Texts DEF BufferInv, Call, Go, Bytes
<1>2. read' = [ read EXCEPT ![t] = << >> ] /\ << >> \in Seq(Readable) /\ Len(<< >>) = 0
  BY DEF Call
<1>3. /\ read' \in [ Threads -> Seq(Readable) ] /\ read'[t] = << >>
      /\ \A o \in Threads \ {t} : read'[o] = read[o]
  BY <1>2 DEF BufferInv
<1>4. Inside(t)' /\ Len(read'[t]) <= BufferSize
  BY <1>1, <1>2, <1>3, Texts DEF Inside
<1>5. Go(t, "copy", 1) /\ "copy" \in Points /\ UNCHANGED <<ver, end, mode>>
  BY DEF Call, Points
<1>. QED BY <1>1, <1>3, <1>4, <1>5, TypesOf, StepStaysInside DEF BufferInv

\* A byte that a thread writes, of a text or the terminator, within the buffer.
LEMMA WriteStaysInside ==
    ASSUME BufferInv, NEW t \in Threads, NEW char \in Chars,
           NEW place \in 1 .. BufferSize, place = BufferSize => char = NUL,
           ver' = [ ver EXCEPT ![place] = char ],
           NEW next \in Points, NEW position \in Bytes, Go(t, next, position),
           UNCHANGED <<end, read, mode>>, Inside(t)'
    PROVE  BufferInv'
<1>1. ver' \in [ Bytes -> Chars ] /\ ver'[BufferSize] = NUL
  BY TypesOf, Texts DEF BufferInv, Bytes
<1>2. /\ end' \in [ Threads -> Bytes ] /\ \A o \in Threads \ {t} : end'[o] = end[o]
      /\ read' \in [ Threads -> Seq(Readable) ] /\ \A o \in Threads \ {t} : read'[o] = read[o]
      /\ Len(read'[t]) <= BufferSize /\ UNCHANGED mode
  BY TypesOf DEF BufferInv, TypeOK
<1>. QED BY <1>1, <1>2, StepStaysInside

LEMMA WritersStayInside ==
    ASSUME BufferInv, NEW t \in Threads,
           CopyByte(t) \/ CopyTerminator(t) \/ AppendByte(t) \/ AppendTerminator(t)
    PROVE  BufferInv'
<1>0. /\ pc[t] \in Points /\ at[t] \in Bytes /\ end[t] \in Bytes /\ mode.fips \in BOOLEAN
      /\ pc \in [ Threads -> Points ] /\ at \in [ Threads -> Bytes ] /\ Inside(t)
  BY TypesOf DEF BufferInv
<1>1. CASE CopyByte(t)
  <2>1. pc'[t] = "copy" /\ at'[t] = at[t] + 1 /\ at[t] <= Len(VERSION) /\ at[t] + 1 \in Bytes
    BY <1>0, <1>1, Texts DEF CopyByte, Go, Bytes
  <2>2. Inside(t)'
    <3>1. read'[t] = << >>
      BY <1>0, <1>1 DEF CopyByte, Inside
    <3>. QED BY <2>1, <3>1, Texts, <1>0 DEF Inside, Bytes
  <2>3. /\ at[t] \in 1 .. BufferSize /\ at[t] # BufferSize /\ VERSION[at[t]] \in Chars
        /\ "copy" \in Points
    BY <1>0, <2>1, Texts DEF Bytes, Points
  <2>. QED BY <1>1, <2>1, <2>2, <2>3, WriteStaysInside DEF CopyByte
<1>2. CASE CopyTerminator(t)
  <2> DEFINE next == IF mode.fips THEN "measure" ELSE "read"
  <2>1. next \in Points /\ next \notin { "copy", "append" } /\ 1 \in Bytes /\ NUL \in Chars
    BY Texts DEF Points, Bytes
  <2>2. pc'[t] = next /\ at'[t] = 1
    BY <1>0, <1>2 DEF CopyTerminator, Go
  <2>3. at[t] \in 1 .. BufferSize /\ ver' = [ ver EXCEPT ![at[t]] = NUL ]
    BY <1>0, <1>2 DEF CopyTerminator, Bytes
  <2>4. read'[t] = << >>
    BY <1>0, <1>2 DEF CopyTerminator, Inside
  <2>5. Inside(t)'
    BY <2>1, <2>2, <2>4 DEF Inside
  <2>. HIDE DEF next
  <2>6. Go(t, next, 1) /\ UNCHANGED <<end, read, mode>>
    BY <1>2 DEF CopyTerminator, next
  <2>. QED BY <2>1, <2>3, <2>5, <2>6, WriteStaysInside
<1>3. CASE AppendByte(t)
  <2>1. /\ Fitting(t) \in Nat /\ Fitting(t) <= Len(Suffix) /\ end[t] + Fitting(t) <= BufferSize
        /\ at[t] <= Fitting(t)
    BY <1>3, FittingFits DEF AppendByte
  <2> DEFINE place == end[t] + at[t] - 1
  <2>2. place \in 1 .. BufferSize /\ place # BufferSize /\ at[t] + 1 \in Bytes
    BY <2>1, <1>0, Texts DEF Bytes
  <2>3. Suffix[at[t]] \in Chars /\ "append" \in Points
    BY <2>1, <1>0, Texts DEF Bytes, Points
  <2>4. pc'[t] = "append" /\ at'[t] = at[t] + 1 /\ Fitting(t)' = Fitting(t) /\ read'[t] = << >>
    BY <1>0, <1>3 DEF AppendByte, Go, Inside, Fitting
  <2>5. Inside(t)'
    BY <2>1, <2>4, <1>0 DEF Inside, Bytes
  <2>6. /\ ver' = [ ver EXCEPT ![place] = Suffix[at[t]] ] /\ Go(t, "append", at[t] + 1)
        /\ UNCHANGED <<end, read, mode>>
    BY <1>3 DEF AppendByte
  <2>. HIDE DEF place
  <2>. QED BY <2>2, <2>3, <2>5, <2>6, WriteStaysInside
<1>4. CASE AppendTerminator(t)
  <2>1. /\ Fitting(t) \in Nat /\ Fitting(t) <= Len(Suffix) /\ end[t] + Fitting(t) <= BufferSize
        /\ at[t] = Fitting(t) + 1
    BY <1>4, FittingFits DEF AppendTerminator
  <2> DEFINE place == end[t] + at[t] - 1
  <2>2. place \in 1 .. BufferSize /\ NUL \in Chars /\ 1 \in Bytes /\ "read" \in Points
    BY <2>1, <1>0, Texts DEF Bytes, Points
  <2>3. pc'[t] = "read" /\ at'[t] = 1 /\ read'[t] = << >>
    BY <1>0, <1>4 DEF AppendTerminator, Go, Inside
  <2>4. Inside(t)'
    BY <2>3 DEF Inside
  <2>5. /\ ver' = [ ver EXCEPT ![place] = NUL ] /\ Go(t, "read", 1)
        /\ UNCHANGED <<end, read, mode>>
    BY <1>4 DEF AppendTerminator
  <2>. HIDE DEF place
  <2>. QED BY <2>2, <2>4, <2>5, WriteStaysInside
<1>. QED BY <1>1, <1>2, <1>3, <1>4

LEMMA MeasureStaysInside ==
    ASSUME BufferInv, NEW t \in Threads, Measure(t)
    PROVE  BufferInv'
<1> DEFINE S == { i \in Bytes : ver[i] = NUL }
<1>1. BufferSize \in S /\ S \in SUBSET Nat /\ S \in SUBSET Bytes
  BY TypesOf, Texts DEF BufferInv, Bytes
<1>2. Terminator(ver) = Min(S) /\ Min(S) \in S
  BY <1>1, LeastByte DEF Terminator
<1>3. Terminator(ver) \in Bytes
  BY <1>1, <1>2
<1>4. /\ end' \in [ Threads -> Bytes ] /\ \A o \in Threads \ {t} : end'[o] = end[o]
      /\ end'[t] \in Bytes
  BY <1>3, TypesOf DEF Measure, BufferInv
<1>5. pc'[t] = "append" /\ at'[t] = 1 /\ 1 \in Bytes /\ "append" \in Points
  BY TypesOf, Texts DEF Measure, BufferInv, Go, Bytes, Points
<1>6. Fitting(t)' \in Nat
  BY <1>4, Texts DEF Fitting, Bytes
<1>7. read' \in [ Threads -> Seq(Readable) ] /\ read' = read /\ ver' = ver /\ UNCHANGED mode
  BY DEF BufferInv, Measure
<1>8. Inside(t)'
  BY <1>5, <1>6, <1>7 DEF Inside, BufferInv, Measure
<1>9. ver' \in [ Bytes -> Chars ] /\ ver'[BufferSize] = NUL /\ Len(read'[t]) <= BufferSize
  BY <1>7, TypesOf DEF BufferInv, TypeOK
<1>10. Go(t, "append", 1)
  BY DEF Measure
<1>. QED BY <1>4, <1>5, <1>7, <1>8, <1>9, <1>10, StepStaysInside

\* What a reader does changes nothing of the buffer.
LEMMA ReadStaysInside ==
    ASSUME BufferInv, NEW t \in Threads, NEW text \in Seq(Readable), Len(text) <= BufferSize,
           read' = [ read EXCEPT ![t] = text ],
           NEW next \in Points, NEW position \in Bytes, Go(t, next, position),
           UNCHANGED <<ver, end, mode>>,
           next = "read" => Len(text) = position - 1,
           next = "copyOut" => Len(text) < BufferSize,
           next \notin { "copy", "measure", "append" }
    PROVE  BufferInv'
<1>1. /\ read' \in [ Threads -> Seq(Readable) ] /\ read'[t] = text
      /\ \A o \in Threads \ {t} : read'[o] = read[o]
  BY DEF BufferInv
<1>2. pc'[t] = next /\ at'[t] = position
  BY TypesOf DEF BufferInv, Go
<1>3. Inside(t)'
  BY <1>1, <1>2 DEF Inside
<1>. QED BY <1>1, <1>3, TypesOf, StepStaysInside DEF BufferInv

LEMMA ReadByteStaysInside ==
    ASSUME BufferInv, NEW t \in Threads, ReadByte(t)
    PROVE  BufferInv'
<1>1. /\ read[t] \in Seq(Readable) /\ Len(read[t]) = at[t] - 1 /\ at[t] \in 1 .. BufferSize
      /\ ver[at[t]] \in Chars /\ ver[BufferSize] = NUL /\ 1 \in Bytes /\ BufferSize \in Nat
  BY TypesOf, Texts DEF BufferInv, ReadByte, Inside, Bytes
<1>2. CASE ver[at[t]] = NUL
  <2> DEFINE next == IF mode.len = 0 THEN "done" ELSE "copyOut"
  <2>1. next \in Points /\ next \notin { "copy", "measure", "append", "read" }
    BY DEF Points
  <2>2. Go(t, next, 1) /\ read' = read /\ UNCHANGED <<ver, end, mode>>
    BY <1>2 DEF ReadByte
  <2>3. read' = [ read EXCEPT ![t] = read[t] ]
    BY <2>2 DEF BufferInv
  <2>4. Len(read[t]) < BufferSize /\ Len(read[t]) <= BufferSize
    BY <1>1
  <2>. HIDE DEF next
  <2>. QED BY <1>1, <2>1, <2>2, <2>3, <2>4, ReadStaysInside
<1>3. CASE ver[at[t]] # NUL
  <2> DEFINE longer == Append(read[t], ver[at[t]])
  <2>1. longer \in Seq(Readable) /\ Len(longer) = at[t]
    BY <1>1 DEF Readable
  <2>2. at[t] # BufferSize /\ at[t] + 1 \in Bytes /\ "read" \in Points
    BY <1>1, <1>3 DEF Bytes, Points
  <2>3. /\ read' = [ read EXCEPT ![t] = longer ] /\ Go(t, "read", at[t] + 1)
        /\ UNCHANGED <<ver, end, mode>>
    BY <1>3 DEF ReadByte
  <2>. HIDE DEF longer
  <2>4. Len(longer) <= BufferSize /\ Len(longer) = (at[t] + 1) - 1
    BY <2>1, <1>1
  <2>. QED BY <2>1, <2>2, <2>3, <2>4, ReadStaysInside
<1>. QED BY <1>2, <1>3

\* CopyOut never hands out more than has been read, but for what is beyond.
LEMMA CopyOutStaysInside ==
    ASSUME BufferInv, NEW t \in Threads, CopyOut(t)
    PROVE  BufferInv'
<1> DEFINE buffer == CallersBuffer(t)
           ends == { i \in DOMAIN buffer : buffer[i] = NUL }
           text == IF ends = { } THEN buffer \o << "beyond" >>
                   ELSE SubSeq(buffer, 1, Min(ends) - 1)
<1>1. /\ read[t] \in Seq(Readable) /\ Len(read[t]) < BufferSize /\ mode.len \in Nat
      /\ BufferSize \in Nat /\ Len(read[t]) \in Nat
  BY TypesOf, Texts DEF BufferInv, CopyOut, Inside
<1>2. /\ DOMAIN buffer = 1 .. mode.len
      /\ \A i \in 1 .. mode.len : buffer[i] = IF i <= Len(read[t]) THEN read[t][i] ELSE NUL
  BY DEF CallersBuffer
<1>. HIDE DEF buffer
<1>3. buffer \in Seq(Readable) /\ Len(buffer) = mode.len
  <2>1. \A i \in 1 .. mode.len : buffer[i] \in Readable
    <3>1. NUL \in Readable
      BY Texts DEF Readable
    <3>. QED BY <3>1, <1>1, <1>2
  <2>2. buffer \in [ 1 .. mode.len -> Readable ]
    BY <2>1 DEF buffer, CallersBuffer
  <2>3. \A n \in Nat : \A f \in [ 1 .. n -> Readable ] : f \in Seq(Readable) /\ Len(f) = n
    OBVIOUS
  <2>. QED BY <2>2, <2>3, <1>1
<1>4. text \in Seq(Readable) /\ Len(text) <= BufferSize
  <2>1. CASE ends = { }
    <3>1. mode.len <= Len(read[t])
      <4>1. CASE mode.len = 0
        BY <4>1, <1>1
      <4>2. CASE mode.len > 0
        <5>1. buffer[mode.len] # NUL
          BY <2>1, <1>2, <1>1, <4>2
        <5>. QED BY <5>1, <1>2, <1>1, <4>2
      <4>. QED BY <4>1, <4>2, <1>1
    <3>2. text = buffer \o << "beyond" >>
      BY <2>1
    <3>. HIDE DEF text, ends
    <3>3. text \in Seq(Readable) /\ Len(text) = mode.len + 1
      <4>1. << "beyond" >> \in Seq(Readable) /\ Len(<< "beyond" >>) = 1
        BY DEF Readable
      <4>. QED BY <3>2, <4>1, <1>3
    <3>. QED BY <3>1, <3>3, <1>1
  <2>2. CASE ends # { }
    <3>1. ends \in SUBSET Nat
      BY <1>2
    <3>2. Min(ends) \in ends /\ \A i \in ends : Min(ends) <= i
      BY <2>2, <3>1, LeastByte
    <3>3. Min(ends) \in 1 .. mode.len /\ (Len(read[t]) < mode.len => Min(ends) <= Len(read[t]) + 1)
      <4>1. Min(ends) \in 1 .. mode.len
        BY <3>2, <1>2
      <4>2. ASSUME Len(read[t]) < mode.len PROVE Len(read[t]) + 1 \in ends
        BY <4>2, <1>2, <1>1
      <4>. QED BY <4>1, <4>2, <3>2
    <3>4. Min(ends) - 1 \in 0 .. mode.len /\ Min(ends) - 1 <= Len(read[t])
      BY <3>3, <1>1
    <3>5. text = SubSeq(buffer, 1, Min(ends) - 1)
      BY <2>2
    <3>. HIDE DEF ends, text
    <3>6. text \in Seq(Readable) /\ Len(text) = Min(ends) - 1
      BY <3>4, <3>5, <1>3
    <3>. QED BY <3>4, <3>6, <1>1
  <2>. QED BY <2>1, <2>2
<1>5. /\ read' = [ read EXCEPT ![t] = text ] /\ Go(t, "done", 1) /\ UNCHANGED <<ver, end, mode>>
  BY DEF CopyOut, buffer
<1>6. 1 \in Bytes /\ "done" \in Points
  BY Texts DEF Bytes, Points
<1>. HIDE DEF text
<1>. QED BY <1>4, <1>5, <1>6, ReadStaysInside

LEMMA BufferInvStart == Init => BufferInv
<1>. SUFFICES ASSUME Init PROVE BufferInv
  OBVIOUS
<1>1. 1 \in Bytes /\ BufferSize \in Bytes
  BY Texts DEF Bytes
<1>2. << >> \in Seq(Readable) /\ Len(<< >>) = 0
  OBVIOUS
<1>. QED BY <1>1, <1>2, Texts DEF Init, BufferInv, TypeOK, Inside, Points, Chars

LEMMA BufferInvStep == BufferInv /\ [Next]_vars => BufferInv'
<1>. SUFFICES ASSUME BufferInv, [Next]_vars PROVE BufferInv'
  OBVIOUS
<1>1. CASE UNCHANGED vars
  BY <1>1 DEF vars, BufferInv, TypeOK, Inside, Fitting
<1>2. CASE Next
  BY <1>2, CallStaysInside, WritersStayInside, MeasureStaysInside, ReadByteStaysInside,
     CopyOutStaysInside DEF Next
<1>. QED BY <1>1, <1>2

\* Whoever calls meanwhile, no thread writes or reads outside of the buffer, and the buffer
\* ends with a terminator: the place measured with strlen may be that of another's half
\* written text (QuoteVerification.cpp:70-72), but what is appended there fits.
THEOREM TypeCorrect == Spec => []TypeOK
<1>1. BufferInv => TypeOK
  BY DEF BufferInv
<1>. QED BY <1>1, BufferInvStart, BufferInvStep, PTL DEF Spec

(***************************************************************************)
(* What callers read, if those with a FIPS provider lock.                  *)
(***************************************************************************)
VersionText(m) == IF m.fips THEN VERSION \o Suffix ELSE VERSION

Text == VersionText(mode)

\* With a FIPS provider the callers take a lock, and the buffer of an enclave's caller has
\* room for the text and its terminator.
CallersTakeCare ==
    \A m \in Modes : (m.fips => m.serialised) /\ (m.len # 0 => Len(VersionText(m)) < m.len)

LEMMA TextIs ==
    ASSUME TypeOK
    PROVE  /\ Text \in Seq(Chars) /\ Len(Text) \in Nat /\ Len(Text) < BufferSize
           /\ Len(VERSION) <= Len(Text)
           /\ \A i \in 1 .. Len(VERSION) : Text[i] = VERSION[i]
           /\ \A i \in 1 .. Len(Text) : Text[i] # NUL
           /\ ~mode.fips => Len(Text) = Len(VERSION)
           /\ mode.fips => /\ Len(Text) = Len(VERSION) + Len(Suffix)
                           /\ \A i \in 1 .. Len(Suffix) : Text[Len(VERSION) + i] = Suffix[i]
<1>1. mode.fips \in BOOLEAN
  BY VersionAssumption DEF TypeOK
<1>2. CASE ~mode.fips
  BY <1>2, Texts DEF Text, VersionText
<1>3. CASE mode.fips
  <2>1. Text = VERSION \o Suffix
    BY <1>3 DEF Text, VersionText
  <2>2. /\ Text \in Seq(Chars) /\ Len(Text) = Len(VERSION) + Len(Suffix)
        /\ \A i \in 1 .. Len(VERSION) + Len(Suffix) :
              Text[i] = IF i <= Len(VERSION) THEN VERSION[i] ELSE Suffix[i - Len(VERSION)]
    BY <2>1, Texts
  <2>3. \A i \in 1 .. Len(VERSION) : Text[i] = VERSION[i]
    BY <2>2, Texts
  <2>4. \A i \in 1 .. Len(Suffix) : Text[Len(VERSION) + i] = Suffix[i]
    <3>. TAKE i \in 1 .. Len(Suffix)
    <3>1. /\ Len(VERSION) + i \in 1 .. Len(VERSION) + Len(Suffix)
          /\ ~(Len(VERSION) + i <= Len(VERSION)) /\ (Len(VERSION) + i) - Len(VERSION) = i
      BY Texts
    <3>. QED BY <3>1, <2>2
  <2>5. \A i \in 1 .. Len(Text) : Text[i] # NUL
    <3>. TAKE i \in 1 .. Len(Text)
    <3>1. CASE i <= Len(VERSION)
      BY <3>1, <2>2, <2>3, Texts
    <3>2. CASE ~(i <= Len(VERSION))
      <4>1. i - Len(VERSION) \in 1 .. Len(Suffix) /\ Text[i] = Suffix[i - Len(VERSION)]
        BY <3>2, <2>2, Texts
      <4>. QED BY <4>1, Texts
    <3>. QED BY <3>1, <3>2
  <2>. QED BY <1>3, <2>2, <2>3, <2>4, <2>5, Texts
<1>. QED BY <1>1, <1>2, <1>3

AtRest(t) == pc[t] \in { "idle", "done" }

Written(n) == \A i \in 1 .. n : ver[i] = Text[i]

\* What is in the buffer for a thread at each point, and what it has read of it.
Doing(t) ==
    /\ pc[t] = "copy" => Written(at[t] - 1)
    /\ pc[t] = "measure" =>
         mode.fips /\ Written(Len(VERSION)) /\ ver[Len(VERSION) + 1] = NUL
    /\ pc[t] = "append" =>
         mode.fips /\ end[t] = Len(VERSION) + 1 /\ Written(Len(VERSION) + at[t] - 1)
    /\ pc[t] = "read" =>
         /\ Written(Len(Text)) /\ at[t] <= Len(Text) + 1
         /\ read[t] = SubSeq(Text, 1, at[t] - 1)
    /\ pc[t] = "copyOut" => mode.len # 0
    /\ pc[t] \in { "copyOut", "done" } => read[t] = Text

\* The inductive invariant: callers that lock are alone, and otherwise no two threads write
\* different bytes to a place.
VersionInv ==
    /\ BufferInv
    /\ \A i \in Bytes : ver[i] = NUL \/ (i <= Len(Text) /\ ver[i] = Text[i])
    /\ mode.serialised => \A t, o \in Threads : t # o => AtRest(t) \/ AtRest(o)
    /\ \A t \in Threads : Doing(t)

\* A thread that writes the text, or beyond it, leaves to another what it had.
LEMMA OthersKeepDoing ==
    ASSUME CallersTakeCare, VersionInv, NEW t \in Threads, NEW o \in Threads, o # t,
           ~AtRest(t), NEW next, NEW position, Go(t, next, position),
           end'[o] = end[o], read'[o] = read[o], mode' = mode,
           ~mode.fips => \A i \in 1 .. Len(Text) : ver'[i] = ver[i] \/ ver'[i] = Text[i]
    PROVE  Doing(o)'
<1>1. pc'[o] = pc[o] /\ at'[o] = at[o] /\ Text' = Text
  BY TypesOf DEF Go, VersionInv, BufferInv, Text
<1>2. CASE AtRest(o)
  BY <1>1, <1>2 DEF Doing, AtRest, VersionInv
<1>3. CASE ~AtRest(o)
  <2>1. ~mode.serialised /\ ~mode.fips
    <3>1. mode \in Modes
      BY TypesOf DEF VersionInv, BufferInv
    <3>. QED BY <1>3, <3>1 DEF VersionInv, CallersTakeCare
  <2>2. ASSUME NEW n \in Int, n <= Len(Text), Written(n) PROVE Written(n)'
    BY <2>1, <2>2, <1>1, TextIs DEF Written, VersionInv, BufferInv
  <2>3. /\ pc[o] = "copy" => at[o] - 1 \in Int /\ at[o] - 1 <= Len(Text)
        /\ Len(Text) \in Int
    BY TypesOf, TextIs, Texts DEF VersionInv, BufferInv, Inside, Bytes
  <2>4. Doing(o)
    BY DEF VersionInv
  <2>. HIDE DEF Written
  <2>. QED BY <1>1, <1>3, <2>1, <2>2, <2>3, <2>4 DEF Doing, AtRest
<1>. QED BY <1>2, <1>3

\* A step of one thread keeps the invariant if it keeps the buffer and its own part.
LEMMA StepKeepsVersion ==
    ASSUME CallersTakeCare, VersionInv, NEW t \in Threads, ~AtRest(t),
           BufferInv', NEW next, NEW position, Go(t, next, position),
           \A o \in Threads \ {t} : end'[o] = end[o] /\ read'[o] = read[o],
           mode' = mode, Doing(t)',
           \A i \in Bytes :
              \/ ver'[i] = ver[i]
              \/ ver'[i] = NUL /\ (mode.fips \/ i > Len(Text))
              \/ i <= Len(Text) /\ ver'[i] = Text[i]
    PROVE  VersionInv'
<1>1. Text' = Text
  BY DEF Text
<1>2. \A i \in Bytes : ver'[i] = NUL \/ (i <= Len(Text)' /\ ver'[i] = Text'[i])
  BY <1>1 DEF VersionInv
<1>3. ASSUME ~mode.fips PROVE \A i \in 1 .. Len(Text) : ver'[i] = ver[i] \/ ver'[i] = Text[i]
  BY <1>3, TextIs, Texts DEF VersionInv, BufferInv, Bytes
<1>4. \A o \in Threads : Doing(o)'
  BY <1>3, OthersKeepDoing
<1>5. mode'.serialised => \A s, o \in Threads : s # o => AtRest(s)' \/ AtRest(o)'
  <2>1. \A o \in Threads \ {t} : pc'[o] = pc[o]
    BY TypesOf DEF VersionInv, BufferInv, Go
  <2>. QED BY <2>1 DEF VersionInv, AtRest
<1>. QED BY <1>2, <1>4, <1>5 DEF VersionInv

LEMMA CallKeepsVersion ==
    ASSUME VersionInv, NEW t \in Threads, Call(t), BufferInv'
    PROVE  VersionInv'
<1>1. /\ pc'[t] = "copy" /\ at'[t] = 1 /\ AtRest(t) /\ Text' = Text /\ ver' = ver
      /\ \A o \in Threads \ {t} : /\ pc'[o] = pc[o] /\ at'[o] = at[o] /\ end'[o] = end[o]
                                  /\ read'[o] = read[o]
      /\ mode' = mode
  BY TypesOf DEF VersionInv, BufferInv, Call, Go, AtRest, Text
<1>2. Doing(t)'
  BY <1>1 DEF Doing, Written
<1>3. \A o \in Threads \ {t} : Doing(o)'
  <2>. SUFFICES ASSUME NEW o \in Threads \ {t} PROVE Doing(o)'
    OBVIOUS
  <2>1. \A n \in Int : Written(n)' = Written(n)
    BY <1>1 DEF Written
  <2>2. /\ Doing(o) /\ at[o] - 1 \in Int /\ Len(VERSION) \in Int /\ Len(Text) \in Int
        /\ Len(VERSION) + at[o] - 1 \in Int
    BY TypesOf, Texts, TextIs DEF VersionInv, BufferInv, Bytes
  <2>. QED BY <1>1, <2>1, <2>2 DEF Doing
<1>4. mode'.serialised => \A s, o \in Threads : s # o => AtRest(s)' \/ AtRest(o)'
  <2>1. mode.serialised => \A o \in Threads : AtRest(o)
    BY DEF Call, AtRest
  <2>. QED BY <2>1, <1>1 DEF AtRest
<1>. QED BY <1>1, <1>2, <1>3, <1>4 DEF VersionInv

LEMMA CopyByteKeepsVersion ==
    ASSUME CallersTakeCare, VersionInv, NEW t \in Threads, CopyByte(t), BufferInv'
    PROVE  VersionInv'
<1>1. /\ pc[t] = "copy" /\ at[t] \in Bytes /\ at[t] <= Len(VERSION) /\ mode' = mode
      /\ ver' = [ ver EXCEPT ![at[t]] = VERSION[at[t]] ] /\ ver \in [ Bytes -> Chars ]
      /\ Written(at[t] - 1) /\ Text' = Text
  BY TypesOf DEF VersionInv, BufferInv, CopyByte, Doing, Text
<1>2. VERSION[at[t]] = Text[at[t]] /\ at[t] <= Len(Text)
  BY <1>1, TextIs, Texts DEF Bytes, VersionInv, BufferInv
<1>3. pc'[t] = "copy" /\ at'[t] = at[t] + 1
  BY TypesOf DEF VersionInv, BufferInv, CopyByte, Go
<1>4. \A i \in Bytes : ver'[i] = ver[i] \/ (i <= Len(Text) /\ ver'[i] = Text[i])
  BY <1>1, <1>2
<1>5. Doing(t)'
  <2>1. \A i \in 1 .. at[t] : ver'[i] = Text[i]
    BY <1>1, <1>2, Texts DEF Written, Bytes
  <2>2. at'[t] - 1 = at[t]
    BY <1>1, <1>3 DEF Bytes
  <2>3. Written(at[t] - 1)' = (\A i \in 1 .. at'[t] - 1 : ver'[i] = Text[i])
    BY <1>1 DEF Written
  <2>. QED BY <1>3, <2>1, <2>2, <2>3 DEF Doing
<1>6. ~AtRest(t) /\ Go(t, "copy", at[t] + 1) /\ UNCHANGED <<end, read>>
  BY <1>1 DEF CopyByte, AtRest
<1>. QED BY <1>1, <1>4, <1>5, <1>6, StepKeepsVersion

LEMMA CopyTerminatorKeepsVersion ==
    ASSUME CallersTakeCare, VersionInv, NEW t \in Threads, CopyTerminator(t), BufferInv'
    PROVE  VersionInv'
<1> DEFINE next == IF mode.fips THEN "measure" ELSE "read"
<1>1. /\ pc[t] = "copy" /\ at[t] \in Bytes /\ at[t] = Len(VERSION) + 1 /\ mode' = mode
      /\ ver' = [ ver EXCEPT ![at[t]] = NUL ] /\ ver \in [ Bytes -> Chars ]
      /\ Written(at[t] - 1) /\ Text' = Text /\ mode.fips \in BOOLEAN /\ read'[t] = << >>
  BY TypesOf DEF VersionInv, BufferInv, CopyTerminator, Doing, Text, Inside
<1>2. Written(Len(VERSION))' /\ ver'[Len(VERSION) + 1] = NUL
  <2>1. at[t] - 1 = Len(VERSION)
    BY <1>1, Texts
  <2>2. \A i \in 1 .. Len(VERSION) : ver'[i] = ver[i]
    BY <1>1, Texts DEF Bytes
  <2>. QED BY <1>1, <2>1, <2>2 DEF Written
<1>3. pc'[t] = next /\ at'[t] = 1
  BY TypesOf DEF VersionInv, BufferInv, CopyTerminator, Go
<1>4. \A i \in Bytes : ver'[i] = ver[i] \/ (ver'[i] = NUL /\ (mode.fips \/ i > Len(Text)))
  <2>1. mode.fips \/ at[t] > Len(Text)
    <3>1. ~mode.fips => Len(Text) = Len(VERSION)
      BY TextIs DEF VersionInv, BufferInv
    <3>. QED BY <3>1, <1>1, Texts
  <2>2. \A i \in Bytes : ver'[i] = IF i = at[t] THEN NUL ELSE ver[i]
    BY <1>1
  <2>. QED BY <2>1, <2>2
<1>5. Doing(t)'
  <2>1. CASE mode.fips
    BY <2>1, <1>1, <1>2, <1>3 DEF Doing
  <2>2. CASE ~mode.fips
    <3>1. Len(Text) = Len(VERSION) /\ Text \in Seq(Chars) /\ Len(Text) \in Nat
      BY <2>2, TextIs DEF VersionInv, BufferInv
    <3>2. SubSeq(Text, 1, 1 - 1) = << >>
      BY <3>1
    <3>3. Written(Len(Text))'
      BY <1>2, <3>1, <1>1
    <3>. QED BY <2>2, <1>1, <1>3, <3>1, <3>2, <3>3 DEF Doing
  <2>. QED BY <2>1, <2>2, <1>1
<1>6. ~AtRest(t) /\ Go(t, next, 1) /\ UNCHANGED <<end, read>>
  BY <1>1 DEF CopyTerminator, AtRest
<1>. HIDE DEF next
<1>. QED BY <1>1, <1>4, <1>5, <1>6, StepKeepsVersion

LEMMA MeasureKeepsVersion ==
    ASSUME CallersTakeCare, VersionInv, NEW t \in Threads, Measure(t), BufferInv'
    PROVE  VersionInv'
<1> DEFINE S == { i \in Bytes : ver[i] = NUL }
<1>1. /\ pc[t] = "measure" /\ mode.fips /\ Written(Len(VERSION)) /\ ver[Len(VERSION) + 1] = NUL
      /\ Text' = Text /\ ver' = ver /\ mode' = mode
  BY DEF VersionInv, Measure, Doing, Text
<1>2. \A i \in 1 .. Len(VERSION) : ver[i] # NUL
  BY <1>1, TextIs, Texts DEF VersionInv, BufferInv, Written
<1>3. Len(VERSION) + 1 \in S /\ S \in SUBSET Nat
  BY <1>1, Texts DEF Bytes
<1>4. Min(S) \in S /\ Min(S) <= Len(VERSION) + 1
  BY <1>3, LeastByte
<1>5. Terminator(ver) = Len(VERSION) + 1
  <2>1. Min(S) \in Bytes /\ ver[Min(S)] = NUL
    BY <1>4
  <2>. HIDE DEF S
  <2>2. Min(S) = Len(VERSION) + 1
    BY <2>1, <1>4, <1>2, Texts DEF Bytes
  <2>. QED BY <2>2 DEF Terminator, S
<1>6. pc'[t] = "append" /\ at'[t] = 1 /\ end'[t] = Len(VERSION) + 1
  BY <1>5, TypesOf DEF VersionInv, BufferInv, Measure, Go
<1>7. Doing(t)'
  <2>1. Written(Len(VERSION))' /\ Len(VERSION) + 1 - 1 = Len(VERSION)
    BY <1>1, Texts DEF Written
  <2>2. Written(Len(VERSION) + at[t] - 1)' = Written(Len(VERSION))'
    BY <1>6, <2>1 DEF Written
  <2>. QED BY <1>1, <1>6, <2>1, <2>2 DEF Doing
<1>8. ~AtRest(t) /\ Go(t, "append", 1) /\ UNCHANGED read
      /\ \A o \in Threads \ {t} : end'[o] = end[o]
  BY <1>1, TypesOf DEF Measure, AtRest, VersionInv, BufferInv
<1>. QED BY <1>1, <1>7, <1>8, StepKeepsVersion

LEMMA AppendByteKeepsVersion ==
    ASSUME CallersTakeCare, VersionInv, NEW t \in Threads, AppendByte(t), BufferInv'
    PROVE  VersionInv'
<1> DEFINE place == Len(VERSION) + at[t]
<1>1. /\ pc[t] = "append" /\ at[t] \in Bytes /\ at[t] <= Fitting(t) /\ Fitting(t) <= Len(Suffix)
      /\ Fitting(t) \in Nat /\ mode.fips /\ end[t] = Len(VERSION) + 1
      /\ Written(place - 1) /\ Text' = Text /\ mode' = mode /\ ver \in [ Bytes -> Chars ]
  <2>1. pc[t] = "append" /\ at[t] <= Fitting(t) /\ mode' = mode /\ Text' = Text
    BY DEF AppendByte, Text
  <2>2. mode.fips /\ end[t] = Len(VERSION) + 1 /\ Written(place - 1)
    <3>1. Doing(t)
      BY DEF VersionInv
    <3>2. mode.fips /\ end[t] = Len(VERSION) + 1 /\ Written(Len(VERSION) + at[t] - 1)
      BY <2>1, <3>1 DEF Doing
    <3>3. Len(VERSION) + at[t] - 1 = place - 1
      BY TypesOf, Texts DEF VersionInv, BufferInv, Bytes
    <3>. QED BY <3>2, <3>3
  <2>3. BufferInv /\ TypeOK
    BY DEF VersionInv, BufferInv
  <2>4. at[t] \in Bytes /\ ver \in [ Bytes -> Chars ]
    BY <2>3, TypesOf
  <2>5. Fitting(t) \in Nat /\ Fitting(t) <= Len(Suffix)
    BY <2>3, FittingFits
  <2>. HIDE DEF place
  <2>. QED BY <2>1, <2>2, <2>4, <2>5
<1>2. at[t] \in 1 .. Len(Suffix) /\ place \in Bytes /\ end[t] + at[t] - 1 = place
      /\ place \in 1 .. Len(Text) /\ Suffix[at[t]] = Text[place]
  <2>1. at[t] \in 1 .. Len(Suffix) /\ end[t] + at[t] - 1 = place
    <3>1. at[t] \in Nat \ {0} /\ at[t] <= Len(Suffix) /\ Len(Suffix) \in Nat /\ Len(VERSION) \in Nat
      <4>1. at[t] \in Nat \ {0}
        BY <1>1, Texts DEF Bytes
      <4>2. Len(Suffix) \in Nat /\ Len(VERSION) \in Nat
        BY Texts
      <4>3. \A a, b, c \in Nat : a <= b /\ b <= c => a <= c
        OBVIOUS
      <4>. QED BY <4>1, <4>2, <4>3, <1>1
    <3>2. end[t] = Len(VERSION) + 1
      BY <1>1
    <3>. QED BY <3>1, <3>2
  <2>2. /\ Len(Text) = Len(VERSION) + Len(Suffix) /\ Len(Text) < BufferSize
        /\ \A i \in 1 .. Len(Suffix) : Text[Len(VERSION) + i] = Suffix[i]
    BY <1>1, TextIs DEF VersionInv, BufferInv
  <2>. QED BY <2>1, <2>2, Texts DEF Bytes
<1>3. ver' = [ ver EXCEPT ![place] = Text[place] ]
  BY <1>2 DEF AppendByte
<1>4. pc'[t] = "append" /\ at'[t] = at[t] + 1 /\ end' = end
  BY TypesOf DEF VersionInv, BufferInv, AppendByte, Go
<1>5. Len(VERSION) + at'[t] - 1 = place
  BY <1>4, <1>1, Texts DEF Bytes
<1>6. ~AtRest(t) /\ Go(t, "append", at[t] + 1) /\ UNCHANGED <<end, read>>
  BY <1>1 DEF AppendByte, AtRest
<1>. HIDE DEF place
<1>7. Doing(t)'
  <2>1. \A i \in 1 .. place : ver'[i] = Text[i]
    <3>1. \A i \in 1 .. place - 1 : ver[i] = Text[i]
      BY <1>1 DEF Written
    <3>2. \A i \in Bytes : ver'[i] = IF i = place THEN Text[place] ELSE ver[i]
      BY <1>1, <1>2, <1>3
    <3>3. \A i \in 1 .. place : i \in Bytes /\ (i = place \/ i \in 1 .. place - 1)
      BY <1>2, Texts DEF Bytes
    <3>. QED BY <3>1, <3>2, <3>3
  <2>2. Written(Len(VERSION) + at[t] - 1)' = (\A i \in 1 .. place : ver'[i] = Text[i])
    BY <1>1, <1>5 DEF Written
  <2>. QED BY <1>1, <1>4, <2>1, <2>2 DEF Doing
<1>8. \A i \in Bytes : ver'[i] = ver[i] \/ (i <= Len(Text) /\ ver'[i] = Text[i])
  BY <1>1, <1>2, <1>3
<1>. QED BY <1>1, <1>6, <1>7, <1>8, StepKeepsVersion

LEMMA AppendTerminatorKeepsVersion ==
    ASSUME CallersTakeCare, VersionInv, NEW t \in Threads, AppendTerminator(t), BufferInv'
    PROVE  VersionInv'
<1>1. /\ pc[t] = "append" /\ at[t] = Fitting(t) + 1 /\ mode.fips
      /\ end[t] = Len(VERSION) + 1 /\ Written(Len(VERSION) + at[t] - 1)
      /\ Text' = Text /\ mode' = mode /\ ver \in [ Bytes -> Chars ] /\ read'[t] = << >>
  BY TypesOf DEF VersionInv, BufferInv, AppendTerminator, Doing, Text, Inside
<1>2. Fitting(t) = Len(Suffix) /\ at[t] = Len(Suffix) + 1
  BY <1>1, Texts DEF Fitting
<1>3. /\ Len(Text) = Len(VERSION) + Len(Suffix) /\ Len(Text) \in Nat /\ Text \in Seq(Chars)
      /\ Len(Text) < BufferSize
  BY <1>1, TextIs DEF VersionInv, BufferInv
<1>4. Len(VERSION) + at[t] - 1 = Len(Text) /\ end[t] + at[t] - 1 = Len(Text) + 1
  BY <1>1, <1>2, <1>3, Texts
<1>5. ver' = [ ver EXCEPT ![Len(Text) + 1] = NUL ] /\ Len(Text) + 1 \in Bytes
  <2>1. Len(Text) + 1 \in Bytes
    BY <1>3, Texts DEF Bytes
  <2>2. ver' = [ ver EXCEPT ![end[t] + at[t] - 1] = NUL ]
    BY DEF AppendTerminator
  <2>. QED BY <2>1, <2>2, <1>4
<1>6. Written(Len(Text))'
  <2>1. Written(Len(Text))
    BY <1>1, <1>4
  <2>. QED BY <2>1, <1>1, <1>3, <1>5, Texts DEF Written, Bytes
<1>7. pc'[t] = "read" /\ at'[t] = 1
  BY TypesOf DEF VersionInv, BufferInv, AppendTerminator, Go
<1>8. Doing(t)'
  <2>1. SubSeq(Text, 1, 1 - 1) = << >> /\ 1 <= Len(Text) + 1
    BY <1>3
  <2>. QED BY <1>1, <1>6, <1>7, <2>1 DEF Doing
<1>9. \A i \in Bytes : ver'[i] = ver[i] \/ (ver'[i] = NUL /\ mode.fips)
  BY <1>1, <1>5
<1>10. ~AtRest(t) /\ Go(t, "read", 1) /\ UNCHANGED <<end, read>>
  BY <1>1 DEF AppendTerminator, AtRest
<1>. QED BY <1>1, <1>8, <1>9, <1>10, StepKeepsVersion

LEMMA ReadByteKeepsVersion ==
    ASSUME CallersTakeCare, VersionInv, NEW t \in Threads, ReadByte(t), BufferInv'
    PROVE  VersionInv'
<1>1. /\ pc[t] = "read" /\ Written(Len(Text)) /\ at[t] <= Len(Text) + 1 /\ at[t] \in Bytes
      /\ read[t] = SubSeq(Text, 1, at[t] - 1) /\ Text' = Text
      /\ mode' = mode /\ end' = end /\ ver' = ver /\ mode.len \in Nat
  BY TypesOf DEF VersionInv, BufferInv, ReadByte, Doing, Text
<1>2. /\ Len(Text) \in Nat /\ Text \in Seq(Chars) /\ Len(Text) + 1 \in Bytes
      /\ \A i \in 1 .. Len(Text) : Text[i] # NUL
  BY TextIs, Texts DEF VersionInv, BufferInv, Bytes
<1>3. ver[Len(Text) + 1] = NUL
  BY <1>2 DEF VersionInv
<1>4. ~AtRest(t)
  BY <1>1 DEF AtRest
<1>5. CASE at[t] = Len(Text) + 1
  <2> DEFINE next == IF mode.len = 0 THEN "done" ELSE "copyOut"
  <2>1. Go(t, next, 1) /\ read' = read
    BY <1>3, <1>5 DEF ReadByte
  <2>2. pc'[t] = next
    BY <2>1, TypesOf DEF Go, VersionInv, BufferInv
  <2>3. at[t] - 1 = Len(Text)
    BY <1>5, <1>2
  <2>4. SubSeq(Text, 1, Len(Text)) = Text
    BY <1>2
  <2>5. read'[t] = Text
    BY <2>1, <2>3, <2>4, <1>1
  <2>6. Doing(t)'
    BY <1>1, <2>2, <2>5 DEF Doing
  <2>. HIDE DEF next
  <2>. QED BY <1>1, <1>4, <2>1, <2>6, StepKeepsVersion
<1>6. CASE at[t] # Len(Text) + 1
  <2>1. at[t] \in 1 .. Len(Text)
    BY <1>1, <1>2, <1>6 DEF Bytes
  <2>2. ver[at[t]] = Text[at[t]] /\ ver[at[t]] # NUL
    BY <1>1, <1>2, <2>1 DEF Written
  <2>3. /\ Go(t, "read", at[t] + 1)
        /\ read' = [ read EXCEPT ![t] = Append(read[t], Text[at[t]]) ]
    BY <2>2 DEF ReadByte
  <2>4. /\ read'[t] = Append(read[t], Text[at[t]])
        /\ \A o \in Threads \ {t} : read'[o] = read[o]
    BY <2>3 DEF VersionInv, BufferInv
  <2>5. pc'[t] = "read" /\ at'[t] = at[t] + 1 /\ at'[t] - 1 = at[t] /\ at'[t] <= Len(Text) + 1
    BY <2>3, <2>1, <1>2, TypesOf DEF Go, VersionInv, BufferInv
  <2>6. Append(SubSeq(Text, 1, at[t] - 1), Text[at[t]]) = SubSeq(Text, 1, at[t])
    BY <2>1, <1>2
  <2>7. Written(Len(Text))'
    BY <1>1 DEF Written
  <2>8. Doing(t)'
    BY <1>1, <2>4, <2>5, <2>6, <2>7 DEF Doing
  <2>. QED BY <1>1, <1>4, <2>3, <2>4, <2>8, StepKeepsVersion
<1>. QED BY <1>5, <1>6

LEMMA CopyOutKeepsVersion ==
    ASSUME CallersTakeCare, VersionInv, NEW t \in Threads, CopyOut(t), BufferInv'
    PROVE  VersionInv'
<1> DEFINE buffer == CallersBuffer(t)
           ends == { i \in DOMAIN buffer : buffer[i] = NUL }
<1>1. /\ pc[t] = "copyOut" /\ read[t] = Text /\ mode.len # 0 /\ mode.len \in Nat /\ mode \in Modes
      /\ Text' = Text /\ mode' = mode /\ end' = end /\ ver' = ver
  BY TypesOf DEF VersionInv, BufferInv, CopyOut, Doing, Text
<1>2. /\ Len(Text) \in Nat /\ Text \in Seq(Chars) /\ \A i \in 1 .. Len(Text) : Text[i] # NUL
  BY TextIs DEF VersionInv, BufferInv
<1>3. Len(Text) < mode.len
  BY <1>1 DEF CallersTakeCare, Text
<1>4. /\ DOMAIN buffer = 1 .. mode.len
      /\ \A i \in 1 .. mode.len : buffer[i] = IF i <= Len(Text) THEN Text[i] ELSE NUL
  BY <1>1 DEF CallersBuffer
<1>5. buffer \in [ 1 .. mode.len -> Chars ]
  <2>1. \A i \in 1 .. mode.len : buffer[i] \in Chars
    BY <1>2, <1>4, Texts
  <2>. QED BY <2>1 DEF CallersBuffer
<1>. HIDE DEF buffer
<1>6. ends # { } /\ Min(ends) = Len(Text) + 1
  <2>1. Len(Text) + 1 \in ends /\ ends \in SUBSET Nat
    BY <1>2, <1>3, <1>4, <1>1
  <2>2. Min(ends) \in ends /\ Min(ends) <= Len(Text) + 1
    BY <2>1, LeastByte
  <2>3. Min(ends) \in 1 .. mode.len /\ buffer[Min(ends)] = NUL
    BY <2>2, <1>4
  <2>. HIDE DEF ends
  <2>. QED BY <2>1, <2>2, <2>3, <1>2, <1>4
<1>7. SubSeq(buffer, 1, Len(Text)) = Text
  <2>1. \A n \in Nat : \A f \in [ 1 .. n -> Chars ] : f \in Seq(Chars) /\ Len(f) = n
    OBVIOUS
  <2>2. buffer \in Seq(Chars) /\ Len(buffer) = mode.len
    BY <2>1, <1>1, <1>5
  <2>. QED BY <2>2, <1>2, <1>3, <1>4
<1>8. read' = [ read EXCEPT ![t] = Text ] /\ Go(t, "done", 1)
  <2>1. Min(ends) - 1 = Len(Text)
    BY <1>6, <1>2
  <2>. QED BY <2>1, <1>6, <1>7 DEF CopyOut, buffer
<1>9. read'[t] = Text /\ \A o \in Threads \ {t} : read'[o] = read[o]
  BY <1>8 DEF VersionInv, BufferInv
<1>10. pc'[t] = "done" /\ ~AtRest(t)
  BY <1>1, <1>8, TypesOf DEF Go, VersionInv, BufferInv, AtRest
<1>11. Doing(t)'
  BY <1>1, <1>9, <1>10 DEF Doing
<1>. QED BY <1>1, <1>8, <1>9, <1>10, <1>11, StepKeepsVersion

LEMMA VersionInvStep == CallersTakeCare /\ VersionInv /\ [Next]_vars => VersionInv'
<1>. SUFFICES ASSUME CallersTakeCare, VersionInv, [Next]_vars PROVE VersionInv'
  OBVIOUS
<1>1. BufferInv'
  BY BufferInvStep DEF VersionInv
<1>2. CASE UNCHANGED vars
  BY <1>1, <1>2 DEF vars, VersionInv, Doing, Written, Text, AtRest
<1>3. CASE Next
  BY <1>1, <1>3, CallKeepsVersion, CopyByteKeepsVersion, CopyTerminatorKeepsVersion,
     MeasureKeepsVersion, AppendByteKeepsVersion, AppendTerminatorKeepsVersion,
     ReadByteKeepsVersion, CopyOutKeepsVersion DEF Next
<1>. QED BY <1>2, <1>3

\* A caller reads the whole version and no more (QuoteVerification.cpp:66-75), for every
\* number of threads that call as often as they like, every version, suffix and size of the
\* buffer: without a FIPS provider whoever calls meanwhile, with one if the callers lock.
THEOREM VersionIntactHolds == CallersTakeCare => (Spec => []VersionIntact)
<1>. SUFFICES ASSUME CallersTakeCare PROVE Spec => []VersionIntact
  OBVIOUS
<1>1. Init => VersionInv
  <2>. SUFFICES ASSUME Init PROVE VersionInv
    OBVIOUS
  <2>. QED BY BufferInvStart DEF Init, VersionInv, Doing, AtRest
<1>2. VersionInv => VersionIntact
  BY DEF VersionInv, VersionIntact, Doing, Text, VersionText
<1>. QED BY <1>1, <1>2, VersionInvStep, PTL DEF Spec

(***************************************************************************)
(* Optional values.                                                        *)
(***************************************************************************)

HasItsValue(o) ==
    /\ object[o] = Holding(object[o].internalValue)
    /\ \/ /\ object[o].internalValue = nullptr /\ object[o].hasValue = FALSE
          /\ meant[o] = { }
       \/ /\ object[o].internalValue # nullptr /\ object[o].hasValue = TRUE
          /\ object[o].internalValue \in DOMAIN heap
          /\ meant[o] = { heap[object[o].internalValue] }

\* The inductive invariant: each object holds a cell of its own or none, and in the cell is
\* what the object was last given.
OptionalInv ==
    /\ DOMAIN meant = Constructed /\ nullptr \notin DOMAIN heap
    /\ \A o \in Constructed : HasItsValue(o)
    /\ \A o, p \in Constructed :
         o # p /\ object[o].internalValue # nullptr =>
             object[o].internalValue # object[p].internalValue
    /\ \A cell \in DOMAIN heap : \E o \in Constructed : object[o].internalValue = cell

LEMMA HoldingIs ==
    ASSUME NEW cell
    PROVE  Holding(cell).internalValue = cell /\ Holding(cell).hasValue = (cell # nullptr)
  BY DEF Holding

LEMMA EmptyStaysEmpty ==
    ASSUME NEW r \in [ internalValue : { nullptr }, hasValue : { FALSE } ]
    PROVE  [ r EXCEPT !.hasValue = FALSE ] = r
  OBVIOUS

\* An object constructed or assigned with a cell that was free, once its own is deleted.
LEMMA AllocateKeeps ==
    ASSUME OptionalInv, NEW o, NEW value, NEW oldHeap, Allocate(o, oldHeap, value),
           o \in Constructed =>
               /\ DOMAIN oldHeap = DOMAIN heap \ { object[o].internalValue }
               /\ \A cell \in DOMAIN oldHeap : oldHeap[cell] = heap[cell],
           o \notin Constructed => oldHeap = heap,
           meant' = Update(meant, o, { value })
    PROVE  OptionalInv'
<1>1. PICK cell \in OptionalCells \ DOMAIN oldHeap :
        heap' = Update(oldHeap, cell, value) /\ object' = Update(object, o, Holding(cell))
  BY DEF Allocate
<1>2. cell # nullptr /\ cell \notin DOMAIN oldHeap
  BY OptionalAssumption DEF nullptr
<1>3. /\ DOMAIN object' = Constructed \union { o }
      /\ object'[o] = Holding(cell)
      /\ object'[o].internalValue = cell /\ object'[o].hasValue = (cell # nullptr)
      /\ \A p \in Constructed \ { o } : object'[p] = object[p]
  BY <1>1, HoldingIs DEF Constructed, Update
<1>4. /\ DOMAIN heap' = DOMAIN oldHeap \union { cell } /\ heap'[cell] = value
      /\ \A c \in DOMAIN oldHeap : heap'[c] = oldHeap[c]
  BY <1>1, <1>2 DEF Update
<1>5. /\ DOMAIN meant' = DOMAIN meant \union { o } /\ meant'[o] = { value }
      /\ \A p \in DOMAIN meant \ { o } : meant'[p] = meant[p]
  BY DEF Update
<1>6. \A p \in Constructed \ { o } : object[p].internalValue # nullptr =>
         /\ object[p].internalValue \in DOMAIN oldHeap
         /\ oldHeap[object[p].internalValue] = heap[object[p].internalValue]
  BY DEF OptionalInv, HasItsValue
<1>7. /\ DOMAIN oldHeap \subseteq DOMAIN heap
      /\ \A c \in DOMAIN oldHeap : \E p \in Constructed \ { o } : object[p].internalValue = c
  BY DEF OptionalInv
<1>8. Constructed' = Constructed \union { o } /\ nullptr' = nullptr
  BY <1>3 DEF Constructed, nullptr
<1>9. DOMAIN meant' = Constructed' /\ nullptr \notin DOMAIN heap'
  BY <1>2, <1>4, <1>5, <1>7, <1>8 DEF OptionalInv
<1>10. \A p \in Constructed' : HasItsValue(p)'
  <2>1. HasItsValue(o)'
    BY <1>2, <1>3, <1>4, <1>5 DEF HasItsValue, nullptr
  <2>2. ASSUME NEW p \in Constructed \ { o } PROVE HasItsValue(p)'
    <3>1. HasItsValue(p) /\ p \in DOMAIN meant
      BY <2>2 DEF OptionalInv
    <3>2. object'[p] = object[p] /\ meant'[p] = meant[p]
      BY <1>3, <1>5, <3>1
    <3>3. CASE object[p].internalValue = nullptr
      BY <3>1, <3>2, <3>3 DEF HasItsValue, nullptr
    <3>4. CASE object[p].internalValue # nullptr
      <4>1. /\ object[p].internalValue \in DOMAIN heap'
            /\ heap'[object[p].internalValue] = heap[object[p].internalValue]
        BY <1>4, <1>6, <3>4
      <4>. QED BY <3>1, <3>2, <3>4, <4>1 DEF HasItsValue, nullptr
    <3>. QED BY <3>3, <3>4
  <2>. QED BY <2>1, <2>2, <1>8
<1>11. \A p, q \in Constructed' :
         p # q /\ object'[p].internalValue # nullptr =>
             object'[p].internalValue # object'[q].internalValue
  BY <1>2, <1>3, <1>6, <1>8 DEF OptionalInv
<1>12. \A c \in DOMAIN heap' : \E p \in Constructed' : object'[p].internalValue = c
  BY <1>3, <1>4, <1>7, <1>8
<1>. QED BY <1>8, <1>9, <1>10, <1>11, <1>12 DEF OptionalInv

\* Another object is left without a cell.
LEMMA ConstructKeeps ==
    ASSUME OptionalInv, NEW o, o \notin Constructed,
           object' = Update(object, o, Holding(nullptr)), meant' = Update(meant, o, { }),
           UNCHANGED heap
    PROVE  OptionalInv'
<1>1. /\ Constructed' = Constructed \union { o }
      /\ object'[o] = Holding(nullptr)
      /\ object'[o].internalValue = nullptr /\ object'[o].hasValue = FALSE
      /\ \A p \in Constructed : object'[p] = object[p]
  BY HoldingIs DEF Constructed, Update
<1>2. /\ DOMAIN meant' = DOMAIN meant \union { o } /\ meant'[o] = { }
      /\ \A p \in DOMAIN meant \ { o } : meant'[p] = meant[p]
  BY DEF Update
<1>. QED BY <1>1, <1>2 DEF OptionalInv, HasItsValue, nullptr

\* A cell changes hands, to an object that is new or whose own is deleted.
LEMMA MoveKeeps ==
    ASSUME OptionalInv, NEW o, NEW other \in Constructed, o # other,
           Constructed' = Constructed \union { o }, DOMAIN meant' = Constructed',
           object'[o] = object[other], object'[other] = Holding(nullptr),
           \A p \in Constructed \ { o, other } : object'[p] = object[p] /\ meant'[p] = meant[p],
           meant'[o] = meant[other], meant'[other] = { },
           o \in Constructed => heap' = Deleted(object[o].internalValue),
           o \notin Constructed => heap' = heap
    PROVE  OptionalInv'
<1>1. object'[other].internalValue = nullptr /\ object'[other].hasValue = FALSE
  BY HoldingIs
<1>2. \A p \in Constructed \ { o } : object[p].internalValue # nullptr =>
         /\ object[p].internalValue \in DOMAIN heap'
         /\ heap'[object[p].internalValue] = heap[object[p].internalValue]
  BY DEF OptionalInv, HasItsValue, Deleted
<1>3. /\ DOMAIN heap' \subseteq DOMAIN heap
      /\ \A c \in DOMAIN heap' : \E p \in Constructed \ { o } : object[p].internalValue = c
  BY DEF OptionalInv, Deleted
<1>4. \A p \in Constructed' : HasItsValue(p)'
  <2>1. HasItsValue(other)'
    BY <1>1 DEF HasItsValue, nullptr
  <2>2. ASSUME NEW p \in Constructed \ { o }, NEW q, object'[q] = object[p], meant'[q] = meant[p]
        PROVE  HasItsValue(q)'
    <3>1. HasItsValue(p)
      BY DEF OptionalInv
    <3>2. CASE object[p].internalValue = nullptr
      BY <2>2, <3>1, <3>2 DEF HasItsValue, nullptr
    <3>3. CASE object[p].internalValue # nullptr
      <4>1. /\ object[p].internalValue \in DOMAIN heap'
            /\ heap'[object[p].internalValue] = heap[object[p].internalValue]
        BY <1>2, <3>3
      <4>. QED BY <2>2, <3>1, <3>3, <4>1 DEF HasItsValue, nullptr
    <3>. QED BY <3>2, <3>3
  <2>3. HasItsValue(o)'
    BY <2>2
  <2>4. \A p \in Constructed \ { o, other } : HasItsValue(p)'
    BY <2>2
  <2>. QED BY <2>1, <2>3, <2>4
<1>5. \A p, q \in Constructed' :
         p # q /\ object'[p].internalValue # nullptr =>
             object'[p].internalValue # object'[q].internalValue
  BY <1>1 DEF OptionalInv
<1>6. \A c \in DOMAIN heap' : \E p \in Constructed' : object'[p].internalValue = c
  <2>. SUFFICES ASSUME NEW c \in DOMAIN heap'
                PROVE  \E p \in Constructed' : object'[p].internalValue = c
    OBVIOUS
  <2>1. PICK p \in Constructed \ { o } : object[p].internalValue = c
    BY <1>3
  <2>. QED BY <2>1
<1>. QED BY <1>3, <1>4, <1>5, <1>6 DEF OptionalInv, nullptr

LEMMA OptionalInvStep == ~CopiesEmpty /\ OptionalInv /\ [OptionalNext]_optionalVars => OptionalInv'
<1>. SUFFICES ASSUME ~CopiesEmpty, OptionalInv, [OptionalNext]_optionalVars PROVE OptionalInv'
  OBVIOUS
<1>1. CASE UNCHANGED optionalVars
  BY <1>1 DEF optionalVars, OptionalInv, HasItsValue, Constructed, nullptr
<1>2. ASSUME NEW o, Construct(o) PROVE OptionalInv'
  BY <1>2, ConstructKeeps DEF Construct
<1>3. ASSUME NEW o, NEW value, ConstructFrom(o, value) PROVE OptionalInv'
  BY <1>3, AllocateKeeps DEF ConstructFrom
<1>4. ASSUME NEW o, Destroy(o) PROVE OptionalInv'
  <2>1. /\ Constructed' = Constructed \ { o } /\ DOMAIN meant' = Constructed \ { o }
        /\ \A p \in Constructed \ { o } : object'[p] = object[p] /\ meant'[p] = meant[p]
    BY <1>4 DEF Destroy, Constructed
  <2>2. /\ DOMAIN heap' = DOMAIN heap \ { object[o].internalValue }
        /\ \A c \in DOMAIN heap' : heap'[c] = heap[c]
    BY <1>4 DEF Destroy, Deleted
  <2>3. \A c \in DOMAIN heap' : \E p \in Constructed \ { o } : object[p].internalValue = c
    BY <2>2 DEF OptionalInv
  <2>4. o \in Constructed
    BY <1>4 DEF Destroy
  <2>. QED BY <2>1, <2>2, <2>3, <2>4 DEF OptionalInv, HasItsValue, nullptr
<1>5. ASSUME NEW o, NEW other, CopyConstruct(o, other) PROVE OptionalInv'
  <2>1. o \notin Constructed /\ other \in Constructed
    BY <1>5 DEF CopyConstruct
  <2>2. CASE object[other].hasValue
    <3>1. meant[other] = { heap[object[other].internalValue] }
      BY <2>1, <2>2 DEF OptionalInv, HasItsValue
    <3>. QED BY <1>5, <2>1, <2>2, <3>1, AllocateKeeps DEF CopyConstruct
  <2>3. CASE ~object[other].hasValue
    <3>1. meant[other] = { }
      BY <2>1, <2>3 DEF OptionalInv, HasItsValue
    <3>. QED BY <1>5, <2>1, <2>3, <3>1, ConstructKeeps DEF CopyConstruct
  <2>. QED BY <2>2, <2>3
<1>6. ASSUME NEW o, NEW other, o # other, MoveConstruct(o, other) PROVE OptionalInv'
  <2>1. o \notin Constructed /\ other \in Constructed /\ heap' = heap
    BY <1>6 DEF MoveConstruct
  <2> DEFINE first == Update(object, o, object[other])
             given == Update(meant, o, meant[other])
  <2>2. object' = Update(first, other, Holding(nullptr)) /\ meant' = Update(given, other, { })
    BY <1>6 DEF MoveConstruct
  <2>3. /\ DOMAIN first = Constructed \union { o } /\ first[o] = object[other]
        /\ \A p \in Constructed \ { o } : first[p] = object[p]
    BY DEF Constructed, Update
  <2>4. /\ DOMAIN given = DOMAIN meant \union { o } /\ given[o] = meant[other]
        /\ \A p \in DOMAIN meant \ { o } : given[p] = meant[p]
    BY DEF Update
  <2>. HIDE DEF first, given
  <2>5. /\ DOMAIN object' = DOMAIN first \union { other } /\ object'[other] = Holding(nullptr)
        /\ \A p \in DOMAIN first \ { other } : object'[p] = first[p]
    BY <2>2 DEF Update
  <2>6. /\ DOMAIN meant' = DOMAIN given \union { other } /\ meant'[other] = { }
        /\ \A p \in DOMAIN given \ { other } : meant'[p] = given[p]
    BY <2>2 DEF Update
  <2>7. DOMAIN meant = Constructed /\ Constructed' = DOMAIN object'
    BY DEF OptionalInv, Constructed
  <2>8. Constructed' = Constructed \union { o } /\ DOMAIN meant' = Constructed'
    BY <2>1, <2>3, <2>4, <2>5, <2>6, <2>7
  <2>9. /\ object'[o] = object[other] /\ meant'[o] = meant[other]
        /\ \A p \in Constructed \ { o, other } : object'[p] = object[p] /\ meant'[p] = meant[p]
    BY <1>6, <2>1, <2>3, <2>4, <2>5, <2>6, <2>7
  <2>. QED BY <1>6, <2>1, <2>5, <2>6, <2>8, <2>9, MoveKeeps
<1>7. ASSUME NEW o, NEW other, CopyAssign(o, other) PROVE OptionalInv'
  <2>1. o \in Constructed /\ other \in Constructed \ { o }
    BY <1>7 DEF CopyAssign
  <2>2. CASE object[other].hasValue
    <3>1. meant[other] = { heap[object[other].internalValue] }
      BY <2>1, <2>2 DEF OptionalInv, HasItsValue
    <3>2. /\ DOMAIN Deleted(object[o].internalValue) = DOMAIN heap \ { object[o].internalValue }
          /\ \A c \in DOMAIN heap \ { object[o].internalValue } :
                Deleted(object[o].internalValue)[c] = heap[c]
      BY DEF Deleted
    <3>. QED BY <1>7, <2>1, <2>2, <3>1, <3>2, AllocateKeeps DEF CopyAssign
  <2>3. CASE ~object[other].hasValue
    <3>1. meant[other] = { } /\ ~object[o].hasValue /\ object[o].internalValue = nullptr
      BY <1>7, <2>1, <2>3 DEF OptionalInv, HasItsValue, CopyAssign
    <3>2. /\ object' = [ object EXCEPT ![o].hasValue = FALSE ] /\ heap' = Deleted(nullptr)
          /\ meant' = Update(meant, o, { })
      BY <1>7, <2>3, <3>1 DEF CopyAssign
    <3>3. /\ DOMAIN heap' = DOMAIN heap /\ \A c \in DOMAIN heap : heap'[c] = heap[c]
      BY <3>2 DEF Deleted, OptionalInv
    <3>4. /\ DOMAIN meant' = DOMAIN meant \union { o } /\ meant'[o] = { }
          /\ \A p \in DOMAIN meant \ { o } : meant'[p] = meant[p]
      BY <3>2 DEF Update
    <3>5. object[o] = [ internalValue |-> nullptr, hasValue |-> FALSE ]
      BY <2>1, <3>1 DEF OptionalInv, HasItsValue, Holding
    <3>6. object'[o] = object[o] /\ \A p \in Constructed \ { o } : object'[p] = object[p]
      <4>1. [ object[o] EXCEPT !.hasValue = FALSE ] = object[o]
        <5>1. \A r : r = [ internalValue |-> nullptr, hasValue |-> FALSE ]
                       => r \in [ internalValue : { nullptr }, hasValue : { FALSE } ]
          OBVIOUS
        <5>. QED BY <5>1, <3>5, EmptyStaysEmpty
      <4>2. object' = [ object EXCEPT ![o] = [ object[o] EXCEPT !.hasValue = FALSE ] ]
        BY <3>2
      <4>. QED BY <4>1, <4>2, <2>1 DEF Constructed
    <3>7. /\ Constructed' = Constructed
          /\ \A p \in Constructed : object'[p] = object[p]
      BY <3>2, <3>6 DEF Constructed
    <3>. QED BY <2>1, <3>1, <3>3, <3>4, <3>7 DEF OptionalInv, HasItsValue, nullptr
  <2>. QED BY <2>2, <2>3
<1>8. ASSUME NEW o, NEW other, MoveAssign(o, other) PROVE OptionalInv'
  <2>1. o \in Constructed /\ other \in Constructed \ { o }
    BY <1>8 DEF MoveAssign
  <2>2. /\ Constructed' = Constructed /\ object'[o] = object[other]
        /\ object'[other] = Holding(nullptr)
        /\ \A p \in Constructed \ { o, other } : object'[p] = object[p]
    BY <1>8, <2>1 DEF MoveAssign, Constructed
  <2> DEFINE given == Update(meant, o, meant[other])
  <2>3. meant' = Update(given, other, { }) /\ heap' = Deleted(object[o].internalValue)
    BY <1>8 DEF MoveAssign
  <2>4. /\ DOMAIN given = DOMAIN meant \union { o } /\ given[o] = meant[other]
        /\ \A p \in DOMAIN meant \ { o } : given[p] = meant[p]
    BY DEF Update
  <2>. HIDE DEF given
  <2>5. /\ DOMAIN meant' = DOMAIN given \union { other } /\ meant'[other] = { }
        /\ \A p \in DOMAIN given \ { other } : meant'[p] = given[p]
    BY <2>3 DEF Update
  <2>6. DOMAIN meant = Constructed
    BY DEF OptionalInv
  <2>7. /\ DOMAIN meant' = Constructed' /\ meant'[o] = meant[other]
        /\ \A p \in Constructed \ { o, other } : meant'[p] = meant[p]
    BY <2>1, <2>2, <2>4, <2>5, <2>6
  <2>8. Constructed' = Constructed \union { o } /\ o # other /\ other \in Constructed
    BY <2>1, <2>2
  <2>. QED BY <2>1, <2>2, <2>3, <2>5, <2>7, <2>8, MoveKeeps
<1>. QED BY <1>1, <1>2, <1>3, <1>4, <1>5, <1>6, <1>7, <1>8 DEF OptionalNext

LEMMA OptionalInvImplies == OptionalInv => OptionalsKeepTheirValues
<1>. SUFFICES ASSUME OptionalInv PROVE OptionalsKeepTheirValues
  OBVIOUS
<1>1. \A o \in Constructed : HasItsValue(o)
  BY DEF OptionalInv
<1>2. Owned = DOMAIN heap
  <2>1. \A c \in Owned : c \in DOMAIN heap
    BY <1>1 DEF Owned, HasItsValue
  <2>2. \A c \in DOMAIN heap : c \in Owned
    BY DEF Owned, OptionalInv
  <2>. QED BY <2>1, <2>2
<1>3. \A o, other \in Constructed : Equal(o, other) = (meant[o] = meant[other])
  <2>. SUFFICES ASSUME NEW o \in Constructed, NEW other \in Constructed
       PROVE  Equal(o, other) = (meant[o] = meant[other])
    OBVIOUS
  <2>1. \/ object[o].hasValue = FALSE /\ meant[o] = { }
        \/ object[o].hasValue = TRUE /\ meant[o] = { heap[object[o].internalValue] }
    BY <1>1 DEF HasItsValue
  <2>2. \/ object[other].hasValue = FALSE /\ meant[other] = { }
        \/ object[other].hasValue = TRUE /\ meant[other] = { heap[object[other].internalValue] }
    BY <1>1 DEF HasItsValue
  <2>. QED BY <2>1, <2>2 DEF Equal
<1>4. \A o \in Constructed :
         /\ valueOf(o) = meant[o]
         /\ { heap[cell] : cell \in Pointee(o) } = meant[o]
         /\ has_value(o) = (meant[o] # { })
         /\ \A value \in OptionalValues : EqualToValue(o, value) = (value \in meant[o])
  <2>. SUFFICES ASSUME NEW o \in Constructed
       PROVE  /\ valueOf(o) = meant[o]
              /\ { heap[cell] : cell \in Pointee(o) } = meant[o]
              /\ has_value(o) = (meant[o] # { })
              /\ \A value \in OptionalValues : EqualToValue(o, value) = (value \in meant[o])
    OBVIOUS
  <2>1. HasItsValue(o)
    BY <1>1
  <2>2. CASE object[o].internalValue = nullptr
    <3>1. object[o].hasValue = FALSE /\ meant[o] = { }
      BY <2>1, <2>2 DEF HasItsValue
    <3>2. valueOf(o) = meant[o] /\ has_value(o) = (meant[o] # { })
      BY <3>1 DEF valueOf, has_value
    <3>3. Pointee(o) = { }
      BY <3>1 DEF Pointee
    <3>4. { heap[cell] : cell \in Pointee(o) } = meant[o]
      BY <3>1, <3>3
    <3>5. \A value \in OptionalValues : EqualToValue(o, value) = (value \in meant[o])
      BY <3>1 DEF EqualToValue
    <3>. QED BY <3>2, <3>4, <3>5
  <2>3. CASE object[o].internalValue # nullptr
    <3>1. object[o].hasValue = TRUE /\ meant[o] = { heap[object[o].internalValue] }
      BY <2>1, <2>3 DEF HasItsValue
    <3>2. valueOf(o) = meant[o] /\ has_value(o) = (meant[o] # { })
      BY <3>1 DEF valueOf, has_value
    <3>3. Pointee(o) = { object[o].internalValue }
      BY <3>1 DEF Pointee
    <3>4. { heap[cell] : cell \in Pointee(o) } = meant[o]
      BY <3>1, <3>3
    <3>5. \A value \in OptionalValues : EqualToValue(o, value) = (value \in meant[o])
      BY <3>1 DEF EqualToValue
    <3>. QED BY <3>2, <3>4, <3>5
  <2>. QED BY <2>2, <2>3
<1>. QED BY <1>2, <1>3, <1>4 DEF OptionalsKeepTheirValues, OptionalInv

\* After any number of constructions, copies, moves and destructions, of any number of
\* objects, no cell is leaked or deleted twice and each object has the value that it was
\* last given (Optional.h:46-166), unless an empty object is copied over one with a value.
THEOREM OptionalsKeepTheirValuesHolds ==
    ~CopiesEmpty => (OptionalSpec => []OptionalsKeepTheirValues)
<1>. SUFFICES ASSUME ~CopiesEmpty PROVE OptionalSpec => []OptionalsKeepTheirValues
  OBVIOUS
<1>1. OptionalInit => OptionalInv
  BY DEF OptionalInit, OptionalInv, Constructed
<1>. QED BY <1>1, OptionalInvStep, OptionalInvImplies, PTL DEF OptionalSpec
(***************************************************************************)
(* The names under which statuses are printed.                             *)
(***************************************************************************)
\* The tables have the names of the enumeration, in its order.
LEMMA TablesAreTheEnumeration == appStatusStrs = Status /\ libraryStatusStrs = Status
  BY DEF appStatusStrs, libraryStatusStrs, Status

LEMMA NamesAreApart ==
    /\ Len(Status) = 89
    /\ \A i, j \in 1 .. Len(Status) : Status[i] = Status[j] => i = j
  BY DEF Status

\* MAX_STATUS is the last of the enumeration.
LEMMA LastStatus == MAX_STATUS = Len(Status) - 1
<1> DEFINE name == "TCB_TD_RELAUNCH_ADVISED_CONFIGURATION_NEEDED"
<1>1. Status[Len(Status)] = name
  BY DEF Status
<1>. HIDE DEF name
<1>2. \A value \in 0 .. Len(Status) - 1 : Status[value + 1] = name => value = Len(Status) - 1
  BY <1>1, NamesAreApart
<1>3. Len(Status) - 1 \in 0 .. Len(Status) - 1 /\ Status[(Len(Status) - 1) + 1] = name
  BY <1>1, NamesAreApart
<1>4. ValueOfStatus(name) = Len(Status) - 1
  BY <1>2, <1>3 DEF ValueOfStatus
<1>. QED BY <1>4 DEF MAX_STATUS, name

\* One printer and its table: its own name for every status, and no number without one.
LEMMA PrintedByName ==
    ASSUME NEW value \in Nat
    PROVE  printStatus(Status, value) =
               << IF value < Len(Status) THEN Status[value + 1] ELSE "Unknown status", value >>
<1>1. value > MAX_STATUS <=> ~(value < Len(Status))
  BY LastStatus, NamesAreApart
<1>. QED BY <1>1 DEF printStatus, printStatusOnly, StringAt

PrinterInv ==
    /\ statusValue \in Nat
    /\ statusTexts \in { << >>, << printStatus(Status, statusValue),
                                  printStatus(Status, statusValue) >> }

LEMMA PrinterInvStart == StatusInit => PrinterInv
  BY StatusAssumption DEF StatusInit, PrinterInv

LEMMA PrinterInvStep == PrinterInv /\ [PrintAStatus]_statusVars => PrinterInv'
<1>1. ASSUME PrinterInv, UNCHANGED statusVars PROVE PrinterInv'
  BY <1>1 DEF PrinterInv, statusVars
<1>2. ASSUME PrinterInv, PrintAStatus PROVE PrinterInv'
  BY <1>2, TablesAreTheEnumeration DEF PrinterInv, PrintAStatus
<1>. QED BY <1>1, <1>2

\* Whatever number is printed, the application and the library print the name the
\* enumeration gives it, and that of no other status (NamesAreApart); the two tables of
\* strings (StatusPrinter.cpp:41, :49) have none too many, too few or out of place.
THEOREM StatusesArePrintedByNameHolds == StatusSpec => []StatusesArePrintedByName
<1>1. PrinterInv => StatusesArePrintedByName
  <2>. SUFFICES ASSUME PrinterInv, statusTexts # << >>, NEW i \in DOMAIN statusTexts
                PROVE  statusTexts[i] = << IF statusValue < Len(Status)
                                           THEN Status[statusValue + 1]
                                           ELSE "Unknown status", statusValue >>
    BY DEF StatusesArePrintedByName
  <2>1. statusTexts[i] = printStatus(Status, statusValue)
    BY DEF PrinterInv
  <2>. QED BY <2>1, PrintedByName DEF PrinterInv
<1>. QED BY <1>1, PrinterInvStart, PrinterInvStep, PTL DEF StatusSpec

(***************************************************************************)
(* The digits of integers.                                                 *)
(***************************************************************************)
LEMMA LeastNumber ==
    ASSUME NEW S \in SUBSET Nat, S # {}
    PROVE  \E i \in S : \A j \in S : i <= j
<1> DEFINE R == { pair \in Nat \X Nat : pair[1] < pair[2] }
<1>1. IsWellFoundedOn(R, Nat)
  BY NatLessThanWellFounded DEF OpToRel
<1>2. \A x, e \in Nat : << x, e >> \in R <=> x < e
  OBVIOUS
<1>. HIDE DEF R
<1>3. PICK x \in S : \A e \in S : << e, x >> \notin R
  BY <1>1, WFMin
<1>4. \A e \in S : ~(e < x)
  BY <1>2, <1>3
<1>. QED BY <1>4

\* A set of numbers is all of 0 .. n if it has the first and, with each, the next.
LEMMA FromZero ==
    ASSUME NEW n \in Nat, NEW S, 0 \in S, \A k \in 0 .. (n - 1) : k \in S => k + 1 \in S
    PROVE  0 .. n \subseteq S
<1> DEFINE T == { k \in 0 .. n : k \notin S }
<1>1. CASE T = {}
  BY <1>1
<1>2. CASE T # {}
  <2>1. T \in SUBSET Nat
    OBVIOUS
  <2>2. PICK i \in T : \A j \in T : i <= j
    BY <1>2, <2>1, LeastNumber
  <2>3. i \in 0 .. n /\ i # 0 /\ i - 1 \in 0 .. (n - 1) /\ (i - 1) + 1 = i
    BY <2>2
  <2>4. i - 1 \notin T
    BY <2>2, <2>3
  <2>5. i - 1 \in S
    BY <2>3, <2>4
  <2>6. i \in S
    BY <2>3, <2>5
  <2>. QED BY <2>2, <2>6
<1>. QED BY <1>1, <1>2

(***************************************************************************)
(* Powers of ten.                                                          *)
(***************************************************************************)
\* f has the powers below the n-th.
PowersBelow(f, n) ==
    f \in [ 0 .. n -> Nat \ {0} ] /\ f[0] = 1 /\ \A k \in 1 .. n : f[k] = BASE * f[k - 1]

LEMMA PowersExist == \E f : PowersBelow(f, MAX_DIGITS)
<1> DEFINE S == { n \in Nat : \E f : PowersBelow(f, n) }
<1>0. BASE \in Nat \ {0, 1}
  BY JsonNumbersAssumption
<1>1. 0 \in S
  <2>1. PowersBelow([ k \in 0 .. 0 |-> 1 ], 0)
    BY DEF PowersBelow
  <2>. QED BY <2>1
<1>2. ASSUME NEW n \in Nat, n \in S PROVE n + 1 \in S
  <2>1. PICK f : PowersBelow(f, n)
    BY <1>2
  <2> DEFINE p == BASE * f[n]
             g == [ k \in 0 .. (n + 1) |-> IF k = n + 1 THEN p ELSE f[k] ]
  <2>2. f \in [ 0 .. n -> Nat \ {0} ] /\ f[0] = 1 /\ \A k \in 1 .. n : f[k] = BASE * f[k - 1]
    BY <2>1 DEF PowersBelow
  <2>3. p \in Nat \ {0}
    BY <1>0, <2>2
  <2>4. g \in [ 0 .. (n + 1) -> Nat \ {0} ] /\ g[0] = 1 /\ g[n + 1] = p
    <3>. HIDE DEF p
    <3>. QED BY <2>2, <2>3
  <2>5. \A k \in 1 .. (n + 1) : g[k] = BASE * g[k - 1]
    <3>. SUFFICES ASSUME NEW k \in 1 .. (n + 1) PROVE g[k] = BASE * g[k - 1]
      OBVIOUS
    <3>1. CASE k = n + 1
      <4>1. g[k - 1] = f[n] /\ g[k] = p
        BY <3>1
      <4>. QED BY <4>1
    <3>2. CASE k # n + 1
      <4>1. k \in 1 .. n /\ g[k] = f[k] /\ g[k - 1] = f[k - 1]
        BY <3>2
      <4>. HIDE DEF g
      <4>. QED BY <2>2, <4>1
    <3>. QED BY <3>1, <3>2
  <2>6. PowersBelow(g, n + 1)
    BY <2>4, <2>5 DEF PowersBelow
  <2>. QED BY <2>6
<1>3. MAX_DIGITS \in S
  <2>1. 0 .. MAX_DIGITS \subseteq S
    <3>1. \A k \in 0 .. (MAX_DIGITS - 1) : k \in S => k + 1 \in S
      BY <1>2
    <3>. HIDE DEF S
    <3>. QED BY <1>1, <3>1, FromZero DEF MAX_DIGITS
  <2>. HIDE DEF S
  <2>. QED BY <2>1 DEF MAX_DIGITS
<1>. QED BY <1>3

LEMMA TenToIs == PowersBelow(TenTo, MAX_DIGITS)
<1>1. PICK f : PowersBelow(f, MAX_DIGITS)
  BY PowersExist
<1> DEFINE Turn(h) == [ k \in 0 .. MAX_DIGITS |-> IF k = 0 THEN 1 ELSE BASE * h[k - 1] ]
<1>2. f \in [ 0 .. MAX_DIGITS -> Nat \ {0} ] /\ f[0] = 1 /\ \A k \in 1 .. MAX_DIGITS : f[k] = BASE * f[k - 1]
  BY <1>1 DEF PowersBelow
<1>3. f = Turn(f)
  <2>1. \A k \in 0 .. MAX_DIGITS : f[k] = (IF k = 0 THEN 1 ELSE BASE * f[k - 1])
    BY <1>2 DEF MAX_DIGITS
  <2>2. f = [ k \in 0 .. MAX_DIGITS |-> f[k] ]
    BY <1>2
  <2>. QED BY <2>1, <2>2
<1>4. TenTo = Turn(TenTo)
  BY <1>3 DEF TenTo
<1>5. TenTo[0] = 1 /\ DOMAIN TenTo = 0 .. MAX_DIGITS
  BY <1>4 DEF MAX_DIGITS
<1>6. ASSUME NEW k \in 1 .. MAX_DIGITS PROVE TenTo[k] = BASE * TenTo[k - 1]
  <2>1. Turn(TenTo)[k] = BASE * TenTo[k - 1]
    BY DEF MAX_DIGITS
  <2>. HIDE DEF Turn
  <2>. QED BY <1>4, <2>1
<1> DEFINE S == { k \in 0 .. MAX_DIGITS : TenTo[k] = f[k] }
<1>7. 0 .. MAX_DIGITS \subseteq S
  <2>1. 0 \in S
    BY <1>2, <1>5 DEF MAX_DIGITS
  <2>2. ASSUME NEW k \in 0 .. (MAX_DIGITS - 1), k \in S PROVE k + 1 \in S
    <3>1. k + 1 \in 1 .. MAX_DIGITS /\ (k + 1) - 1 = k /\ TenTo[k] = f[k]
      BY <2>2 DEF MAX_DIGITS
    <3>2. TenTo[k + 1] = f[k + 1]
      BY <1>2, <1>6, <3>1
    <3>. QED BY <3>1, <3>2
  <2>. HIDE DEF S
  <2>3. MAX_DIGITS \in Nat
    BY DEF MAX_DIGITS
  <2>. QED BY <2>1, <2>2, <2>3, FromZero
<1>8. TenTo = f
  <2>1. TenTo = [ k \in 0 .. MAX_DIGITS |-> TenTo[k] ]
    BY <1>4
  <2>2. f = [ k \in 0 .. MAX_DIGITS |-> f[k] ]
    BY <1>2
  <2>. HIDE DEF Turn
  <2>. QED BY <1>7, <2>1, <2>2
<1>. QED BY <1>1, <1>8

LEMMA Base == BASE \in Nat \ {0, 1}
  BY JsonNumbersAssumption

LEMMA TenToType ==
    /\ TenTo[0] = 1 /\ TenTo[1] = BASE
    /\ \A k \in 0 .. 20 : TenTo[k] \in Nat \ {0}
    /\ \A k \in 0 .. 19 : TenTo[k + 1] = BASE * TenTo[k]
<1>1. TenTo \in [ 0 .. 20 -> Nat \ {0} ] /\ TenTo[0] = 1 /\ \A k \in 1 .. 20 : TenTo[k] = BASE * TenTo[k - 1]
  BY TenToIs DEF PowersBelow, MAX_DIGITS
<1>2. \A k \in 0 .. 19 : TenTo[k + 1] = BASE * TenTo[k]
  <2>. SUFFICES ASSUME NEW k \in 0 .. 19 PROVE TenTo[k + 1] = BASE * TenTo[k]
    OBVIOUS
  <2>1. k + 1 \in 1 .. 20 /\ (k + 1) - 1 = k
    OBVIOUS
  <2>. QED BY <1>1, <2>1
<1>3. TenTo[1] = BASE
  BY <1>1, Base
<1>. QED BY <1>1, <1>2, <1>3

LEMMA TenToGrows ==
    ASSUME NEW i \in 0 .. 20, NEW j \in 0 .. 20, i <= j
    PROVE  TenTo[i] <= TenTo[j]
<1> DEFINE S == { d \in Nat : i + d <= 20 => TenTo[i] <= TenTo[i + d] }
<1>1. 0 \in S
  BY TenToType
<1>2. ASSUME NEW d \in 0 .. (20 - 1), d \in S PROVE d + 1 \in S
  <2>. SUFFICES ASSUME i + (d + 1) <= 20 PROVE TenTo[i] <= TenTo[i + (d + 1)]
    OBVIOUS
  <2>1. i + d \in 0 .. 19 /\ i + (d + 1) = (i + d) + 1 /\ i + d \in 0 .. 20
    OBVIOUS
  <2>2. TenTo[i] <= TenTo[i + d]
    BY <1>2, <2>1
  <2>3. TenTo[i + (d + 1)] = BASE * TenTo[i + d] /\ TenTo[i + d] \in Nat /\ TenTo[i] \in Nat
    BY <2>1, TenToType
  <2>4. \A x, e \in Nat : e <= x => e <= BASE * x
    BY Base
  <2>5. TenTo[i] <= BASE * TenTo[i + d]
    BY <2>2, <2>3, <2>4
  <2>. QED BY <2>3, <2>5
<1>3. 0 .. 20 \subseteq S
  <2>. HIDE DEF S
  <2>. QED BY <1>1, <1>2, FromZero
<1>4. j - i \in 0 .. 20 /\ i + (j - i) = j
  OBVIOUS
<1>5. j - i \in S
  <2>. HIDE DEF S
  <2>. QED BY <1>3, <1>4
<1>. QED BY <1>4, <1>5

LEMMA TenToProducts ==
    /\ TenTo[2] = BASE * BASE /\ TenTo[3] = BASE * TenTo[2] /\ TenTo[4] = TenTo[2] * TenTo[2]
    /\ TenTo[8] = TenTo[4] * TenTo[4] /\ TenTo[10] = TenTo[2] * TenTo[8] /\ TenTo[16] = TenTo[8] * TenTo[8]
<1>1. \A k \in 0 .. 19 : TenTo[k + 1] = BASE * TenTo[k]
  BY TenToType
<1>2. \A k \in 0 .. 20 : TenTo[k] \in Nat
  BY TenToType
<1>3. TenTo[2] = BASE * BASE /\ TenTo[3] = BASE * TenTo[2]
  BY <1>1, TenToType
<1>4. ASSUME NEW k \in 0 .. 16 PROVE TenTo[k + 4] = BASE * (BASE * (BASE * (BASE * TenTo[k])))
  <2>1. /\ TenTo[k + 1] = BASE * TenTo[k] /\ TenTo[(k + 1) + 1] = BASE * TenTo[k + 1]
        /\ TenTo[(k + 2) + 1] = BASE * TenTo[k + 2] /\ TenTo[(k + 3) + 1] = BASE * TenTo[k + 3]
    BY <1>1
  <2>2. (k + 1) + 1 = k + 2 /\ (k + 2) + 1 = k + 3 /\ (k + 3) + 1 = k + 4
    OBVIOUS
  <2>. QED BY <2>1, <2>2
<1>5. \A x \in Nat : BASE * (BASE * (BASE * (BASE * x))) = (BASE * BASE) * (BASE * BASE) * x
  BY Base
<1>6. ASSUME NEW k \in 0 .. 16 PROVE TenTo[k + 4] = TenTo[2] * TenTo[2] * TenTo[k]
  BY <1>2, <1>3, <1>4, <1>5
<1>7. TenTo[4] = TenTo[2] * TenTo[2]
  <2>1. 0 + 4 = 4 /\ TenTo[2] * TenTo[2] * 1 = TenTo[2] * TenTo[2]
    BY <1>2
  <2>. QED BY <1>6, <2>1, TenToType
<1>8. ASSUME NEW k \in 0 .. 16 PROVE TenTo[k + 4] = TenTo[4] * TenTo[k]
  BY <1>6, <1>7
<1>9. TenTo[8] = TenTo[4] * TenTo[4]
  <2>1. 4 + 4 = 8
    OBVIOUS
  <2>. QED BY <1>8, <2>1
<1>10. TenTo[16] = TenTo[8] * TenTo[8]
  <2>1. 8 + 4 = 12 /\ 12 + 4 = 16
    OBVIOUS
  <2>2. TenTo[16] = TenTo[4] * (TenTo[4] * TenTo[8])
    BY <1>8, <2>1
  <2>3. \A x, e \in Nat : x * (x * e) = (x * x) * e
    OBVIOUS
  <2>. QED BY <1>2, <1>9, <2>2, <2>3
<1>11. TenTo[10] = TenTo[2] * TenTo[8]
  <2>1. 8 + 1 = 9 /\ 9 + 1 = 10
    OBVIOUS
  <2>2. TenTo[10] = BASE * (BASE * TenTo[8])
    BY <1>1, <2>1
  <2>3. \A e \in Nat : BASE * (BASE * e) = (BASE * BASE) * e
    BY Base
  <2>. QED BY <1>2, <1>3, <2>2, <2>3
<1>. QED BY <1>3, <1>7, <1>9, <1>10, <1>11

(***************************************************************************)
(* What digits read as.                                                    *)
(***************************************************************************)
Digit == 0 .. (BASE - 1)

\* f is what the first digits of s read as, and all of them as v.
Reading(f, s, v) ==
    /\ f \in [ 0 .. Len(s) -> Nat ] /\ f[0] = 0 /\ f[Len(s)] = v
    /\ \A k \in 1 .. Len(s) : f[k] = BASE * f[k - 1] + s[k]

Reads(s, v) == s \in Seq(Digit) /\ v \in Nat /\ \E f : Reading(f, s, v)

LEMMA NoDigits == Reads(<< >>, 0)
<1>1. Reading([ k \in 0 .. 0 |-> 0 ], << >>, 0)
  BY DEF Reading
<1>. QED BY <1>1 DEF Reads

LEMMA OneMore ==
    ASSUME NEW s, NEW v, Reads(s, v), NEW d \in Digit
    PROVE  Reads(s \o << d >>, BASE * v + d)
<1>1. s \in Seq(Digit) /\ v \in Nat /\ Len(s) \in Nat
  BY DEF Reads
<1>2. PICK f : Reading(f, s, v)
  BY DEF Reads
<1> DEFINE n == Len(s)
           u == s \o << d >>
           w == BASE * v + d
           g == [ k \in 0 .. (n + 1) |-> IF k = n + 1 THEN w ELSE f[k] ]
<1>3. f \in [ 0 .. n -> Nat ] /\ f[0] = 0 /\ f[n] = v /\ \A k \in 1 .. n : f[k] = BASE * f[k - 1] + s[k]
  BY <1>2 DEF Reading
<1>4. u \in Seq(Digit) /\ Len(u) = n + 1 /\ u[n + 1] = d /\ \A k \in 1 .. n : u[k] = s[k]
  BY <1>1
<1>5. w \in Nat
  BY <1>1, Base DEF Digit
<1>6. g \in [ 0 .. (n + 1) -> Nat ] /\ g[0] = 0 /\ g[n + 1] = w
  <2>. HIDE DEF w
  <2>. QED BY <1>1, <1>3, <1>5
<1>7. ASSUME NEW k \in 1 .. (n + 1) PROVE g[k] = BASE * g[k - 1] + u[k]
  <2>1. CASE k = n + 1
    <3>1. g[k - 1] = v /\ g[k] = w /\ u[k] = d
      BY <1>1, <1>3, <1>4, <2>1
    <3>. QED BY <3>1
  <2>2. CASE k # n + 1
    <3>1. k \in 1 .. n /\ g[k] = f[k] /\ g[k - 1] = f[k - 1] /\ u[k] = s[k]
      <4>. HIDE DEF u
      <4>. QED BY <1>1, <1>4, <2>2
    <3>. HIDE DEF g, u
    <3>. QED BY <1>3, <3>1
  <2>. QED BY <2>1, <2>2
<1>. HIDE DEF g, u, w
<1>8. Reading(g, u, w)
  BY <1>4, <1>6, <1>7 DEF Reading
<1>9. Reads(u, w)
  BY <1>4, <1>5, <1>8 DEF Reads
<1>. QED BY <1>9 DEF u, w

LEMMA ValueIs == ASSUME NEW s, NEW v, Reads(s, v) PROVE ValueOf(s) = v
<1>1. s \in Seq(Digit) /\ v \in Nat /\ Len(s) \in Nat
  BY DEF Reads
<1>2. PICK f : Reading(f, s, v)
  BY DEF Reads
<1> DEFINE n == Len(s)
           Turn(h) == [ k \in 0 .. n |-> IF k = 0 THEN 0 ELSE BASE * h[k - 1] + s[k] ]
<1>3. f \in [ 0 .. n -> Nat ] /\ f[0] = 0 /\ f[n] = v /\ \A k \in 1 .. n : f[k] = BASE * f[k - 1] + s[k]
  BY <1>2 DEF Reading
<1>4. f = Turn(f)
  <2>1. \A k \in 0 .. n : f[k] = (IF k = 0 THEN 0 ELSE BASE * f[k - 1] + s[k])
    BY <1>1, <1>3
  <2>2. f = [ k \in 0 .. n |-> f[k] ]
    BY <1>3
  <2>. QED BY <2>1, <2>2
<1>5. PICK h : h = Turn(h) /\ ValueOf(s) = h[n]
  BY <1>4 DEF ValueOf
<1>6. h[0] = 0
  <2>1. Turn(h)[0] = 0
    BY <1>1
  <2>. HIDE DEF Turn
  <2>. QED BY <1>5, <2>1
<1>7. ASSUME NEW k \in 1 .. n PROVE h[k] = BASE * h[k - 1] + s[k]
  <2>1. Turn(h)[k] = BASE * h[k - 1] + s[k]
    BY <1>1
  <2>. HIDE DEF Turn
  <2>. QED BY <1>5, <2>1
<1>. HIDE DEF Turn
<1> DEFINE S == { k \in 0 .. n : h[k] = f[k] }
<1>8. 0 .. n \subseteq S
  <2>1. 0 \in S
    BY <1>1, <1>3, <1>6
  <2>2. ASSUME NEW k \in 0 .. (n - 1), k \in S PROVE k + 1 \in S
    <3>1. k + 1 \in 1 .. n /\ (k + 1) - 1 = k /\ h[k] = f[k]
      BY <1>1, <2>2
    <3>2. h[k + 1] = BASE * h[k] + s[k + 1] /\ f[k + 1] = BASE * f[k] + s[k + 1]
      BY <1>3, <1>7, <3>1
    <3>. QED BY <3>1, <3>2
  <2>. HIDE DEF S
  <2>. QED BY <1>1, <2>1, <2>2, FromZero
<1>9. n \in S
  <2>. HIDE DEF S
  <2>. QED BY <1>1, <1>8
<1>. QED BY <1>3, <1>5, <1>9

LEMMA ReadsType == ASSUME NEW s, NEW v, Reads(s, v) PROVE s \in Seq(Digit) /\ v \in Nat
  BY DEF Reads

(***************************************************************************)
(* Groups of digits.                                                       *)
(***************************************************************************)
LEMMA Multiples ==
    ASSUME NEW m \in Nat \ {0}, NEW a \in Int, NEW b \in Int, a < b
    PROVE  a * m + m <= b * m
<1>1. PICK c \in Nat : b = a + 1 + c
  BY b - a - 1 \in Nat
<1>2. b * m = a * m + m + c * m /\ c * m \in Nat /\ a * m \in Int
  BY <1>1
<1>. QED BY <1>2

\* Of a number below n times m, what is divided off and what remains.
LEMMA DividedOff ==
    ASSUME NEW m \in Nat \ {0}, NEW n \in Nat \ {0}, NEW x \in Nat, x < n * m
    PROVE  /\ x \div m \in 0 .. (n - 1) /\ x % m \in 0 .. (m - 1)
           /\ x = (x \div m) * m + (x % m)
           /\ (x >= m) = (x \div m >= 1)
<1> DEFINE q == x \div m
           r == x % m
<1>1. q \in Int /\ r \in 0 .. (m - 1) /\ x = q * m + r
  OBVIOUS
<1> DEFINE qm == q * m
           nm == n * m
<1>2. qm \in Int /\ nm \in Int /\ x = qm + r /\ x < nm
  BY <1>1
<1>3. (q < 0 => qm + m <= 0 * m) /\ (n < q => nm + m <= qm) /\ (0 < q => 0 * m + m <= qm) /\ (n = q => nm = qm)
  <2>. HIDE DEF q
  <2>. QED BY <1>1, Multiples
<1>4. 0 * m = 0 /\ (q = 0 => qm = 0)
  BY <1>1
<1>. HIDE DEF q, r, qm, nm
<1>5. q \in 0 .. (n - 1) /\ (x >= m) = (q >= 1)
  BY <1>1, <1>2, <1>3, <1>4
<1>. QED BY <1>1, <1>5 DEF q, r

LEMMA DigitsAre == Digit \subseteq Nat /\ BASE \in Nat \ {0, 1} /\ TenTo[2] \in Nat \ {0} /\ TenTo[2] = BASE * BASE
  BY Base, TenToType, TenToProducts DEF Digit

LEMMA Lists ==
    ASSUME NEW S, NEW a \in S, NEW b \in S
    PROVE  /\ << a >> \in Seq(S) /\ << b >> \in Seq(S) /\ << a, b >> \in Seq(S)
           /\ << a >> \o << b >> = << a, b >> /\ Len(<< a, b >>) = 2
<1>1. << a >> \in Seq(S)
  OBVIOUS
<1>2. << b >> \in Seq(S)
  OBVIOUS
<1>3. << a, b >> \in Seq(S)
  OBVIOUS
<1>4. Len(<< a, b >>) = 2
  OBVIOUS
<1>5. << a >> \o << b >> = << a, b >>
  <2> DEFINE x == << a >>
             e == << b >>
             z == << a, b >>
  <2>1. x \in Seq(S) /\ Len(x) = 1 /\ x[1] = a /\ e \in Seq(S) /\ Len(e) = 1 /\ e[1] = b
    BY <1>1, <1>2
  <2>2. z \in Seq(S) /\ Len(z) = 2 /\ z[1] = a /\ z[2] = b
    BY <1>3, <1>4
  <2>. HIDE DEF x, e, z
  <2>3. /\ x \o e \in Seq(S) /\ Len(x \o e) = Len(x) + Len(e)
        /\ \A i \in 1 .. Len(x) + Len(e) : (x \o e)[i] = IF i <= Len(x) THEN x[i] ELSE e[i - Len(x)]
    BY <2>1, ConcatProperties
  <2>4. \A i \in 1 .. 2 : (x \o e)[i] = z[i]
    BY <2>1, <2>2, <2>3
  <2>5. x \o e = z
    BY <2>1, <2>2, <2>3, <2>4, SeqEqual
  <2>. QED BY <2>5 DEF x, e, z
<1>. QED BY <1>1, <1>2, <1>3, <1>4, <1>5

LEMMA Regrouped ==
    ASSUME NEW S, NEW s \in Seq(S), NEW u \in Seq(S), NEW v \in Seq(S), NEW w, w = u \o v
    PROVE  (s \o u) \o v = s \o w
  BY ConcatAssociative

\* A number below the square of m.
LEMMA Halves ==
    ASSUME NEW m \in Nat \ {0}, NEW k, k = m * m, NEW n \in 0 .. (k - 1)
    PROVE  n \div m \in 0 .. (m - 1) /\ n % m \in 0 .. (m - 1) /\ n \in Nat /\ n < m * m
<1>1. n \in Nat /\ n < m * m
  OBVIOUS
<1>. QED BY <1>1, DividedOff

LEMMA PairIs ==
    ASSUME NEW d \in 0 .. (TenTo[2] - 1)
    PROVE  /\ Pair(d) = << d \div BASE, d % BASE >>
           /\ d \div BASE \in Digit /\ d % BASE \in Digit /\ d = BASE * (d \div BASE) + (d % BASE)
           /\ (d >= BASE) = (d \div BASE >= 1)
<1>1. d \in Nat /\ d < BASE * BASE /\ BASE \in Nat \ {0}
  BY DigitsAre
<1>2. d \div BASE \in Digit /\ d % BASE \in Digit /\ d = (d \div BASE) * BASE + (d % BASE) /\ (d >= BASE) = (d \div BASE >= 1)
  BY <1>1, DividedOff DEF Digit
<1>3. d = BASE * (d \div BASE) + (d % BASE)
  <2>. DEFINE q == d \div BASE
              r == d % BASE
  <2>1. q \in Nat /\ r \in Nat /\ d = q * BASE + r
    BY <1>2, DigitsAre
  <2>. HIDE DEF q, r
  <2>2. d = BASE * q + r
    BY <2>1, DigitsAre
  <2>. QED BY <2>2 DEF q, r
<1>4. 2 * d \in 0 .. (2 * TenTo[2] - 1) /\ 2 * d + 1 \in 0 .. (2 * TenTo[2] - 1)
  BY DigitsAre
<1>5. (2 * d) % 2 = 0 /\ (2 * d) \div 2 = d /\ (2 * d + 1) % 2 = 1 /\ (2 * d + 1) \div 2 = d
  BY <1>1
<1>6. cDigitsLut[2 * d] = d \div BASE /\ cDigitsLut[2 * d + 1] = d % BASE
  BY <1>4, <1>5 DEF cDigitsLut
<1>. QED BY <1>2, <1>3, <1>6 DEF Pair

LEMMA PairRead ==
    ASSUME NEW s, NEW v, Reads(s, v), NEW d \in 0 .. (TenTo[2] - 1)
    PROVE  Reads(s \o Pair(d), TenTo[2] * v + d)
<1> DEFINE a == d \div BASE
           b == d % BASE
<1>1. Pair(d) = << a, b >> /\ a \in Digit /\ b \in Digit /\ d = BASE * a + b
  BY PairIs
<1>. HIDE DEF a, b
<1>2. Reads(s \o << a >>, BASE * v + a)
  BY <1>1, OneMore
<1>3. Reads((s \o << a >>) \o << b >>, BASE * (BASE * v + a) + b)
  BY <1>1, <1>2, OneMore
<1>4. s \in Seq(Digit) /\ v \in Nat
  BY ReadsType
<1>5. (s \o << a >>) \o << b >> = s \o << a, b >>
  <2>. DEFINE x == << a >>
              e == << b >>
              z == << a, b >>
  <2>1. x \in Seq(Digit) /\ e \in Seq(Digit) /\ z = x \o e
    BY <1>1, Lists
  <2>. HIDE DEF x, e, z
  <2>2. (s \o x) \o e = s \o z
    BY <1>4, <2>1, Regrouped, SMTT(30)
  <2>. QED BY <2>2 DEF x, e, z
<1>6. BASE * (BASE * v + a) + b = TenTo[2] * v + d
  <2>1. a \in Nat /\ b \in Nat
    BY <1>1, DigitsAre
  <2>2. BASE * (BASE * v + a) + b = (BASE * BASE) * v + (BASE * a + b)
    BY <1>4, <2>1, DigitsAre
  <2>. QED BY <1>1, <2>2, DigitsAre
<1>. QED BY <1>1, <1>3, <1>5, <1>6

LEMMA GroupsAre ==
    /\ \A d \in 0 .. (TenTo[2] - 1) : Pair(d) \in Seq(Digit) /\ Len(Pair(d)) = 2
    /\ \A n \in 0 .. (TenTo[4] - 1) : FourDigits(n) \in Seq(Digit) /\ Len(FourDigits(n)) = 4
    /\ \A n \in 0 .. (TenTo[8] - 1) : EightDigits(n) \in Seq(Digit) /\ Len(EightDigits(n)) = 8
    /\ \A n \in 0 .. (TenTo[4] - 1) : n \div TenTo[2] \in 0 .. (TenTo[2] - 1) /\ n % TenTo[2] \in 0 .. (TenTo[2] - 1)
    /\ \A n \in 0 .. (TenTo[8] - 1) : n \div TenTo[4] \in 0 .. (TenTo[4] - 1) /\ n % TenTo[4] \in 0 .. (TenTo[4] - 1)
<1>1. \A d \in 0 .. (TenTo[2] - 1) : Pair(d) \in Seq(Digit) /\ Len(Pair(d)) = 2
  <2>. SUFFICES ASSUME NEW d \in 0 .. (TenTo[2] - 1) PROVE Pair(d) \in Seq(Digit) /\ Len(Pair(d)) = 2
    OBVIOUS
  <2>1. Pair(d) = << d \div BASE, d % BASE >> /\ d \div BASE \in Digit /\ d % BASE \in Digit
    BY PairIs
  <2>. QED BY <2>1, Lists
<1>2. \A n \in 0 .. (TenTo[4] - 1) : n \div TenTo[2] \in 0 .. (TenTo[2] - 1) /\ n % TenTo[2] \in 0 .. (TenTo[2] - 1)
  <2>1. TenTo[2] \in Nat \ {0} /\ TenTo[4] = TenTo[2] * TenTo[2]
    BY TenToType, TenToProducts
  <2>. QED BY <2>1, Halves
<1>3. \A n \in 0 .. (TenTo[8] - 1) : n \div TenTo[4] \in 0 .. (TenTo[4] - 1) /\ n % TenTo[4] \in 0 .. (TenTo[4] - 1)
  <2>1. TenTo[4] \in Nat \ {0} /\ TenTo[8] = TenTo[4] * TenTo[4]
    BY TenToType, TenToProducts
  <2>. QED BY <2>1, Halves
<1>4. \A n \in 0 .. (TenTo[4] - 1) : FourDigits(n) \in Seq(Digit) /\ Len(FourDigits(n)) = 4
  <2>. SUFFICES ASSUME NEW n \in 0 .. (TenTo[4] - 1) PROVE FourDigits(n) \in Seq(Digit) /\ Len(FourDigits(n)) = 4
    OBVIOUS
  <2>. DEFINE p == Pair(n \div TenTo[2])
              q == Pair(n % TenTo[2])
  <2>1. p \in Seq(Digit) /\ Len(p) = 2 /\ q \in Seq(Digit) /\ Len(q) = 2
    BY <1>1, <1>2
  <2>. HIDE DEF p, q
  <2>2. p \o q \in Seq(Digit) /\ Len(p \o q) = Len(p) + Len(q)
    BY <2>1, ConcatProperties
  <2>3. p \o q \in Seq(Digit) /\ Len(p \o q) = 4
    BY <2>1, <2>2
  <2>. QED BY <2>3 DEF FourDigits, p, q
<1>5. \A n \in 0 .. (TenTo[8] - 1) : EightDigits(n) \in Seq(Digit) /\ Len(EightDigits(n)) = 8
  <2>. SUFFICES ASSUME NEW n \in 0 .. (TenTo[8] - 1) PROVE EightDigits(n) \in Seq(Digit) /\ Len(EightDigits(n)) = 8
    OBVIOUS
  <2>. DEFINE p == FourDigits(n \div TenTo[4])
              q == FourDigits(n % TenTo[4])
  <2>1. p \in Seq(Digit) /\ Len(p) = 4 /\ q \in Seq(Digit) /\ Len(q) = 4
    BY <1>3, <1>4
  <2>. HIDE DEF p, q
  <2>2. p \o q \in Seq(Digit) /\ Len(p \o q) = Len(p) + Len(q)
    BY <2>1, ConcatProperties
  <2>3. p \o q \in Seq(Digit) /\ Len(p \o q) = 8
    BY <2>1, <2>2
  <2>. QED BY <2>3 DEF EightDigits, p, q
<1>. QED BY <1>1, <1>2, <1>3, <1>4, <1>5

\* Two groups of m digits' worth.
LEMMA TwoGroups ==
    ASSUME NEW m \in Nat \ {0}, NEW v \in Nat, NEW n \in Nat, n < m * m
    PROVE  m * (m * v + (n \div m)) + (n % m) = (m * m) * v + n
<1> DEFINE q == n \div m
           r == n % m
<1>1. q \in Int /\ r \in Int /\ n = q * m + r
  BY DividedOff
<1>. HIDE DEF q, r
<1>2. m * (m * v + q) + r = (m * m) * v + (q * m + r)
  BY <1>1
<1>. QED BY <1>1, <1>2 DEF q, r

LEMMA FourRead ==
    ASSUME NEW s, NEW v, Reads(s, v), NEW n \in 0 .. (TenTo[4] - 1)
    PROVE  Reads(s \o FourDigits(n), TenTo[4] * v + n)
<1> DEFINE a == n \div TenTo[2]
           b == n % TenTo[2]
           m == TenTo[2]
<1>0. a \in 0 .. (TenTo[2] - 1) /\ b \in 0 .. (TenTo[2] - 1)
  BY GroupsAre
<1>1. s \in Seq(Digit) /\ v \in Nat /\ m \in Nat \ {0} /\ TenTo[4] = m * m
  <2>1. s \in Seq(Digit) /\ v \in Nat
    BY ReadsType
  <2>2. m \in Nat \ {0}
    BY TenToType
  <2>3. TenTo[4] = m * m
    BY TenToProducts
  <2>. QED BY <2>1, <2>2, <2>3
<1>2. m * (m * v + a) + b = TenTo[4] * v + n
  <2>1. n \in Nat /\ n < m * m
    BY <1>1, Halves
  <2>2. m * (m * v + (n \div m)) + (n % m) = (m * m) * v + n
    <3>. HIDE DEF m
    <3>. QED BY <1>1, <2>1, TwoGroups
  <2>. QED BY <1>1, <2>2
<1>3. FourDigits(n) = Pair(a) \o Pair(b) /\ Pair(a) \in Seq(Digit) /\ Pair(b) \in Seq(Digit)
  BY <1>0, GroupsAre DEF FourDigits
<1>. HIDE DEF a, b
<1>4. Reads(s \o Pair(a), m * v + a)
  BY <1>0, PairRead
<1>5. Reads((s \o Pair(a)) \o Pair(b), m * (m * v + a) + b)
  <2>. HIDE DEF m
  <2>. QED BY <1>0, <1>4, PairRead DEF m
<1>6. (s \o Pair(a)) \o Pair(b) = s \o FourDigits(n)
  <2> DEFINE x == Pair(a)
             e == Pair(b)
             z == FourDigits(n)
  <2>1. x \in Seq(Digit) /\ e \in Seq(Digit) /\ z = x \o e
    BY <1>3
  <2>. HIDE DEF x, e, z
  <2>0. s \in Seq(Digit)
    BY ReadsType
  <2>2. (s \o x) \o e = s \o z
    BY <2>0, <2>1, Regrouped
  <2>. QED BY <2>2 DEF x, e, z
<1>. QED BY <1>2, <1>5, <1>6

LEMMA EightRead ==
    ASSUME NEW s, NEW v, Reads(s, v), NEW n \in 0 .. (TenTo[8] - 1)
    PROVE  Reads(s \o EightDigits(n), TenTo[8] * v + n)
<1> DEFINE a == n \div TenTo[4]
           b == n % TenTo[4]
           m == TenTo[4]
<1>0. a \in 0 .. (TenTo[4] - 1) /\ b \in 0 .. (TenTo[4] - 1)
  BY GroupsAre
<1>1. s \in Seq(Digit) /\ v \in Nat /\ m \in Nat \ {0} /\ TenTo[8] = m * m
  <2>1. s \in Seq(Digit) /\ v \in Nat
    BY ReadsType
  <2>2. m \in Nat \ {0}
    BY TenToType
  <2>3. TenTo[8] = m * m
    BY TenToProducts
  <2>. QED BY <2>1, <2>2, <2>3
<1>2. m * (m * v + a) + b = TenTo[8] * v + n
  <2>1. n \in Nat /\ n < m * m
    BY <1>1, Halves
  <2>2. m * (m * v + (n \div m)) + (n % m) = (m * m) * v + n
    <3>. HIDE DEF m
    <3>. QED BY <1>1, <2>1, TwoGroups
  <2>. QED BY <1>1, <2>2
<1>3. EightDigits(n) = FourDigits(a) \o FourDigits(b) /\ FourDigits(a) \in Seq(Digit) /\ FourDigits(b) \in Seq(Digit)
  BY <1>0, GroupsAre DEF EightDigits
<1>. HIDE DEF a, b
<1>4. Reads(s \o FourDigits(a), m * v + a)
  BY <1>0, FourRead
<1>5. Reads((s \o FourDigits(a)) \o FourDigits(b), m * (m * v + a) + b)
  <2>. HIDE DEF m
  <2>. QED BY <1>0, <1>4, FourRead DEF m
<1>6. (s \o FourDigits(a)) \o FourDigits(b) = s \o EightDigits(n)
  <2> DEFINE x == FourDigits(a)
             e == FourDigits(b)
             z == EightDigits(n)
  <2>1. x \in Seq(Digit) /\ e \in Seq(Digit) /\ z = x \o e
    BY <1>3
  <2>. HIDE DEF x, e, z
  <2>0. s \in Seq(Digit)
    BY ReadsType
  <2>2. (s \o x) \o e = s \o z
    BY <2>0, <2>1, Regrouped
  <2>. QED BY <2>2 DEF x, e, z
<1>. QED BY <1>2, <1>5, <1>6

(***************************************************************************)
(* Which leading digits are written.                                       *)
(***************************************************************************)
LEMMA Ordered ==
    ASSUME NEW m \in Nat, NEW a \in Nat, NEW b \in Nat, a <= b
    PROVE  a * m <= b * m
<1>1. PICK c \in Nat : b = a + c
  BY b - a \in Nat
<1>2. b * m = a * m + c * m /\ c * m \in Nat /\ a * m \in Nat
  BY <1>1
<1>. QED BY <1>2

LEMMA Backwards ==
    ASSUME NEW n \in 0 .. 20, NEW i \in 0 .. (n - 1)
    PROVE  /\ n - i \in 1 .. n /\ (n - i) - 1 \in 0 .. n /\ n - (n - i) = i
           /\ n - ((n - i) - 1) = i + 1 /\ n - (i + 1) = (n - i) - 1 /\ i \in 0 .. 19
  OBVIOUS

\* The first k digits are what is divided off by the power of the rest.
LEMMA FirstDigits ==
    ASSUME NEW s, NEW v, s \in Seq(Digit), v \in Nat, NEW f, Reading(f, s, v), NEW n \in 0 .. 20, n = Len(s)
    PROVE  \A k \in 0 .. n : f[k] * TenTo[n - k] <= v /\ v < (f[k] + 1) * TenTo[n - k]
<1> DEFINE Bounded(k) == f[k] * TenTo[n - k] <= v /\ v < (f[k] + 1) * TenTo[n - k]
           S == { i \in 0 .. n : Bounded(n - i) }
<1>1. \A k \in 1 .. n : s[k] \in Digit
  BY ElementOfSeq
<1>2. f \in [ 0 .. n -> Nat ] /\ f[0] = 0 /\ f[n] = v /\ \A k \in 1 .. n : f[k] = BASE * f[k - 1] + s[k]
  BY DEF Reading
<1>3. 0 \in S
  <2>1. n - 0 = n /\ n - n = 0 /\ f[n] = v /\ TenTo[0] = 1
    BY <1>1, <1>2, TenToType
  <2>2. v * 1 <= v /\ v < (v + 1) * 1
    OBVIOUS
  <2>. QED BY <1>1, <2>1, <2>2
<1>4. ASSUME NEW i \in 0 .. (n - 1), i \in S PROVE i + 1 \in S
  <2> DEFINE k == n - i
             a == f[k - 1]
             b == f[k]
             m == TenTo[i]
             M == TenTo[i + 1]
  <2>1. k \in 1 .. n /\ k - 1 \in 0 .. n /\ n - k = i /\ n - (k - 1) = i + 1 /\ n - (i + 1) = k - 1 /\ i \in 0 .. 19
    BY Backwards
  <2>2. b * m <= v /\ v < (b + 1) * m
    BY <1>4, <2>1
  <2>3. a \in Nat /\ b = BASE * a + s[k] /\ s[k] \in Nat /\ s[k] + 1 <= BASE
    <3>1. a \in Nat /\ b = BASE * a + s[k]
      BY <1>2, <2>1
    <3>2. s[k] \in Digit
      BY <1>1, <2>1
    <3>. HIDE DEF k
    <3>3. s[k] \in Nat /\ s[k] + 1 <= BASE
      BY <3>2, Base DEF Digit
    <3>. QED BY <3>1, <3>3
  <2>4. m \in Nat /\ M = BASE * m
    <3>1. i \in 0 .. 20 /\ i \in 0 .. 19
      BY <2>1
    <3>. QED BY <3>1, TenToType
  <2>. HIDE DEF k, a, b, m, M
  <2> DEFINE p == BASE * a
             q == BASE * (a + 1)
  <2>5. p \in Nat /\ q \in Nat /\ b \in Nat /\ p <= b /\ b + 1 <= q
    BY <2>3, Base
  <2>6. p * m = a * M /\ q * m = (a + 1) * M
    BY <2>3, <2>4, Base
  <2>. HIDE DEF p, q
  <2>7. p * m <= b * m /\ (b + 1) * m <= q * m
    BY <2>4, <2>5, Ordered
  <2>8. p * m \in Nat /\ b * m \in Nat /\ (b + 1) * m \in Nat /\ q * m \in Nat
    BY <2>4, <2>5
  <2>9. p * m <= v /\ v < q * m
    <3> DEFINE w == p * m
               x == b * m
               e == (b + 1) * m
               z == q * m
    <3>1. w <= x /\ e <= z /\ x <= v /\ v < e /\ w \in Nat /\ x \in Nat /\ e \in Nat /\ z \in Nat
      BY <2>2, <2>7, <2>8
    <3>. HIDE DEF w, x, e, z
    <3>2. w <= v /\ v < z
      BY <3>1
    <3>. QED BY <3>2 DEF w, z
  <2>10. a * M <= v /\ v < (a + 1) * M
    BY <2>6, <2>9
  <2>. QED BY <1>1, <2>1, <2>10 DEF a, M
<1>5. 0 .. n \subseteq S
  <2>1. n \in Nat /\ \A i \in 0 .. (n - 1) : i \in S => i + 1 \in S
    BY <1>4
  <2>. HIDE DEF S
  <2>. QED BY <1>3, <2>1, FromZero
<1>6. ASSUME NEW k \in 0 .. n PROVE Bounded(k)
  <2>1. n - k \in 0 .. n /\ n - (n - k) = k
    BY <1>1
  <2>2. n - k \in S
    <3>. HIDE DEF S
    <3>. QED BY <1>5, <2>1
  <2>3. Bounded(n - (n - k))
    <3>. HIDE DEF Bounded
    <3>. QED BY <2>2
  <2>. QED BY <2>1, <2>3
<1>. QED BY <1>6

LEMMA FromTheFirst ==
    ASSUME NEW n \in Nat, NEW S, 1 \in S, \A k \in 1 .. (n - 1) : k \in S => k + 1 \in S
    PROVE  1 .. n \subseteq S
<1> DEFINE T == { k \in Nat : k + 1 \in S }
<1>1. CASE n = 0
  BY <1>1
<1>2. CASE n # 0
  <2>1. n - 1 \in Nat /\ 0 \in T
    BY <1>2
  <2>2. \A k \in 0 .. ((n - 1) - 1) : k \in T => k + 1 \in T
    OBVIOUS
  <2>3. 0 .. (n - 1) \subseteq T
    <3>. HIDE DEF T
    <3>. QED BY <2>1, <2>2, FromZero
  <2>4. \A k \in 1 .. n : k - 1 \in 0 .. (n - 1) /\ (k - 1) + 1 = k
    OBVIOUS
  <2>. QED BY <2>3, <2>4
<1>. QED BY <1>1, <1>2

\* What the first sequences make, one after another.
Joined(g, seqs, n) == g[1] = seqs[1] /\ \A i \in 2 .. n : g[i] = g[i - 1] \o seqs[i]

LEMMA Flattened ==
    ASSUME NEW seqs, NEW n \in Nat \ {0}, Len(seqs) = n, NEW g, Joined(g, seqs, n)
    PROVE  FlattenSeq(seqs) = g[n]
<1>0. g[1] = seqs[1] /\ \A i \in 2 .. n : g[i] = g[i - 1] \o seqs[i]
  BY DEF Joined
<1> DEFINE e == [ i \in 1 .. n |-> g[i] ]
           Turn(h) == [ i \in 1 .. n |-> IF i = 1 THEN seqs[i] ELSE h[i - 1] \o seqs[i] ]
<1>1. e = Turn(e)
  <2>1. DOMAIN e = 1 .. n /\ e = [ i \in 1 .. n |-> e[i] ] /\ \A i \in 1 .. n : e[i] = g[i]
    OBVIOUS
  <2>2. ASSUME NEW i \in 1 .. n PROVE e[i] = (IF i = 1 THEN seqs[i] ELSE e[i - 1] \o seqs[i])
    <3>1. CASE i = 1
      BY <1>0, <2>1, <3>1
    <3>2. CASE i # 1
      <4>1. i \in 2 .. n /\ i - 1 \in 1 .. n
        BY <3>2
      <4>2. e[i] = g[i] /\ e[i - 1] = g[i - 1] /\ g[i] = g[i - 1] \o seqs[i]
        BY <1>0, <4>1
      <4>. HIDE DEF e
      <4>. QED BY <3>2, <4>2
    <3>. QED BY <3>1, <3>2
  <2>. HIDE DEF e
  <2>. QED BY <2>1, <2>2
<1>2. PICK h : h = Turn(h) /\ FlattenSeq(seqs) = h[n]
  <2>. HIDE DEF e
  <2>. QED BY <1>1 DEF FlattenSeq
<1>3. h[1] = seqs[1] /\ \A k \in 1 .. (n - 1) : h[k + 1] = h[k] \o seqs[k + 1]
  <2>1. Turn(h)[1] = seqs[1]
    OBVIOUS
  <2>2. ASSUME NEW k \in 1 .. (n - 1) PROVE Turn(h)[k + 1] = h[k] \o seqs[k + 1]
    <3>1. k + 1 \in 1 .. n /\ k + 1 # 1 /\ (k + 1) - 1 = k
      OBVIOUS
    <3>2. Turn(h)[k + 1] = h[(k + 1) - 1] \o seqs[k + 1]
      BY <3>1
    <3>. QED BY <3>1, <3>2
  <2>. HIDE DEF Turn
  <2>. QED BY <1>2, <2>1, <2>2
<1>. HIDE DEF e, Turn
<1> DEFINE S == { i \in 1 .. n : g[i] = h[i] }
<1>4. 1 \in S
  BY <1>0, <1>3
<1>5. ASSUME NEW k \in 1 .. (n - 1), k \in S PROVE k + 1 \in S
  <2>1. k + 1 \in 2 .. n /\ k + 1 \in 1 .. n /\ (k + 1) - 1 = k /\ g[k] = h[k]
    BY <1>5
  <2>2. g[k + 1] = g[k] \o seqs[k + 1]
    BY <1>0, <2>1
  <2>3. g[k + 1] = h[k + 1]
    BY <1>3, <2>1, <2>2
  <2>. QED BY <2>1, <2>3
<1>6. 1 .. n \subseteq S
  <2>. HIDE DEF S
  <2>. QED BY <1>4, <1>5, FromTheFirst
<1>. QED BY <1>2, <1>6


\* w is v as it should be written: no zero leads.
DecimalOf(w, v) == Reads(w, v) /\ Len(w) >= 1 /\ (w[1] = 0 => Len(w) = 1)

\* The digits of s from the first on, up to the k-th.
Stretch(s, first, k) == IF k < first THEN << >> ELSE [ i \in 1 .. (k - first + 1) |-> s[first + i - 1] ]

LEMMA StretchGrows ==
    ASSUME NEW n \in Nat, NEW s \in [ 1 .. n -> Digit ], NEW first \in 1 .. n, NEW k \in 1 .. n
    PROVE  /\ k < first => Stretch(s, first, k) = << >>
           /\ k >= first => Stretch(s, first, k) = Stretch(s, first, k - 1) \o << s[k] >>
           /\ k >= first => Len(Stretch(s, first, k)) = k - first + 1 /\ Stretch(s, first, k)[1] = s[first]
<1>1. k < first => Stretch(s, first, k) = << >>
  BY DEF Stretch
<1>2. ASSUME k >= first
      PROVE  Len(Stretch(s, first, k)) = k - first + 1 /\ Stretch(s, first, k)[1] = s[first]
  BY <1>2 DEF Stretch
<1>3. ASSUME k >= first
      PROVE  Stretch(s, first, k) = Stretch(s, first, k - 1) \o << s[k] >>
  <2> DEFINE m == k - first
             u == [ i \in 1 .. (m + 1) |-> s[first + i - 1] ]
             v == [ i \in 1 .. m |-> s[first + i - 1] ]
  <2>1. m \in Nat /\ \A i \in 1 .. (m + 1) : first + i - 1 \in 1 .. n
    BY <1>3
  <2>2. u \in Seq(Digit) /\ Len(u) = m + 1 /\ v \in Seq(Digit) /\ Len(v) = m
    BY <2>1
  <2>3. \A i \in 1 .. m : u[i] = v[i]
    BY <2>1
  <2>4. first + (m + 1) - 1 = k /\ u[m + 1] = s[k]
    BY <2>1
  <2>5. u = v \o << s[k] >>
    <3>. DEFINE d == s[k]
                w == v \o << d >>
    <3>1. d \in Digit
      OBVIOUS
    <3>. HIDE DEF u, v, m, d
    <3>2. w \in Seq(Digit) /\ Len(w) = m + 1 /\ w[m + 1] = d /\ \A i \in 1 .. m : w[i] = v[i]
      <4>1. w = Append(v, d)
        BY <2>2, <3>1
      <4>2. v \in Seq(Digit) /\ Len(v) = m /\ m \in Nat
        BY <2>1, <2>2
      <4>. HIDE DEF w
      <4>. QED BY <3>1, <4>1, <4>2, AppendProperties
    <3>3. \A i \in 1 .. (m + 1) : u[i] = w[i]
      <4>. HIDE DEF w
      <4>. QED BY <2>1, <2>3, <2>4, <3>2 DEF d
    <3>4. u = w
      <4>. HIDE DEF w
      <4>. QED BY <2>2, <3>2, <3>3, SeqEqual
    <3>. QED BY <3>4 DEF d
  <2>6. Stretch(s, first, k) = u /\ Stretch(s, first, k - 1) = v
    <3>1. Stretch(s, first, k) = u
      BY <1>3 DEF Stretch
    <3>2. CASE k - 1 < first
      <4>1. m = 0 /\ Stretch(s, first, k - 1) = << >>
        BY <1>3, <3>2 DEF Stretch
      <4>2. v = << >>
        BY <4>1
      <4>. QED BY <3>1, <4>1, <4>2
    <3>3. CASE ~(k - 1 < first)
      <4>1. (k - 1) - first + 1 = m
        OBVIOUS
      <4>2. Stretch(s, first, k - 1) = [ i \in 1 .. ((k - 1) - first + 1) |-> s[first + i - 1] ]
        BY <3>3 DEF Stretch
      <4>. QED BY <3>1, <4>1, <4>2
    <3>. QED BY <3>2, <3>3
  <2>. QED BY <2>5, <2>6
<1>. QED BY <1>1, <1>2, <1>3

LEMMA Rests ==
    ASSUME NEW n \in 1 .. 20, NEW k \in 1 .. n
    PROVE  /\ n - k \in 0 .. 20 /\ n - k \in 0 .. (n - 1) /\ (k # n => n - k >= 1)
           /\ \A j \in 1 .. n : j <= k => n - k <= n - j
           /\ \A a \in 1 .. n : k > n - a => a - 1 \in 0 .. 20 /\ n - k <= a - 1
           /\ k - 1 \in 0 .. n /\ k - 1 < k /\ k \in 0 .. n
  OBVIOUS

\* The digits of a number of n digits that are written are those from the first on.
WrittenFrom(first, v, n, always) ==
    /\ \A k \in 1 .. n : k >= first => k = n \/ v >= TenTo[n - k]
    /\ \A k \in 1 .. n : k < first => k # n /\ v < TenTo[n - k] /\ ~(k > n - always)

\* The comparisons are with v: from the first that holds on all hold.
LEMMA FirstWritten ==
    ASSUME NEW v \in Nat, NEW n \in 1 .. 20, NEW always \in 1 .. n,
           always # 1 => v >= TenTo[always - 1]
    PROVE  \E first \in 1 .. n : WrittenFrom(first, v, n, always)
<1> DEFINE Chosen == { k \in 1 .. n : k = n \/ v >= TenTo[n - k] }
<1>1. PICK first \in Chosen : \A k \in Chosen : first <= k
  <2>1. Chosen \in SUBSET Nat /\ n \in Chosen
    OBVIOUS
  <2>. HIDE DEF Chosen
  <2>. QED BY <2>1, LeastNumber
<1>2. first \in 1 .. n /\ (first = n \/ v >= TenTo[n - first])
  BY <1>1
<1>3. \A k \in 1 .. n : k < first => k # n /\ ~(v >= TenTo[n - k])
  <2>. SUFFICES ASSUME NEW k \in 1 .. n, k < first PROVE k # n /\ ~(v >= TenTo[n - k])
    OBVIOUS
  <2>1. k \notin Chosen
    <3>. HIDE DEF Chosen
    <3>. QED BY <1>1, <1>2
  <2>. QED BY <2>1
<1>. HIDE DEF Chosen
<1>4. ASSUME NEW k \in 1 .. n, k >= first PROVE k = n \/ v >= TenTo[n - k]
  <2>1. CASE first = n
    BY <1>2, <1>4, <2>1
  <2>2. CASE first # n
    <3>1. v >= TenTo[n - first]
      BY <1>2, <2>2
    <3>2. n - k \in 0 .. 20 /\ n - first \in 0 .. 20 /\ n - k <= n - first
      <4>1. first <= k
        BY <1>2, <1>4
      <4>. QED BY <1>2, <4>1, Rests
    <3>3. TenTo[n - k] <= TenTo[n - first] /\ TenTo[n - k] \in Nat /\ TenTo[n - first] \in Nat
      BY <3>2, TenToGrows, TenToType
    <3>. QED BY <3>1, <3>3
  <2>. QED BY <2>1, <2>2
<1>5. ASSUME NEW k \in 1 .. n, k < first PROVE k # n /\ v < TenTo[n - k] /\ ~(k > n - always)
  <2>1. k # n /\ ~(v >= TenTo[n - k]) /\ n - k \in 0 .. 20 /\ n - k >= 1
    BY <1>3, <1>5, Rests
  <2>2. TenTo[n - k] \in Nat
    BY <2>1, TenToType
  <2>3. v < TenTo[n - k]
    BY <2>1, <2>2
  <2>4. ASSUME k > n - always PROVE FALSE
    <3>1. always - 1 \in 0 .. 20 /\ n - k <= always - 1
      BY <2>4, Rests
    <3>2. always # 1
      BY <2>1, <3>1
    <3>3. TenTo[n - k] <= TenTo[always - 1] /\ TenTo[always - 1] \in Nat
      BY <2>1, <3>1, TenToGrows, TenToType
    <3>4. v >= TenTo[always - 1]
      BY <3>2
    <3>. QED BY <2>2, <2>3, <3>3, <3>4
  <2>. QED BY <2>1, <2>3, <2>4
<1>6. WrittenFrom(first, v, n, always)
  BY <1>4, <1>5 DEF WrittenFrom
<1>. QED BY <1>2, <1>6

LEMMA LeadingStretch ==
    ASSUME NEW v \in Nat, NEW n \in 1 .. 20, NEW always \in 1 .. n, NEW first \in 1 .. n,
           WrittenFrom(first, v, n, always),
           NEW s \in [ 1 .. n -> Digit ], Len(s) = n
    PROVE  Leading(v, s, always) = Stretch(s, first, n)
<1> DEFINE seqs == [ k \in 1 .. n |-> IF k > n - always \/ v >= TenTo[n - k] THEN << s[k] >> ELSE << >> ]
           g == [ k \in 1 .. n |-> Stretch(s, first, k) ]
<1>10. ASSUME NEW k \in 1 .. n
       PROVE  (k >= first => seqs[k] = << s[k] >>) /\ (k < first => seqs[k] = << >>)
  <2>1. ASSUME k >= first PROVE seqs[k] = << s[k] >>
    <3>1. k = n \/ v >= TenTo[n - k]
      BY <2>1 DEF WrittenFrom
    <3>2. k = n => k > n - always
      OBVIOUS
    <3>. QED BY <3>1, <3>2
  <2>2. ASSUME k < first PROVE seqs[k] = << >>
    <3>1. ~(k > n - always) /\ v < TenTo[n - k]
      BY <2>2 DEF WrittenFrom
    <3>2. TenTo[n - k] \in Nat
      BY Rests, TenToType
    <3>3. ~(v >= TenTo[n - k])
      BY <3>1, <3>2
    <3>. QED BY <3>1, <3>3
  <2>. QED BY <2>1, <2>2
<1>. HIDE DEF seqs
<1>11. ASSUME NEW k \in 1 .. n
       PROVE  Stretch(s, first, k) = Stretch(s, first, k - 1) \o seqs[k]
  <2>1. CASE k >= first
    <3>1. seqs[k] = << s[k] >>
      BY <1>10, <2>1
    <3>2. Stretch(s, first, k) = Stretch(s, first, k - 1) \o << s[k] >>
      <4>1. n \in Nat
        OBVIOUS
      <4>. QED BY <2>1, <4>1, StretchGrows
    <3>. QED BY <3>1, <3>2
  <2>2. CASE k < first
    <3>1. Stretch(s, first, k) = << >> /\ Stretch(s, first, k - 1) = << >> /\ seqs[k] = << >>
      <4>1. k - 1 < first
        BY <2>2
      <4>. QED BY <1>10, <2>2, <4>1 DEF Stretch
    <3>2. << >> \o << >> = << >>
      OBVIOUS
    <3>. QED BY <3>1, <3>2
  <2>3. k >= first \/ k < first
    OBVIOUS
  <2>. QED BY <2>1, <2>2, <2>3
<1>12. Stretch(s, first, 0) = << >>
  BY DEF Stretch
<1>13. Joined(g, seqs, n)
  <2>1. g[1] = seqs[1]
    <3>1. 1 \in 1 .. n /\ 1 - 1 = 0
      OBVIOUS
    <3>2. Stretch(s, first, 1) = << >> \o seqs[1]
      BY <1>11, <1>12, <3>1
    <3>3. seqs[1] \in Seq(Digit)
      <4>1. s[1] \in Digit
        OBVIOUS
      <4>2. << s[1] >> \in Seq(Digit) /\ << >> \in Seq(Digit)
        BY <4>1, Lists
      <4>3. seqs[1] = << s[1] >> \/ seqs[1] = << >>
        BY <1>10
      <4>. QED BY <4>2, <4>3
    <3>4. << >> \o seqs[1] = seqs[1]
      BY <3>3, ConcatEmptySeq
    <3>. QED BY <3>2, <3>4
  <2>2. \A i \in 2 .. n : g[i] = g[i - 1] \o seqs[i]
    <3>. SUFFICES ASSUME NEW i \in 2 .. n PROVE g[i] = g[i - 1] \o seqs[i]
      OBVIOUS
    <3>1. i \in 1 .. n /\ i - 1 \in 1 .. n
      OBVIOUS
    <3>2. g[i] = Stretch(s, first, i) /\ g[i - 1] = Stretch(s, first, i - 1)
      BY <3>1
    <3>. HIDE DEF g
    <3>. QED BY <1>11, <3>1, <3>2
  <2>. HIDE DEF g
  <2>. QED BY <2>1, <2>2 DEF Joined
<1>14. Leading(v, s, always) = FlattenSeq(seqs)
  BY DEF Leading, seqs
<1>15. Len(seqs) = n /\ n \in Nat \ {0} /\ g[n] = Stretch(s, first, n)
  BY DEF seqs
<1>. HIDE DEF g
<1>16. FlattenSeq(seqs) = g[n]
  BY <1>13, <1>15, Flattened
<1>. QED BY <1>14, <1>15, <1>16

LEMMA StretchRead ==
    ASSUME NEW n \in 1 .. 20, NEW s \in [ 1 .. n -> Digit ], NEW first \in 1 .. n,
           NEW f \in [ 0 .. n -> Nat ], f[0] = 0, \A k \in 1 .. n : f[k] = BASE * f[k - 1] + s[k],
           \A k \in 0 .. n : k < first => f[k] = 0
    PROVE  Reads(Stretch(s, first, n), f[n])
<1> DEFINE S == { k \in 0 .. n : Reads(Stretch(s, first, k), f[k]) }
<1>1. 0 \in S
  <2>1. Stretch(s, first, 0) = << >>
    BY DEF Stretch
  <2>. QED BY <2>1, NoDigits
<1>2. ASSUME NEW i \in 0 .. (n - 1), i \in S PROVE i + 1 \in S
  <2>1. i + 1 \in 1 .. n /\ i + 1 \in 0 .. n /\ (i + 1) - 1 = i
    OBVIOUS
  <2>2. Reads(Stretch(s, first, i), f[i])
    BY <1>2
  <2>3. CASE i + 1 >= first
    <3>1. s[i + 1] \in Digit /\ f[i + 1] = BASE * f[i] + s[i + 1]
      <4>1. f[i + 1] = BASE * f[(i + 1) - 1] + s[i + 1]
        BY <2>1
      <4>2. s[i + 1] \in Digit
        BY <2>1
      <4>. QED BY <2>1, <4>1, <4>2
    <3>2. Stretch(s, first, i + 1) = Stretch(s, first, (i + 1) - 1) \o << s[i + 1] >>
      <4>1. n \in Nat
        OBVIOUS
      <4>. QED BY <2>1, <2>3, <4>1, StretchGrows
    <3>3. Reads(Stretch(s, first, i + 1), f[i + 1])
      <4>1. Reads(Stretch(s, first, i) \o << s[i + 1] >>, BASE * f[i] + s[i + 1])
        BY <2>2, <3>1, OneMore
      <4>2. Stretch(s, first, i + 1) = Stretch(s, first, i) \o << s[i + 1] >>
        BY <2>1, <3>2
      <4>. QED BY <3>1, <4>1, <4>2
    <3>. QED BY <2>1, <3>3
  <2>4. CASE i + 1 < first
    <3>1. f[i + 1] = 0 /\ Stretch(s, first, i + 1) = << >>
      BY <2>1, <2>4 DEF Stretch
    <3>. QED BY <2>1, <3>1, NoDigits
  <2>. QED BY <2>3, <2>4
<1>3. n \in Nat /\ \A i \in 0 .. (n - 1) : i \in S => i + 1 \in S
  BY <1>2
<1>4. 0 .. n \subseteq S
  <2>. HIDE DEF S
  <2>. QED BY <1>1, <1>3, FromZero
<1>. QED BY <1>4

LEMMA LeadingIs ==
    ASSUME NEW s, NEW v, Reads(s, v), NEW n \in 1 .. 20, Len(s) = n,
           NEW always \in 1 .. n, always # 1 => v >= TenTo[always - 1]
    PROVE  DecimalOf(Leading(v, s, always), v)
<1>1. s \in Seq(Digit) /\ v \in Nat
  BY ReadsType
<1>2. PICK f : Reading(f, s, v)
  BY DEF Reads
<1>3. f \in [ 0 .. n -> Nat ] /\ f[0] = 0 /\ f[n] = v /\ \A k \in 1 .. n : f[k] = BASE * f[k - 1] + s[k]
  BY <1>2 DEF Reading
<1>4. \A k \in 0 .. n : f[k] * TenTo[n - k] <= v /\ v < (f[k] + 1) * TenTo[n - k]
  <2>1. n \in 0 .. 20 /\ n = Len(s)
    OBVIOUS
  <2>. QED BY <1>1, <1>2, <2>1, FirstDigits
<1>5. s \in [ 1 .. n -> Digit ]
  BY <1>1, LenProperties
<1>6. PICK first \in 1 .. n : WrittenFrom(first, v, n, always)
  BY <1>1, FirstWritten
<1> DEFINE w == Stretch(s, first, n)
<1>7. Leading(v, s, always) = w
  BY <1>1, <1>5, <1>6, LeadingStretch
<1>8. ASSUME NEW k \in 0 .. n, k < first PROVE f[k] = 0
  <2>1. CASE k = 0
    BY <1>3, <2>1
  <2>2. CASE k # 0
    <3> DEFINE p == f[k] * TenTo[n - k]
               q == TenTo[n - k]
    <3>1. k \in 1 .. n
      BY <2>2
    <3>2. v < q
      BY <1>6, <1>8, <3>1 DEF WrittenFrom
    <3>3. q \in Nat /\ f[k] \in Nat
      <4>1. n - k \in 0 .. 20
        BY <3>1, Rests
      <4>2. q \in Nat
        BY <4>1, TenToType
      <4>. QED BY <1>3, <4>2
    <3>4. p \in Nat /\ p <= v
      BY <1>4, <3>3, SMTT(30)
    <3>5. f[k] >= 1 => 1 * q <= p
      BY <3>3, Ordered, SMTT(30)
    <3>. HIDE DEF p, q
    <3>6. ~(f[k] >= 1)
      BY <1>1, <3>2, <3>3, <3>4, <3>5
    <3>. QED BY <3>3, <3>6
  <2>. QED BY <2>1, <2>2
<1>9. Reads(w, v)
  <2>1. \A k \in 0 .. n : k < first => f[k] = 0
    BY <1>8
  <2>2. f \in [ 0 .. n -> Nat ] /\ f[0] = 0 /\ \A k \in 1 .. n : f[k] = BASE * f[k - 1] + s[k]
    BY <1>3
  <2>3. Reads(w, f[n])
    BY <1>5, <2>1, <2>2, StretchRead, Zenon
  <2>. QED BY <1>3, <2>3
<1>10. Len(w) = n - first + 1 /\ w[1] = s[first]
  <2>1. n \in 1 .. n /\ n >= first /\ n \in Nat
    OBVIOUS
  <2>. QED BY <1>5, <2>1, StretchGrows, ZenonT(60)
<1>11. first # n => w[1] # 0
  <2>. SUFFICES ASSUME first # n PROVE w[1] # 0
    OBVIOUS
  <2>0. first - 1 \in 0 .. n /\ first - 1 < first /\ n - first \in 0 .. 20 /\ first >= first /\ first \in 0 .. n
    BY Rests
  <2> DEFINE q == TenTo[n - first]
  <2>1. v >= q /\ q \in Nat
    <3>1. v >= TenTo[n - first]
      BY <1>6, <2>0 DEF WrittenFrom
    <3>. QED BY <2>0, <3>1, TenToType
  <2>2. f[first] # 0
    <3>1. f[first] = 0 => v < (0 + 1) * q
      BY <1>4, <2>0
    <3>. HIDE DEF q
    <3>. QED BY <1>1, <2>1, <3>1
  <2>4. f[first] = BASE * 0 + s[first]
    BY <1>3, <1>8, <2>0
  <2>5. s[first] # 0
    BY <2>2, <2>4, Base
  <2>. HIDE DEF w
  <2>. QED BY <1>10, <2>5
<1>. HIDE DEF w
<1>12. Len(w) >= 1
  BY <1>10
<1>13. w[1] = 0 => Len(w) = 1
  BY <1>10, <1>11
<1>. QED BY <1>7, <1>9, <1>12, <1>13 DEF DecimalOf

(***************************************************************************)
(* What the functions write.                                               *)
(***************************************************************************)
LEMMA GroupsRead ==
    /\ \A n \in 0 .. (TenTo[2] - 1) : Reads(Pair(n), n)
    /\ \A n \in 0 .. (TenTo[4] - 1) : Reads(FourDigits(n), n)
    /\ \A n \in 0 .. (TenTo[8] - 1) : Reads(EightDigits(n), n)
<1>1. ASSUME NEW s, NEW m \in Nat, NEW n \in Nat, s \in Seq(Digit), Reads(<< >> \o s, m * 0 + n)
      PROVE  Reads(s, n)
  <2>1. << >> \o s = s
    BY <1>1, ConcatEmptySeq
  <2>2. m * 0 + n = n
    OBVIOUS
  <2>. QED BY <1>1, <2>1, <2>2
<1>2. TenTo[2] \in Nat /\ TenTo[4] \in Nat /\ TenTo[8] \in Nat
  BY TenToType
<1>3. ASSUME NEW n \in 0 .. (TenTo[2] - 1) PROVE Reads(Pair(n), n)
  <2>1. Reads(<< >> \o Pair(n), TenTo[2] * 0 + n)
    BY NoDigits, PairRead
  <2>2. Pair(n) \in Seq(Digit) /\ n \in Nat
    BY GroupsAre
  <2>. QED BY <1>1, <1>2, <2>1, <2>2
<1>4. ASSUME NEW n \in 0 .. (TenTo[4] - 1) PROVE Reads(FourDigits(n), n)
  <2>1. Reads(<< >> \o FourDigits(n), TenTo[4] * 0 + n)
    BY NoDigits, FourRead
  <2>2. FourDigits(n) \in Seq(Digit) /\ n \in Nat
    BY GroupsAre
  <2>. QED BY <1>1, <1>2, <2>1, <2>2
<1>5. ASSUME NEW n \in 0 .. (TenTo[8] - 1) PROVE Reads(EightDigits(n), n)
  <2>1. Reads(<< >> \o EightDigits(n), TenTo[8] * 0 + n)
    BY NoDigits, EightRead
  <2>2. EightDigits(n) \in Seq(Digit) /\ n \in Nat
    BY GroupsAre
  <2>. QED BY <1>1, <1>2, <2>1, <2>2
<1>. QED BY <1>3, <1>4, <1>5

LEMMA UpToEightWritten ==
    ASSUME NEW v \in Nat, v < TenTo[8]
    PROVE  DecimalOf(UpToEightDigits(v), v)
<1>0. TenTo[4] \in Nat /\ TenTo[8] \in Nat
  BY TenToType
<1>1. CASE v < TenTo[4]
  <2> DEFINE s == FourDigits(v)
  <2>1. v \in 0 .. (TenTo[4] - 1)
    BY <1>0, <1>1
  <2>2. Reads(s, v) /\ Len(s) = 4
    BY <2>1, GroupsRead, GroupsAre
  <2>. HIDE DEF s
  <2>3. DecimalOf(Leading(v, s, 1), v)
    <3>1. 4 \in 1 .. 20 /\ 1 \in 1 .. 4
      OBVIOUS
    <3>. QED BY <2>2, <3>1, LeadingIs
  <2>. QED BY <1>1, <2>3 DEF UpToEightDigits, s
<1>2. CASE ~(v < TenTo[4])
  <2> DEFINE s == EightDigits(v)
  <2>1. v \in 0 .. (TenTo[8] - 1)
    BY <1>0
  <2>2. Reads(s, v) /\ Len(s) = 8
    BY <2>1, GroupsRead, GroupsAre
  <2>. HIDE DEF s
  <2>3. DecimalOf(Leading(v, s, 5), v)
    <3>1. 8 \in 1 .. 20 /\ 5 \in 1 .. 8 /\ v >= TenTo[5 - 1]
      BY <1>0, <1>2
    <3>. QED BY <2>2, <3>1, LeadingIs
  <2>. QED BY <1>2, <2>3 DEF UpToEightDigits, s
<1>. QED BY <1>1, <1>2

\* A number that is not zero, before the rest of it.
Leads(h, a) == Reads(h, a) /\ Len(h) >= 1 /\ h[1] # 0

LEMMA HeadStays ==
    ASSUME NEW h \in Seq(Digit), NEW u \in Seq(Digit), Len(h) >= 1
    PROVE  Len(h \o u) >= 1 /\ (h \o u)[1] = h[1]
  OBVIOUS

LEMMA HeadWithEight ==
    ASSUME NEW h, NEW a, Leads(h, a), NEW r \in 0 .. (TenTo[8] - 1)
    PROVE  Leads(h \o EightDigits(r), TenTo[8] * a + r)
<1> DEFINE u == EightDigits(r)
<1>1. Reads(h \o u, TenTo[8] * a + r)
  BY EightRead DEF Leads
<1>2. u \in Seq(Digit) /\ h \in Seq(Digit) /\ Len(h) >= 1 /\ h[1] # 0
  BY GroupsAre, ReadsType DEF Leads
<1>. HIDE DEF u
<1>3. Len(h \o u) >= 1 /\ (h \o u)[1] = h[1]
  BY <1>2, HeadStays
<1>4. Leads(h \o u, TenTo[8] * a + r)
  BY <1>1, <1>2, <1>3 DEF Leads
<1>. QED BY <1>4 DEF u

LEMMA HeadIsDecimal == ASSUME NEW h, NEW a, Leads(h, a) PROVE DecimalOf(h, a)
  BY DEF Leads, DecimalOf

LEMMA HeadOne == ASSUME NEW a \in Digit, a # 0 PROVE Leads(<< a >>, a)
<1>1. Reads(<< >> \o << a >>, BASE * 0 + a)
  BY NoDigits, OneMore
<1>2. << >> \o << a >> = << a >>
  <2>1. << a >> \in Seq(Digit)
    BY Lists
  <2>. QED BY <2>1, ConcatEmptySeq
<1>3. BASE * 0 + a = a
  BY DigitsAre
<1>4. Reads(<< a >>, a)
  BY <1>1, <1>2, <1>3
<1>. QED BY <1>4 DEF Leads

LEMMA HeadPair ==
    ASSUME NEW a \in 0 .. (TenTo[2] - 1), a >= BASE
    PROVE  Leads(Pair(a), a)
<1>1. Reads(Pair(a), a) /\ Len(Pair(a)) = 2
  BY GroupsRead, GroupsAre
<1>2. Pair(a) = << a \div BASE, a % BASE >> /\ a \div BASE >= 1
  BY PairIs
<1>3. Pair(a)[1] # 0
  BY <1>2
<1>. QED BY <1>1, <1>3 DEF Leads

LEMMA HeadTwo ==
    ASSUME NEW a \in 0 .. (TenTo[2] - 1), a # 0
    PROVE  Leads(IF a >= BASE THEN Pair(a) ELSE << a >>, a)
<1>1. CASE a >= BASE
  BY <1>1, HeadPair
<1>2. CASE ~(a >= BASE)
  <2>1. a \in Digit
    BY <1>2, Base DEF Digit
  <2>. QED BY <1>2, <2>1, HeadOne
<1>. QED BY <1>1, <1>2

LEMMA TakenApart ==
    ASSUME NEW m \in Nat \ {0}, NEW n \in Nat \ {0}, NEW k, k = n * m, NEW v \in Nat, v < k, ~(v < m),
           NEW q, q = v \div m, NEW r, r = v % m
    PROVE  q \in 0 .. (n - 1) /\ r \in 0 .. (m - 1) /\ m * q + r = v /\ q >= 1
<1>1. /\ v \div m \in 0 .. (n - 1) /\ v % m \in 0 .. (m - 1)
      /\ v = (v \div m) * m + (v % m) /\ (v >= m) = (v \div m >= 1)
  BY DividedOff
<1>2. q \in 0 .. (n - 1) /\ r \in 0 .. (m - 1) /\ v = q * m + r /\ (v >= m) = (q >= 1)
  BY <1>1
<1>3. q * m = m * q
  BY <1>2
<1>. QED BY <1>2, <1>3

LEMMA u32toaWritten ==
    ASSUME NEW v \in Nat, v < TenTo[10]
    PROVE  DecimalOf(u32toa(v), v)
<1>1. CASE v < TenTo[8]
  BY <1>1, UpToEightWritten DEF u32toa
<1>2. CASE ~(v < TenTo[8])
  <2> DEFINE a == v \div TenTo[8]
             r == v % TenTo[8]
             h == IF a >= BASE THEN Pair(a) ELSE << a >>
  <2>1. TenTo[2] \in Nat \ {0} /\ TenTo[8] \in Nat \ {0}
    BY TenToType
  <2>2. a \in 0 .. (TenTo[2] - 1) /\ r \in 0 .. (TenTo[8] - 1) /\ TenTo[8] * a + r = v /\ a >= 1
    <3>1. TenTo[10] = TenTo[2] * TenTo[8]
      BY TenToProducts
    <3>. QED BY <1>2, <2>1, <3>1, TakenApart
  <2>3. u32toa(v) = h \o EightDigits(r)
    BY <1>2 DEF u32toa
  <2>. HIDE DEF a, r
  <2>4. Leads(h, a)
    BY <2>2, HeadTwo
  <2>. HIDE DEF h
  <2>5. Leads(h \o EightDigits(r), TenTo[8] * a + r)
    BY <2>2, <2>4, HeadWithEight
  <2>. QED BY <2>2, <2>3, <2>5, HeadIsDecimal
<1>. QED BY <1>1, <1>2

LEMMA HeadThree ==
    ASSUME NEW a \in Digit, a # 0, NEW b \in 0 .. (TenTo[2] - 1)
    PROVE  Leads(<< a >> \o Pair(b), TenTo[2] * a + b)
<1> DEFINE h == << a >>
           u == Pair(b)
<1>1. Reads(h, a) /\ Len(h) = 1 /\ h[1] = a /\ h \in Seq(Digit)
  <2>1. Leads(h, a)
    BY HeadOne
  <2>2. h \in Seq(Digit)
    BY Lists
  <2>. QED BY <2>1, <2>2 DEF Leads
<1>2. u \in Seq(Digit)
  BY GroupsAre
<1>. HIDE DEF h
<1>3. Reads(h \o u, TenTo[2] * a + b)
  BY <1>1, PairRead
<1>. HIDE DEF u
<1>4. Len(h \o u) >= 1 /\ (h \o u)[1] = a
  <2>1. Len(h) >= 1
    BY <1>1
  <2>. QED BY <1>1, <1>2, <2>1, HeadStays
<1>5. Leads(h \o u, TenTo[2] * a + b)
  BY <1>3, <1>4 DEF Leads
<1>. QED BY <1>5 DEF h, u

LEMMA HeadFour ==
    ASSUME NEW a \in 0 .. (TenTo[2] - 1), a >= BASE, NEW b \in 0 .. (TenTo[2] - 1)
    PROVE  Leads(Pair(a) \o Pair(b), TenTo[2] * a + b)
<1> DEFINE h == Pair(a)
           u == Pair(b)
<1>1. Reads(h, a) /\ Len(h) >= 1 /\ h[1] # 0
  BY HeadPair DEF Leads
<1>2. u \in Seq(Digit) /\ h \in Seq(Digit)
  BY GroupsAre
<1>. HIDE DEF h
<1>3. Reads(h \o u, TenTo[2] * a + b)
  BY <1>1, PairRead
<1>. HIDE DEF u
<1>4. Len(h \o u) >= 1 /\ (h \o u)[1] = h[1]
  BY <1>1, <1>2, HeadStays
<1>5. Leads(h \o u, TenTo[2] * a + b)
  BY <1>1, <1>3, <1>4 DEF Leads
<1>. QED BY <1>5 DEF h, u

LEMMA HeadTop ==
    ASSUME NEW a \in 0 .. (TenTo[4] - 1), a # 0
    PROVE  Leads(TopOf(a), a)
<1>1. /\ BASE \in Nat \ {0, 1} /\ TenTo[2] \in Nat \ {0} /\ TenTo[3] \in Nat \ {0} /\ TenTo[4] \in Nat
  BY Base, TenToType
<1>2. CASE a < BASE
  <2>1. a \in Digit
    BY <1>1, <1>2 DEF Digit
  <2>2. TopOf(a) = << a >>
    <3>1. ~(a >= BASE) /\ ~(a >= TenTo[2])
      <4>1. BASE <= TenTo[2]
        BY TenToGrows, TenToType
      <4>. QED BY <1>1, <1>2, <4>1
    <3>. QED BY <1>2, <3>1 DEF TopOf
  <2>. QED BY <2>1, <2>2, HeadOne
<1>3. CASE a >= BASE /\ a < TenTo[2]
  <2>1. a \in 0 .. (TenTo[2] - 1)
    BY <1>1, <1>3
  <2>2. TopOf(a) = Pair(a)
    BY <1>1, <1>3 DEF TopOf
  <2>. QED BY <1>3, <2>1, <2>2, HeadPair
<1>4. CASE a >= TenTo[2]
  <2> DEFINE b == a \div TenTo[2]
             c == a % TenTo[2]
  <2>1. b \in 0 .. (TenTo[2] - 1) /\ c \in 0 .. (TenTo[2] - 1) /\ TenTo[2] * b + c = a /\ b >= 1
    <3>1. TenTo[4] = TenTo[2] * TenTo[2]
      BY TenToProducts
    <3>2. a \in Nat /\ a < TenTo[4] /\ ~(a < TenTo[2])
      BY <1>1, <1>4
    <3>. QED BY <1>1, <3>1, <3>2, TakenApart
  <2>2. ~(a < BASE) /\ ~(a < TenTo[2])
    <3>1. BASE <= TenTo[2]
      BY TenToGrows, TenToType
    <3>. QED BY <1>1, <1>4, <3>1
  <2>3. b < BASE <=> a < TenTo[3]
    <3>1. TenTo[3] = BASE * TenTo[2]
      BY TenToProducts
    <3> DEFINE m == TenTo[2]
    <3>2. m \in Nat \ {0} /\ b \in Nat /\ c \in 0 .. (m - 1) /\ m * b + c = a
      BY <1>1, <2>1
    <3>. HIDE DEF b, c, m
    <3>3. b < BASE => b * m + m <= BASE * m
      BY <1>1, <3>2, Multiples
    <3>4. BASE <= b => BASE * m <= b * m
      BY <1>1, <3>2, Ordered
    <3>5. m * b = b * m /\ b * m \in Nat /\ BASE * m \in Nat
      BY <1>1, <3>2
    <3> DEFINE p == b * m
               q == BASE * m
    <3>6. p \in Nat /\ q \in Nat /\ p + c = a /\ (b < BASE => p + m <= q) /\ (BASE <= b => q <= p) /\ TenTo[3] = q
      BY <3>1, <3>2, <3>3, <3>4, <3>5 DEF m
    <3>. HIDE DEF p, q
    <3>. QED BY <1>1, <3>2, <3>6
  <2>4. CASE a < TenTo[3]
    <3>1. TopOf(a) = << b >> \o Pair(c)
      BY <1>1, <1>4, <2>2, <2>4 DEF TopOf
    <3>. HIDE DEF b, c
    <3>2. b \in Digit /\ b # 0
      BY <1>1, <2>1, <2>3, <2>4 DEF Digit
    <3>3. Leads(<< b >> \o Pair(c), TenTo[2] * b + c)
      BY <2>1, <3>2, HeadThree
    <3>. QED BY <2>1, <3>1, <3>3
  <2>5. CASE ~(a < TenTo[3])
    <3>1. TopOf(a) = Pair(b) \o Pair(c)
      BY <1>1, <1>4, <2>2, <2>5 DEF TopOf
    <3>. HIDE DEF b, c
    <3>2. b >= BASE
      BY <1>1, <2>1, <2>3, <2>5
    <3>3. Leads(Pair(b) \o Pair(c), TenTo[2] * b + c)
      BY <2>1, <3>2, HeadFour
    <3>. QED BY <2>1, <3>1, <3>3
  <2>. QED BY <2>4, <2>5
<1>. QED BY <1>1, <1>2, <1>3, <1>4

LEMMA QuotientIs ==
    ASSUME NEW m \in Nat \ {0}, NEW x \in Nat
    PROVE  x \div m \in Int /\ x % m \in 0 .. (m - 1) /\ x = (x \div m) * m + (x % m)
  OBVIOUS

LEMMA u64toaWritten ==
    ASSUME NEW v \in Nat, v \div TenTo[16] < TenTo[4]
    PROVE  DecimalOf(u64toa(v), v)
<1>0. TenTo[8] \in Nat \ {0} /\ TenTo[16] \in Nat \ {0} /\ TenTo[4] \in Nat \ {0} /\ TenTo[16] = TenTo[8] * TenTo[8]
  BY TenToType, TenToProducts
<1>1. CASE v < TenTo[8]
  BY <1>1, UpToEightWritten DEF u64toa
<1>2. CASE ~(v < TenTo[8]) /\ v < TenTo[16]
  <2> DEFINE a == v \div TenTo[8]
             r == v % TenTo[8]
             s == EightDigits(a) \o EightDigits(r)
  <2>1. a \in 0 .. (TenTo[8] - 1) /\ r \in 0 .. (TenTo[8] - 1) /\ TenTo[8] * a + r = v
    BY <1>0, <1>2, TakenApart
  <2>. HIDE DEF a, r
  <2>2. Reads(s, v)
    <3>1. Reads(EightDigits(a), a)
      BY <2>1, GroupsRead
    <3>. QED BY <2>1, <3>1, EightRead
  <2>3. Len(s) = 16
    <3> DEFINE p == EightDigits(a)
               q == EightDigits(r)
    <3>1. p \in Seq(Digit) /\ Len(p) = 8 /\ q \in Seq(Digit) /\ Len(q) = 8
      BY <2>1, GroupsAre
    <3>. HIDE DEF p, q
    <3>2. Len(p \o q) = Len(p) + Len(q)
      BY <3>1, ConcatProperties
    <3>3. Len(p \o q) = 16
      BY <3>1, <3>2
    <3>. QED BY <3>3 DEF p, q
  <2>. HIDE DEF s
  <2>4. DecimalOf(Leading(v, s, 9), v)
    <3>1. 16 \in 1 .. 20 /\ 9 \in 1 .. 16 /\ v >= TenTo[9 - 1]
      BY <1>0, <1>2
    <3>. QED BY <2>2, <2>3, <3>1, LeadingIs
  <2>. QED BY <1>2, <2>4 DEF u64toa, s, a, r
<1>3. CASE ~(v < TenTo[8]) /\ ~(v < TenTo[16])
  <2> DEFINE a == v \div TenTo[16]
             low == v % TenTo[16]
             b == low \div TenTo[8]
             c == low % TenTo[8]
             h == TopOf(a)
  <2>1. a \in 0 .. (TenTo[4] - 1) /\ low \in 0 .. (TenTo[16] - 1) /\ TenTo[16] * a + low = v /\ a >= 1
    <3> DEFINE m == TenTo[16]
    <3>1. a \in Int /\ low \in 0 .. (m - 1) /\ v = a * m + low
      BY <1>0, QuotientIs
    <3>2. m \in Nat \ {0} /\ m <= v /\ TenTo[4] \in Nat /\ a < TenTo[4]
      BY <1>0, <1>3
    <3>. HIDE DEF a, low, m
    <3>3. a < 1 => a * m + m <= 1 * m
      BY <3>1, <3>2, Multiples
    <3>4. a * m \in Int /\ 1 * m = m /\ m * a = a * m
      BY <3>1, <3>2
    <3> DEFINE p == a * m
    <3>5. p \in Int /\ v = p + low /\ (a < 1 => p + m <= m)
      BY <3>1, <3>3, <3>4
    <3>6. a >= 1
      <4>. HIDE DEF p
      <4>. QED BY <3>1, <3>2, <3>5
    <3>. QED BY <3>1, <3>2, <3>4, <3>6 DEF m
  <2>2. /\ b \in 0 .. (TenTo[8] - 1) /\ c \in 0 .. (TenTo[8] - 1) /\ TenTo[8] * (TenTo[8] * a + b) + c = TenTo[16] * a + low
    <3>1. a \in Nat /\ low \in Nat
      BY <2>1
    <3>. HIDE DEF a, low
    <3>2. b \in 0 .. (TenTo[8] - 1) /\ c \in 0 .. (TenTo[8] - 1) /\ low < TenTo[8] * TenTo[8]
      BY <1>0, <2>1, Halves, ZenonT(60)
    <3>3. TenTo[8] * (TenTo[8] * a + b) + c = (TenTo[8] * TenTo[8]) * a + low
      BY <1>0, <3>1, <3>2, TwoGroups, ZenonT(60)
    <3>. QED BY <1>0, <3>2, <3>3
  <2>3. u64toa(v) = h \o EightDigits(b) \o EightDigits(c)
    BY <1>3 DEF u64toa
  <2>. HIDE DEF a, low, b, c
  <2>4. Leads(h, a)
    BY <2>1, HeadTop
  <2>. HIDE DEF h
  <2>5. Leads(h \o EightDigits(b), TenTo[8] * a + b)
    BY <2>2, <2>4, HeadWithEight
  <2>6. Leads((h \o EightDigits(b)) \o EightDigits(c), TenTo[8] * (TenTo[8] * a + b) + c)
    BY <2>2, <2>5, HeadWithEight
  <2>. QED BY <2>1, <2>2, <2>3, <2>6, HeadIsDecimal
<1>. QED BY <1>1, <1>2, <1>3

\* Without a leading zero there are no more digits than the number needs.
LEMMA NoMoreDigits ==
    ASSUME NEW w, NEW v, DecimalOf(w, v), NEW room \in 1 .. 20, v < TenTo[room]
    PROVE  Len(w) <= room
<1>1. w \in Seq(Digit) /\ v \in Nat /\ Len(w) \in Nat /\ Len(w) >= 1 /\ (w[1] = 0 => Len(w) = 1)
  <2>1. w \in Seq(Digit) /\ v \in Nat
    BY ReadsType DEF DecimalOf
  <2>. QED BY <2>1 DEF DecimalOf
<1>2. PICK f : Reading(f, w, v)
  BY DEF DecimalOf, Reads
<1>3. PICK n \in Nat \ {0} : n = Len(w)
  BY <1>1
<1>4. f \in [ 0 .. n -> Nat ] /\ f[0] = 0 /\ f[n] = v /\ \A k \in 1 .. n : f[k] = BASE * f[k - 1] + w[k]
  BY <1>2, <1>3 DEF Reading
<1>5. \A k \in 1 .. n : w[k] \in Nat
  <2>1. \A k \in 1 .. n : w[k] \in Digit
    BY <1>1, <1>3, ElementOfSeq
  <2>. QED BY <2>1, DigitsAre
<1>6. CASE n = 1
  BY <1>3, <1>6
<1>7. CASE n # 1
  <2> DEFINE M(k) == IF k <= room THEN TenTo[k] ELSE TenTo[room]
             S == { k \in 0 .. (n - 1) : f[k + 1] >= M(k) }
  <2>0. \A k \in Nat : M(k) \in Nat /\ M(k + 1) <= BASE * M(k)
    <3>. SUFFICES ASSUME NEW k \in Nat PROVE M(k) \in Nat /\ M(k + 1) <= BASE * M(k)
      OBVIOUS
    <3>1. CASE k < room
      <4>1. k \in 0 .. 20 /\ k \in 0 .. 19 /\ k + 1 \in 0 .. 20 /\ k <= room /\ k + 1 <= room
        BY <3>1
      <4>2. TenTo[k + 1] = BASE * TenTo[k] /\ TenTo[k] \in Nat /\ TenTo[k + 1] \in Nat
        BY <4>1, TenToType
      <4>3. M(k) = TenTo[k] /\ M(k + 1) = TenTo[k + 1]
        BY <4>1
      <4>. HIDE DEF M
      <4>. QED BY <4>2, <4>3
    <3>2. CASE ~(k < room)
      <4>1. M(k) = TenTo[room] /\ M(k + 1) = TenTo[room]
        BY <3>2
      <4>2. TenTo[room] \in Nat
        BY TenToType
      <4>3. \A x \in Nat : x <= BASE * x
        BY Base
      <4>. HIDE DEF M
      <4>. QED BY <4>1, <4>2, <4>3
    <3>. QED BY <3>1, <3>2
  <2>00. M(0) = 1 /\ (\A k \in Nat : k >= room => M(k) = TenTo[room])
    BY TenToType
  <2>. HIDE DEF M
  <2>1. 0 \in S
    <3>1. f[1] = BASE * f[1 - 1] + w[1] /\ w[1] # 0 /\ w[1] \in Nat /\ 1 - 1 = 0
      BY <1>1, <1>3, <1>4, <1>5, <1>7
    <3>2. f[1] >= 1
      BY <1>4, <3>1, Base
    <3>. QED BY <2>00, <3>2
  <2>2. ASSUME NEW k \in 0 .. ((n - 1) - 1), k \in S PROVE k + 1 \in S
    <3>1. k \in Nat /\ k + 1 \in 0 .. (n - 1) /\ (k + 1) + 1 \in 1 .. n /\ ((k + 1) + 1) - 1 = k + 1 /\ k + 1 \in 0 .. n
      OBVIOUS
    <3>2. f[(k + 1) + 1] = BASE * f[k + 1] + w[(k + 1) + 1] /\ w[(k + 1) + 1] \in Nat /\ f[k + 1] \in Nat
      BY <1>4, <1>5, <3>1
    <3>3. f[k + 1] >= M(k) /\ M(k) \in Nat /\ M(k + 1) <= BASE * M(k) /\ M(k + 1) \in Nat
      BY <2>0, <2>2, <3>1
    <3>4. f[(k + 1) + 1] >= M(k + 1)
      <4> DEFINE x == f[k + 1]
                 e == w[(k + 1) + 1]
                 p == M(k)
                 q == M(k + 1)
                 z == f[(k + 1) + 1]
      <4>1. z = BASE * x + e /\ x \in Nat /\ e \in Nat /\ p \in Nat /\ q \in Nat /\ p <= x /\ q <= BASE * p
        BY <3>2, <3>3
      <4>. HIDE DEF x, e, z, p, q
      <4>2. p * BASE <= x * BASE
        BY <4>1, Base, Ordered
      <4>3. BASE * p = p * BASE /\ BASE * x = x * BASE /\ p * BASE \in Nat /\ x * BASE \in Nat
        BY <4>1, Base
      <4>4. z >= q
        BY <4>1, <4>2, <4>3
      <4>. QED BY <4>4 DEF z, q
    <3>. QED BY <3>1, <3>4
  <2>3. 0 .. (n - 1) \subseteq S
    <3>1. n - 1 \in Nat /\ \A k \in 0 .. ((n - 1) - 1) : k \in S => k + 1 \in S
      BY <2>2
    <3>. HIDE DEF S
    <3>. QED BY <2>1, <3>1, FromZero
  <2>4. f[(n - 1) + 1] >= M(n - 1) /\ (n - 1) + 1 = n /\ n - 1 \in Nat
    <3>1. n - 1 \in S
      <4>. HIDE DEF S
      <4>. QED BY <2>3
    <3>. QED BY <3>1
  <2>5. n - 1 >= room => v >= TenTo[room]
    BY <1>4, <2>00, <2>4
  <2>6. TenTo[room] \in Nat
    BY TenToType
  <2>7. ~(n - 1 >= room)
    BY <1>1, <2>5, <2>6
  <2>. QED BY <1>3, <2>7
<1>. QED BY <1>6, <1>7

(***************************************************************************)
(* What is written for an integer.                                         *)
(***************************************************************************)
LEMMA NegatedIs ==
    ASSUME NEW values \in Nat, NEW n \in Int, n < 0, 2 * n >= -values
    PROVE  Negated(n, values) = -n /\ -n \in Nat /\ -n < values
<1>1. values \in Nat \ {0} /\ -n \in 0 .. (values - 1)
  OBVIOUS
<1>2. values - 1 - (n + values) + 1 = -n
  OBVIOUS
<1>3. \A x \in 0 .. (values - 1) : x % values = x
  BY <1>1
<1>. QED BY <1>1, <1>2, <1>3 DEF Negated

LEMMA DecimalFacts ==
    ASSUME NEW d, NEW m, DecimalOf(d, m)
    PROVE  /\ d \in Seq(Digit) /\ Len(d) >= 1 /\ d[1] # Minus
           /\ ValueOf(d) = m /\ (d[1] = 0 => Len(d) = 1)
           /\ \A k \in DOMAIN d : d[k] \in 0 .. (BASE - 1)
<1>1. Reads(d, m) /\ Len(d) >= 1 /\ (d[1] = 0 => Len(d) = 1)
  BY DEF DecimalOf
<1>2. d \in Seq(Digit)
  BY <1>1, ReadsType
<1>3. \A k \in DOMAIN d : d[k] \in Digit
  BY <1>2
<1>4. d[1] # Minus
  <2>1. d[1] \in Digit
    BY <1>1, <1>2, <1>3
  <2>. QED BY <2>1, DigitsAre DEF Minus
<1>. QED BY <1>1, <1>2, <1>3, <1>4, ValueIs DEF Digit

\* The property, of the characters w for the number n.
WrittenInDecimal(w, n, room) ==
    /\ (w[1] = Minus) = (n < 0)
    /\ ValueOf(DigitsOf(w)) = (IF n < 0 THEN -n ELSE n)
    /\ \A k \in DOMAIN DigitsOf(w) : DigitsOf(w)[k] \in 0 .. (BASE - 1)
    /\ DigitsOf(w)[1] = 0 => Len(DigitsOf(w)) = 1
    /\ Len(w) <= room

LEMMA Unsigned ==
    ASSUME NEW n \in Nat, NEW d, DecimalOf(d, n), NEW room \in 1 .. 20, n < TenTo[room]
    PROVE  WrittenInDecimal(d, n, room)
<1>1. DigitsOf(d) = d
  BY DecimalFacts DEF DigitsOf
<1>2. (d[1] = Minus) = (n < 0)
  BY DecimalFacts
<1>3. Len(d) <= room
  BY NoMoreDigits
<1>. QED BY <1>1, <1>2, <1>3, DecimalFacts DEF WrittenInDecimal

LEMMA Signed ==
    ASSUME NEW n \in Int, n < 0, NEW d, DecimalOf(d, -n), NEW room \in 1 .. 20, -n < TenTo[room]
    PROVE  WrittenInDecimal(<< Minus >> \o d, n, room + 1)
<1> DEFINE w == << Minus >> \o d
<1>1. d \in Seq(Int) /\ << Minus >> \in Seq(Int) /\ Len(d) \in Nat
  <2>1. d \in Seq(Digit) /\ Digit \subseteq Int
    BY DecimalFacts, DigitsAre
  <2>2. Minus \in Int
    BY DEF Minus
  <2>3. << Minus >> \in Seq(Int)
    BY <2>2
  <2>4. Len(d) \in Nat /\ \A k \in 1 .. Len(d) : d[k] \in Int
    <3>1. d \in Seq(Digit) /\ Len(d) \in Nat
      BY <2>1
    <3>2. \A k \in 1 .. Len(d) : d[k] \in Digit
      BY <3>1, ElementOfSeq
    <3>3. Digit \subseteq Int
      BY <2>1
    <3>. QED BY <3>1, <3>2, <3>3
  <2>5. d \in [ 1 .. Len(d) -> Int ]
    <3>1. d \in [ 1 .. Len(d) -> Digit ]
      BY <2>1, LenProperties
    <3>. QED BY <2>4, <3>1
  <2>6. d \in Seq(Int)
    BY <2>4, <2>5
  <2>. QED BY <2>3, <2>4, <2>6
<1>2. w \in Seq(Int) /\ Len(w) = Len(d) + 1 /\ w[1] = Minus /\ \A k \in 1 .. Len(d) : w[k + 1] = d[k]
  <2> DEFINE s == << Minus >>
  <2>1. s \in Seq(Int) /\ Len(s) = 1 /\ s[1] = Minus
    BY <1>1
  <2>2. w = s \o d
    OBVIOUS
  <2>. HIDE DEF w, s
  <2>3. /\ s \o d \in Seq(Int) /\ Len(s \o d) = Len(s) + Len(d)
        /\ \A i \in 1 .. Len(s) + Len(d) : (s \o d)[i] = IF i <= Len(s) THEN s[i] ELSE d[i - Len(s)]
    BY <1>1, <2>1, ConcatProperties
  <2>4. w \in Seq(Int) /\ Len(w) = Len(d) + 1
    BY <1>1, <2>1, <2>2, <2>3
  <2>5. w[1] = Minus
    <3>1. 1 \in 1 .. Len(s) + Len(d) /\ 1 <= Len(s)
      BY <1>1, <2>1
    <3>. QED BY <2>1, <2>2, <2>3, <3>1
  <2>6. \A k \in 1 .. Len(d) : w[k + 1] = d[k]
    <3>. SUFFICES ASSUME NEW k \in 1 .. Len(d) PROVE w[k + 1] = d[k]
      OBVIOUS
    <3>1. k + 1 \in 1 .. Len(s) + Len(d) /\ ~(k + 1 <= Len(s)) /\ (k + 1) - Len(s) = k
      BY <1>1, <2>1
    <3>2. (s \o d)[k + 1] = d[(k + 1) - Len(s)]
      BY <2>3, <3>1
    <3>. QED BY <2>2, <3>1, <3>2
  <2>. QED BY <2>4, <2>5, <2>6
<1>. HIDE DEF w
<1>3. Tail(w) = d
  <2>1. Tail(w) \in Seq(Int) /\ Len(Tail(w)) = Len(d) /\ \A k \in 1 .. Len(d) : Tail(w)[k] = w[k + 1]
    BY <1>1, <1>2
  <2>2. \A k \in 1 .. Len(d) : Tail(w)[k] = d[k]
    BY <1>2, <2>1
  <2>. QED BY <1>1, <2>1, <2>2, SeqEqual
<1>4. DigitsOf(w) = d
  BY <1>2, <1>3 DEF DigitsOf
<1>5. Len(w) <= room + 1
  <2>1. Len(d) <= room
    BY NoMoreDigits
  <2>. QED BY <1>1, <1>2, <2>1
<1>6. WrittenInDecimal(w, n, room + 1)
  BY <1>2, <1>4, <1>5, DecimalFacts DEF WrittenInDecimal
<1>. QED BY <1>6 DEF w

LEMMA Widths ==
    /\ UINT32_VALUES \in Nat /\ UINT32_VALUES <= TenTo[10] /\ TenTo[10] \in Nat
    /\ UINT64_VALUES \in Nat /\ UINT64_VALUES \div TenTo[16] < TenTo[4]
    /\ \A v \in Nat : v < UINT64_VALUES => v \div TenTo[16] < TenTo[4]
<1>1. /\ UINT32_VALUES \in Nat /\ UINT32_VALUES <= TenTo[10] /\ TenTo[10] \in Nat
      /\ UINT64_VALUES \in Nat /\ UINT64_VALUES \div TenTo[16] < TenTo[4]
  BY JsonNumbersAssumption, TenToType
<1>2. TenTo[16] \in Nat \ {0} /\ TenTo[4] \in Nat
  BY TenToType
<1>3. ASSUME NEW m \in Nat \ {0}, NEW x \in Nat, NEW e \in Nat, x < e
      PROVE  x \div m <= e \div m
  <2> DEFINE q == x \div m
             r == x % m
             a == e \div m
             b == e % m
  <2>1. q \in Int /\ r \in 0 .. (m - 1) /\ x = q * m + r /\ a \in Int /\ b \in 0 .. (m - 1) /\ e = a * m + b
    BY <1>3, QuotientIs
  <2>. HIDE DEF q, r, a, b
  <2>2. a < q => a * m + m <= q * m
    BY <2>1, Multiples
  <2> DEFINE c == a * m
             d == q * m
  <2>3. c \in Int /\ d \in Int /\ x = d + r /\ e = c + b /\ (a < q => c + m <= d)
    BY <2>1, <2>2
  <2>4. ~(a < q)
    <3>. HIDE DEF c, d
    <3>. QED BY <1>3, <2>1, <2>3
  <2>5. q <= a
    BY <2>1, <2>4
  <2>. QED BY <2>5 DEF q, a
<1>4. ASSUME NEW v \in Nat, v < UINT64_VALUES PROVE v \div TenTo[16] < TenTo[4]
  <2> DEFINE q == v \div TenTo[16]
             a == UINT64_VALUES \div TenTo[16]
  <2>1. q <= a
    BY <1>1, <1>2, <1>3, <1>4
  <2>2. q \in Int /\ a \in Int /\ a < TenTo[4]
    BY <1>1, <1>2, QuotientIs
  <2>. HIDE DEF q, a
  <2>3. q < TenTo[4]
    BY <1>2, <2>1, <2>2
  <2>. QED BY <2>3 DEF q
<1>. QED BY <1>1, <1>4

Calls == { "WriteInt", "WriteUint", "WriteInt64", "WriteUint64" }

\* The inductive invariant: the number is one that its call is given, and what is written is its text.
NumberInv ==
    /\ number.call \in Calls /\ number.value \in NumbersOf(number.call)
    /\ written = << >> \/ written = TextOf(number)

LEMMA NumbersAre ==
    /\ \A n \in NumbersOf("WriteInt") : n \in Int /\ 2 * n >= -UINT32_VALUES /\ n < UINT32_VALUES
    /\ \A n \in NumbersOf("WriteUint") : n \in Nat /\ n < UINT32_VALUES
    /\ \A n \in NumbersOf("WriteInt64") : n \in Int /\ 2 * n >= -UINT64_VALUES /\ n < UINT64_VALUES
    /\ \A n \in NumbersOf("WriteUint64") : n \in Nat /\ n < UINT64_VALUES
<1>1. /\ \A n \in Numbers32 : n \in Int /\ 2 * n >= -UINT32_VALUES /\ n < UINT32_VALUES
      /\ \A n \in Numbers64 : n \in Int /\ n >= -(UINT64_VALUES \div 2) /\ n < UINT64_VALUES
      /\ UINT64_VALUES \in Nat
  BY JsonNumbersAssumption
<1>2. \A n \in Numbers64 : 2 * n >= -UINT64_VALUES
  BY <1>1
<1>. QED BY <1>1, <1>2 DEF NumbersOf

LEMMA RoomIs ==
    /\ ROOM["WriteUint"] \in 1 .. 20 /\ UINT32_VALUES <= TenTo[ROOM["WriteUint"]]
    /\ \E room \in 1 .. 20 : ROOM["WriteInt"] = room + 1 /\ UINT32_VALUES <= TenTo[room]
    /\ ROOM["WriteUint64"] \in 1 .. 20 /\ UINT64_VALUES <= TenTo[ROOM["WriteUint64"]]
    /\ \E room \in 1 .. 20 : ROOM["WriteInt64"] = room + 1 /\ UINT64_VALUES <= TenTo[room]
<1>1. /\ ROOM["WriteUint"] \in 1 .. 20 /\ UINT32_VALUES <= TenTo[ROOM["WriteUint"]]
      /\ ROOM["WriteUint64"] \in 1 .. 20 /\ UINT64_VALUES <= TenTo[ROOM["WriteUint64"]]
  BY JsonNumbersAssumption DEF MAX_DIGITS
<1>2. ROOM["WriteInt"] \in Nat /\ ROOM["WriteInt64"] \in Nat
  BY JsonNumbersAssumption
<1>3. /\ ROOM["WriteInt"] - 1 \in 1 .. 20 /\ UINT32_VALUES <= TenTo[ROOM["WriteInt"] - 1]
      /\ ROOM["WriteInt64"] - 1 \in 1 .. 20 /\ UINT64_VALUES <= TenTo[ROOM["WriteInt64"] - 1]
  BY JsonNumbersAssumption DEF MAX_DIGITS
<1>4. ROOM["WriteInt"] = (ROOM["WriteInt"] - 1) + 1 /\ ROOM["WriteInt64"] = (ROOM["WriteInt64"] - 1) + 1
  BY <1>2
<1>. QED BY <1>1, <1>3, <1>4

LEMMA Below ==
    ASSUME NEW n \in Nat, NEW values \in Nat, n < values, NEW room \in 1 .. 20, values <= TenTo[room]
    PROVE  n < TenTo[room]
  BY TenToType

LEMMA UintWritten ==
    ASSUME NEW n \in Nat, n < UINT32_VALUES, NEW room \in 1 .. 20, UINT32_VALUES <= TenTo[room]
    PROVE  DecimalOf(u32toa(n), n) /\ n < TenTo[room]
<1>1. n < TenTo[10]
  BY Widths
<1>. QED BY <1>1, u32toaWritten, Below, Widths

LEMMA Uint64Written ==
    ASSUME NEW n \in Nat, n < UINT64_VALUES, NEW room \in 1 .. 20, UINT64_VALUES <= TenTo[room]
    PROVE  DecimalOf(u64toa(n), n) /\ n < TenTo[room]
  BY u64toaWritten, Below, Widths

LEMMA IntWritten ==
    ASSUME NEW n \in Int, 2 * n >= -UINT32_VALUES, n < UINT32_VALUES, NEW room \in 1 .. 20, UINT32_VALUES <= TenTo[room]
    PROVE  WrittenInDecimal(i32toa(n), n, room + 1)
<1>1. CASE n < 0
  <2>1. Negated(n, UINT32_VALUES) = -n /\ -n \in Nat /\ -n < UINT32_VALUES
    BY <1>1, NegatedIs, Widths
  <2>2. DecimalOf(u32toa(-n), -n) /\ -n < TenTo[room]
    BY <2>1, UintWritten
  <2>3. i32toa(n) = << Minus >> \o u32toa(-n)
    BY <1>1, <2>1 DEF i32toa
  <2>. QED BY <1>1, <2>2, <2>3, Signed
<1>2. CASE ~(n < 0)
  <2>1. n \in Nat
    BY <1>2
  <2>2. DecimalOf(u32toa(n), n) /\ n < TenTo[room]
    BY <2>1, UintWritten
  <2>3. WrittenInDecimal(u32toa(n), n, room)
    BY <2>1, <2>2, Unsigned
  <2>4. Len(u32toa(n)) \in Nat /\ Len(u32toa(n)) <= room
    <3>1. u32toa(n) \in Seq(Digit)
      BY <2>2, DecimalFacts
    <3>2. Len(u32toa(n)) \in Nat
      BY <3>1, LenProperties
    <3>. QED BY <2>3, <3>2 DEF WrittenInDecimal
  <2>5. Len(u32toa(n)) <= room + 1
    BY <2>4
  <2>6. WrittenInDecimal(u32toa(n), n, room + 1)
    BY <2>3, <2>5 DEF WrittenInDecimal
  <2>. QED BY <1>2, <2>6 DEF i32toa
<1>. QED BY <1>1, <1>2

LEMMA Int64Written ==
    ASSUME NEW n \in Int, 2 * n >= -UINT64_VALUES, n < UINT64_VALUES, NEW room \in 1 .. 20, UINT64_VALUES <= TenTo[room]
    PROVE  WrittenInDecimal(i64toa(n), n, room + 1)
<1>1. CASE n < 0
  <2>1. Negated(n, UINT64_VALUES) = -n /\ -n \in Nat /\ -n < UINT64_VALUES
    BY <1>1, NegatedIs, Widths
  <2>2. DecimalOf(u64toa(-n), -n) /\ -n < TenTo[room]
    BY <2>1, Uint64Written
  <2>3. i64toa(n) = << Minus >> \o u64toa(-n)
    BY <1>1, <2>1 DEF i64toa
  <2>. QED BY <1>1, <2>2, <2>3, Signed
<1>2. CASE ~(n < 0)
  <2>1. n \in Nat
    BY <1>2
  <2>2. DecimalOf(u64toa(n), n) /\ n < TenTo[room]
    BY <2>1, Uint64Written
  <2>3. WrittenInDecimal(u64toa(n), n, room)
    BY <2>1, <2>2, Unsigned
  <2>4. Len(u64toa(n)) \in Nat /\ Len(u64toa(n)) <= room
    <3>1. u64toa(n) \in Seq(Digit)
      BY <2>2, DecimalFacts
    <3>2. Len(u64toa(n)) \in Nat
      BY <3>1, LenProperties
    <3>. QED BY <2>3, <3>2 DEF WrittenInDecimal
  <2>5. Len(u64toa(n)) <= room + 1
    BY <2>4
  <2>6. WrittenInDecimal(u64toa(n), n, room + 1)
    BY <2>3, <2>5 DEF WrittenInDecimal
  <2>. QED BY <1>2, <2>6 DEF i64toa
<1>. QED BY <1>1, <1>2

LEMMA TextIsDecimal ==
    ASSUME number.call \in Calls, number.value \in NumbersOf(number.call)
    PROVE  WrittenInDecimal(TextOf(number), number.value, ROOM[number.call])
<1> DEFINE n == number.value
<1>1. CASE number.call = "WriteInt"
  <2>1. n \in Int /\ 2 * n >= -UINT32_VALUES /\ n < UINT32_VALUES
    BY <1>1, NumbersAre
  <2>2. PICK room \in 1 .. 20 : ROOM["WriteInt"] = room + 1 /\ UINT32_VALUES <= TenTo[room]
    BY RoomIs
  <2>3. WrittenInDecimal(i32toa(n), n, room + 1)
    BY <2>1, <2>2, IntWritten
  <2>. QED BY <1>1, <2>2, <2>3 DEF TextOf
<1>2. CASE number.call = "WriteUint"
  <2>1. n \in Nat /\ n < UINT32_VALUES
    BY <1>2, NumbersAre
  <2>2. WrittenInDecimal(u32toa(n), n, ROOM["WriteUint"])
    BY <2>1, RoomIs, UintWritten, Unsigned
  <2>. QED BY <1>2, <2>2 DEF TextOf
<1>3. CASE number.call = "WriteInt64"
  <2>1. n \in Int /\ 2 * n >= -UINT64_VALUES /\ n < UINT64_VALUES
    BY <1>3, NumbersAre
  <2>2. PICK room \in 1 .. 20 : ROOM["WriteInt64"] = room + 1 /\ UINT64_VALUES <= TenTo[room]
    BY RoomIs
  <2>3. WrittenInDecimal(i64toa(n), n, room + 1)
    BY <2>1, <2>2, Int64Written
  <2>. QED BY <1>3, <2>2, <2>3 DEF TextOf
<1>4. CASE number.call = "WriteUint64"
  <2>1. n \in Nat /\ n < UINT64_VALUES
    BY <1>4, NumbersAre
  <2>2. WrittenInDecimal(u64toa(n), n, ROOM["WriteUint64"])
    BY <2>1, RoomIs, Uint64Written, Unsigned
  <2>. QED BY <1>4, <2>2 DEF TextOf
<1>. QED BY <1>1, <1>2, <1>3, <1>4 DEF Calls

\* Whatever integer Writer<StringBuffer> is given, of 32 or 64 bits, signed or not,
\* the digits that u32toa and u64toa put together from groups read as that integer,
\* the least one included, none of them is a leading zero, the sign is there exactly
\* for a negative one, and they fit the room pushed before their number is known.
THEOREM NumbersAreWrittenInDecimalHolds == NumberSpec => []NumbersAreWrittenInDecimal
<1>1. NumberStart => NumberInv
  BY JsonNumbersAssumption DEF NumberStart, NumberInv, Calls
<1>2. NumberInv /\ [WriteNumber]_numberVars => NumberInv'
  BY DEF NumberInv, WriteNumber, numberVars
<1>3. NumberInv => NumbersAreWrittenInDecimal
  BY TextIsDecimal DEF NumberInv, NumbersAreWrittenInDecimal, WrittenInDecimal
<1>. QED BY <1>1, <1>2, <1>3, PTL DEF NumberSpec
===============================================================================
