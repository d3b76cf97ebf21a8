------------------------------ MODULE JsonMemory ------------------------------
(***************************************************************************)
(* The memory under a parsed document: rapidjson/internal/stack.h,         *)
(* allocators.h and their use by GenericDocument, GenericReader and        *)
(* GenericStringBuffer.                                                    *)
(*                                                                         *)
(* While a text is parsed, values that have no place yet wait on the stack *)
(* of the document; the letters of a string, and what the reader has to    *)
(* return to after a list or an object, are on the stack of the reader.    *)
(* Both stacks grow by realloc, and so move. The letters of a string, and  *)
(* the elements of a list when it ends, are popped first and copied from   *)
(* where they were afterwards, into a block of the pool, which a document  *)
(* frees as a whole. A third stack is the buffer a body is written into.   *)
(*                                                                         *)
(* The heap is an array of cells; a value is two of them, what it is and   *)
(* where its block begins. A malloc takes the lowest place that is free,   *)
(* so that blocks touch; a realloc stays or moves. What a cell holds is the number *)
(* of the event that wrote it, so that no two values are alike.            *)
(***************************************************************************)
EXTENDS Integers, Sequences, FiniteSets

CONSTANTS
    HEAP,                 \* the cells of the heap
    ALIGNMENT,            \* of RAPIDJSON_ALIGN and of malloc
    SHARED_DATA,          \* SIZEOF_SHARED_DATA
    CHUNK_HEADER,         \* SIZEOF_CHUNK_HEADER
    kDefaultChunkCapacity,
    kDefaultStackCapacity,
    MaxSize,              \* ShortString::MaxSize, the longest string kept in its value
    StringLengths,        \* the strings a text holds
    MAX_EVENTS,           \* bound: the events of a text
    MAX_LETTERS           \* bound: the letters written

ASSUME JsonMemoryAssumption ==
    /\ { HEAP, ALIGNMENT, kDefaultChunkCapacity, kDefaultStackCapacity } \subseteq Nat \ {0}
    /\ { SHARED_DATA, CHUNK_HEADER } \subseteq Nat \ {0}
    /\ { MaxSize, MAX_EVENTS, MAX_LETTERS } \union StringLengths \subseteq Nat
    /\ SHARED_DATA % ALIGNMENT = 0 /\ CHUNK_HEADER % ALIGNMENT = 0

VARIABLES
    heap,       \* [blocks, cells]: what malloc gave, and what the cells hold
    stacks,     \* the stacks by name, [at, size, capacity]: stack_, stackTop_, stackEnd_
    chunks,     \* the chunks of the pool, the head first, [at, capacity, size]
    life,      \* where the document is in its life
    intended    \* [values, levels, scanned, blocks, root, letters]: what was put there

memoryVars == <<heap, stacks, chunks, life, intended>>

NULL      == -1
VALUE     == 2
Unwritten == 0
Terminator == -2
Header    == -3

AlignedSize(n) == ((n + ALIGNMENT - 1) \div ALIGNMENT) * ALIGNMENT

Larger(a, b) == IF a > b THEN a ELSE b

(***************************************************************************)
(* The heap: CrtAllocator. A result is a heap and an address.              *)
(***************************************************************************)
Span(at, size) == at..(at + size - 1)

Taken(h) == UNION { Span(b.at, b.size) : b \in h.blocks }

Free(h, size) ==
    { at \in 0..(HEAP - size) : at % ALIGNMENT = 0 /\ Span(at, size) \intersect Taken(h) = {} }

\* The lowest place, so that blocks touch.
Places(h, size) ==
    LET places == Free(h, size)
    IN  { at \in places : \A other \in places : at <= other }

Content(h, at, size) == [ k \in 1..size |-> h.cells[at + k - 1] ]

Write(h, at, content) ==
    [ h EXCEPT !.cells = [ c \in DOMAIN @ |-> IF c \in Span(at, Len(content)) THEN content[c - at + 1] ELSE @[c] ] ]

FreeBlocks(h, places) ==
    LET given == { b \in h.blocks : b.at \in places }
    IN  [ blocks |-> h.blocks \ given,
          cells |-> [ c \in DOMAIN h.cells |->
                        IF \E b \in given : c \in Span(b.at, b.size) THEN Unwritten ELSE h.cells[c] ] ]

FreeBlock(h, at) == FreeBlocks(h, {at})

Malloc(h, size) ==
    IF size = 0
    THEN { [ heap |-> h, at |-> NULL ] }
    ELSE { [ heap |-> [ h EXCEPT !.blocks = @ \union { [ at |-> at, size |-> size ] } ], at |-> at ] :
             at \in Places(h, size) }

\* A block that moves takes its content with it.
Realloc(h, at, size, newSize) ==
    IF at = NULL
    THEN Malloc(h, newSize)
    ELSE LET kept == Content(h, at, IF size < newSize THEN size ELSE newSize)
             freed == FreeBlock(h, at)
             Stays == { to \in Free(freed, newSize) : to = at }
             Moves == { r.at : r \in Malloc(h, newSize) }
         IN  { [ heap |-> Write([ freed EXCEPT !.blocks = @ \union { [ at |-> to, size |-> newSize ] } ], to, kept),
                 at |-> to ] : to \in Stays \union Moves }

(***************************************************************************)
(* internal::Stack. A state of the memory is m = [heap, stacks, chunks];   *)
(* what can move the stack answers the set of the states it may lead to.   *)
(***************************************************************************)
NoStack == [ at |-> NULL, size |-> 0, capacity |-> 0 ]

Resize(m, name, newCapacity) ==
    LET s == m.stacks[name]
    IN  { [ m EXCEPT !.heap = r.heap, !.stacks[name] = [ at |-> r.at, size |-> s.size, capacity |-> newCapacity ] ] :
            r \in Realloc(m.heap, s.at, s.capacity, newCapacity) }

Expand(m, name, count) ==
    LET s == m.stacks[name]
        grown == IF s.at = NULL THEN kDefaultStackCapacity ELSE s.capacity + (s.capacity + 1) \div 2
    IN  Resize(m, name, Larger(grown, s.size + count))

Reserve(m, name, count) ==
    LET s == m.stacks[name]
    IN  IF count > s.capacity - s.size THEN Expand(m, name, count) ELSE {m}

PushUnsafe(m, name, content) ==
    LET s == m.stacks[name]
    IN  [ m EXCEPT !.heap = Write(@, s.at + s.size, content), !.stacks[name].size = @ + Len(content) ]

Push(m, name, content) == { PushUnsafe(r, name, content) : r \in Reserve(m, name, Len(content)) }

Pop(m, name, count) == [ m EXCEPT !.stacks[name].size = @ - count ]

Top(m, name) == m.stacks[name].at + m.stacks[name].size

Clear(m, name) == [ m EXCEPT !.stacks[name].size = 0 ]

DestroyStack(m, name) == [ m EXCEPT !.heap = FreeBlock(@, m.stacks[name].at), !.stacks[name] = NoStack ]

ShrinkToFit(m, name) ==
    IF m.stacks[name].size = 0
    THEN { DestroyStack(m, name) }
    ELSE Resize(m, name, m.stacks[name].size)

(***************************************************************************)
(* MemoryPoolAllocator.                                                    *)
(***************************************************************************)
ConstructPool(m) ==
    { [ m EXCEPT !.heap = r.heap, !.chunks = << [ at |-> r.at + SHARED_DATA, capacity |-> 0, size |-> 0 ] >> ] :
        r \in Malloc(m.heap, SHARED_DATA + CHUNK_HEADER) }

HeaderCells == [ k \in 1..CHUNK_HEADER |-> Header ]

\* Fault: the header is not counted.
AddChunk_Bare(m, capacity) ==
    { [ m EXCEPT !.heap = Write(r.heap, r.at, HeaderCells),
                 !.chunks = << [ at |-> r.at, capacity |-> capacity, size |-> 0 ] >> \o @ ] :
        r \in Malloc(m.heap, capacity) }

AddChunk(m, capacity) ==
    { [ m EXCEPT !.heap = Write(r.heap, r.at, HeaderCells),
                 !.chunks = << [ at |-> r.at, capacity |-> capacity, size |-> 0 ] >> \o @ ] :
        r \in Malloc(m.heap, CHUNK_HEADER + capacity) }

Buffer(chunk) == chunk.at + CHUNK_HEADER

\* A result is a state of the memory and an address.
PoolMalloc(m, n) ==
    LET size == AlignedSize(n)
        head == m.chunks[1]
        served == IF head.size + size > head.capacity THEN AddChunk(m, Larger(kDefaultChunkCapacity, size)) ELSE {m}
    IN  IF n = 0
        THEN { [ memory |-> m, at |-> NULL ] }
        ELSE { [ memory |-> [ r EXCEPT !.chunks[1].size = @ + size ],
                 at |-> Buffer(r.chunks[1]) + r.chunks[1].size ] : r \in served }

ClearPool(m) ==
    LET first == Len(m.chunks)
    IN  [ m EXCEPT !.heap = FreeBlocks(@, { m.chunks[k].at : k \in 1..(first - 1) }),
                   !.chunks = << [ m.chunks[first] EXCEPT !.size = 0 ] >> ]

DestroyPool(m) ==
    LET cleared == ClearPool(m)
    IN  [ cleared EXCEPT !.heap = FreeBlock(@, cleared.chunks[1].at - SHARED_DATA), !.chunks = << >> ]

(***************************************************************************)
(* The handlers of GenericDocument. A value is <<what it is, its block>>.  *)
(***************************************************************************)
Copied(m, from, size, to) == [ m EXCEPT !.heap = Write(@, to, Content(m.heap, from, size)) ]

\* SetStringRaw of the value at at, its letters at from.
SetStringRaw(m, at, what, from, length) ==
    IF length <= MaxSize
    THEN { [ memory |-> [ m EXCEPT !.heap = Write(@, at, <<what, NULL>>) ], block |-> NULL ] }
    ELSE { [ memory |-> [ Copied(r.memory, from, length, r.at) EXCEPT
                            !.heap = Write(Write(@, r.at + length, <<Terminator>>), at, <<what, r.at>>) ],
             block |-> r.at ] : r \in PoolMalloc(m, length + 1) }

\* SetArrayRaw and SetObjectRaw of the value at at, the elements at from.
SetArrayRaw(m, at, what, from, count) ==
    { [ memory |-> [ Copied(r.memory, from, count * VALUE, r.at) EXCEPT !.heap = Write(@, at, <<what, r.at>>) ],
        block |-> r.at ] : r \in PoolMalloc(m, count * VALUE) }

(***************************************************************************)
(* A parse, the writing of a body and the end of the document.             *)
(***************************************************************************)
Memory == [ heap |-> heap, stacks |-> stacks, chunks |-> chunks ]

Becomes(m) ==
    /\ heap' = m.heap
    /\ stacks' = m.stacks
    /\ chunks' = m.chunks

MemoryStart ==
    /\ heap = [ blocks |-> {}, cells |-> [ c \in 0..(HEAP - 1) |-> Unwritten ] ]
    /\ stacks = [ name \in { "document", "reader", "buffer" } |-> NoStack ]
    /\ chunks = << >>
    /\ life = "none"
    /\ intended = [ values |-> << >>, levels |-> << >>, blocks |-> {}, root |-> << >>, letters |-> << >>,
                    scanned |-> 0, events |-> 0 ]

ConstructDocument ==
    /\ life = "none"
    /\ life' = "parsing"
    /\ \E m \in ConstructPool(Memory) : Becomes(m)
    /\ UNCHANGED intended

\* A value is expected: inside a list or an object, or as the root.
Expected ==
    /\ life = "parsing"
    /\ intended.events < MAX_EVENTS
    /\ intended.levels # << >> \/ intended.values = << >>

NoString == intended.scanned = 0

Event == intended.events + 1

Intend(values, levels, blocks) ==
    intended' = [ intended EXCEPT !.values = values, !.levels = levels, !.scanned = 0,
                                  !.blocks = @ \union blocks, !.events = Event ]

\* Null, Bool, Int, ...
ReadPlain ==
    /\ Expected
    /\ NoString
    /\ \E m \in Push(Memory, "document", <<Event, NULL>>) : Becomes(m)
    /\ Intend(Append(intended.values, <<Event, NULL>>), intended.levels, {})
    /\ UNCHANGED life

\* ParseStringToStream: each letter goes onto the stack of the reader.
ReadLetter ==
    /\ Expected
    /\ \E length \in StringLengths : intended.scanned < length
    /\ \E m \in Push(Memory, "reader", <<Event>>) : Becomes(m)
    /\ intended' = [ intended EXCEPT !.scanned = @ + 1 ]
    /\ UNCHANGED life

\* The end of ParseString, and String: the terminator follows the letters, which are
\* popped, a value is pushed, the letters are copied.
ReadString ==
    /\ Expected
    /\ intended.scanned \in StringLengths
    /\ LET length == intended.scanned
       IN  \E read \in Push(Memory, "reader", <<Terminator>>) :
             LET popped == Pop(read, "reader", length + 1)
             IN  \E pushed \in Push(popped, "document", <<Unwritten, Unwritten>>) :
                   \E r \in SetStringRaw(pushed, Top(pushed, "document") - VALUE, Event,
                                         Top(popped, "reader"), length) :
                     /\ Becomes(r.memory)
                     /\ Intend(Append(intended.values, <<Event, r.block>>), intended.levels,
                               IF r.block = NULL THEN {}
                               ELSE { [ at |-> r.block,
                                        content |-> Append([ k \in 1..length |-> Event ], Terminator) ] })
    /\ UNCHANGED life

\* StartArray, StartObject; the reader keeps the count and the state to return to.
ReadStart ==
    /\ Expected
    /\ NoString
    /\ \E m \in Push(Memory, "document", <<Event, NULL>>) :
         \E n \in Push(m, "reader", <<Event>>) :
           \E p \in Push(n, "reader", <<Event>>) : Becomes(p)
    /\ Intend(Append(intended.values, <<Event, NULL>>), Append(intended.levels, Len(intended.values) + 1), {})
    /\ UNCHANGED life

\* EndArray, EndObject: the elements are popped and then copied.
ReadEnd ==
    /\ life = "parsing"
    /\ NoString
    /\ intended.levels # << >>
    /\ intended.events < MAX_EVENTS
    /\ LET level == intended.levels[Len(intended.levels)]
           count == Len(intended.values) - level
           popped == Pop(Pop(Pop(Memory, "reader", 1), "reader", 1), "document", count * VALUE)
           elements == [ k \in 1..(count * VALUE) |->
                           intended.values[level + 1 + ((k - 1) \div VALUE)][1 + ((k - 1) % VALUE)] ]
       IN  \E r \in SetArrayRaw(popped, Top(popped, "document") - VALUE, Event, Top(popped, "document"), count) :
             /\ Becomes(r.memory)
             /\ Intend(Append(SubSeq(intended.values, 1, level - 1), <<Event, r.block>>),
                       SubSeq(intended.levels, 1, Len(intended.levels) - 1),
                       IF r.block = NULL THEN {} ELSE { [ at |-> r.block, content |-> elements ] })
    /\ UNCHANGED life

\* On every way out of ParseStream: ClearStackOnExit, and the reader's stack goes with the reader.
LeaveParse(m) ==
    { DestroyStack(Clear(r, "reader"), "reader") : r \in ShrinkToFit(Clear(m, "document"), "document") }

Finished ==
    /\ life = "parsing"
    /\ NoString
    /\ intended.levels = << >> /\ intended.values # << >>
    /\ LET popped == Pop(Memory, "document", VALUE)
       IN  /\ \E m \in LeaveParse(popped) : Becomes(m)
           /\ intended' = [ intended EXCEPT !.values = << >>,
                                            !.root = Content(popped.heap, Top(popped, "document"), VALUE) ]
    /\ life' = "parsed"

ParseFailed ==
    /\ life = "parsing"
    /\ \E m \in LeaveParse(Memory) : Becomes(m)
    /\ intended' = [ intended EXCEPT !.values = << >>, !.levels = << >>, !.scanned = 0 ]
    /\ life' = "failed"

\* A body is written: GenericStringBuffer::Put.
PutLetter ==
    /\ life = "parsed"
    /\ Len(intended.letters) < MAX_LETTERS
    /\ LET letter == Len(intended.letters) + 1
       IN  /\ \E m \in Push(Memory, "buffer", <<letter>>) : Becomes(m)
           /\ intended' = [ intended EXCEPT !.letters = Append(@, letter) ]
    /\ UNCHANGED life

\* GetString: a terminator is pushed and popped.
TakeString ==
    /\ life = "parsed"
    /\ \E m \in Push(Memory, "buffer", <<Terminator>>) : Becomes(Pop(m, "buffer", 1))
    /\ life' = "written"
    /\ UNCHANGED intended

DestroyDocument ==
    /\ life \in { "written", "failed" }
    /\ Becomes(DestroyPool(DestroyStack(DestroyStack(Memory, "buffer"), "document")))
    /\ intended' = [ intended EXCEPT !.blocks = {} ]
    /\ life' = "gone"

MemoryNext ==
    \/ ConstructDocument \/ ReadPlain \/ ReadLetter \/ ReadString \/ ReadStart \/ ReadEnd
    \/ Finished \/ ParseFailed \/ PutLetter \/ TakeString \/ DestroyDocument

MemorySpec == MemoryStart /\ [][MemoryNext]_memoryVars

(***************************************************************************)
(* Properties.                                                             *)
(***************************************************************************)
Holds(at, content) ==
    /\ Content(heap, at, Len(content)) = content
    /\ \E b \in heap.blocks : Span(at, Len(content)) \subseteq Span(b.at, b.size)

\* What is pushed onto a stack, copied into the pool or written into the
\* buffer is still there, inside a block of the heap and aligned, whatever
\* moved since: the values that wait (stack.h:206-213), what the reader
\* returns to, the letters and elements copied after they were popped
\* (document.h:2838-2849), the headers of the chunks, and the terminator of
\* the text a signature is verified over (stringbuffer.h:72-78). When the
\* document is gone the heap is empty.
MemoryKeepsWhatItIsGiven ==
    /\ \A k \in DOMAIN intended.values : Holds(stacks["document"].at + (k - 1) * VALUE, intended.values[k])
    /\ life = "parsing" =>
         /\ stacks["document"].size = Len(intended.values) * VALUE
         /\ stacks["reader"].size = 2 * Len(intended.levels) + intended.scanned
         /\ Holds(stacks["reader"].at + 2 * Len(intended.levels),
                  [ k \in 1..intended.scanned |-> Event ])
         /\ \A k \in DOMAIN intended.levels :
              Holds(stacks["reader"].at + 2 * (k - 1),
                    LET what == intended.values[intended.levels[k]][1] IN <<what, what>>)
    /\ \A b \in intended.blocks : Holds(b.at, b.content) /\ b.at % ALIGNMENT = 0
    /\ \A k \in 1..(Len(chunks) - 1) : Holds(chunks[k].at, HeaderCells)
    /\ intended.letters # << >> /\ life = "parsed" => Holds(stacks["buffer"].at, intended.letters)
    /\ life = "written" => Holds(stacks["buffer"].at, Append(intended.letters, Terminator))
    /\ life \in { "written", "parsed" } =>
         \/ intended.root[2] = NULL
         \/ \E b \in intended.blocks : b.at = intended.root[2]
    /\ life = "gone" => heap.blocks = {}
===============================================================================
