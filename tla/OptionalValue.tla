----------------------------- MODULE OptionalValue -----------------------------
(***************************************************************************)
(* Optional<T> (Utils/Optional.h), the optional value that QuoteVerifier   *)
(* holds the status of the QE and the identity of a TDX module in: each    *)
(* object owns a cell of the heap or none, and objects are constructed,    *)
(* assigned and destroyed in any order.                                    *)
(***************************************************************************)
EXTENDS Integers

CONSTANTS
    OptionalObjects,    \* where objects are constructed
    OptionalCells,      \* cells of the heap, positive numbers
    OptionalValues,     \* values of T
    CopiesEmpty         \* an empty object may be copied over one with a value

ASSUME OptionalAssumption == OptionalCells \subseteq Nat \ { 0 } /\ CopiesEmpty \in BOOLEAN

VARIABLES
    object,     \* internalValue and hasValue of the objects there are
    heap,       \* the values in the cells that are allocated
    meant       \* the value, if any, that each object was last given

optionalVars == <<object, heap, meant>>

nullptr == 0

Constructed == DOMAIN object

\* f with f[x] = y, for an x new or old.
Update(f, x, y) == [ z \in DOMAIN f \union { x } |-> IF z = x THEN y ELSE f[z] ]

Holding(cell) == [ internalValue |-> cell, hasValue |-> cell # nullptr ]

Deleted(cell) == [ c \in DOMAIN heap \ { cell } |-> heap[c] ]

\* new T(value), in a cell that is free once oldHeap is what is allocated.
Allocate(o, oldHeap, value) ==
    \E cell \in OptionalCells \ DOMAIN oldHeap :
        /\ heap' = Update(oldHeap, cell, value)
        /\ object' = Update(object, o, Holding(cell))

OptionalInit == object = << >> /\ heap = << >> /\ meant = << >>

(***************************************************************************)
(* Constructors and destructor.                                            *)
(***************************************************************************)
Construct(o) ==
    /\ o \notin Constructed
    /\ object' = Update(object, o, Holding(nullptr))
    /\ meant' = Update(meant, o, { })
    /\ UNCHANGED heap

ConstructFrom(o, value) ==
    /\ o \notin Constructed
    /\ Allocate(o, heap, value)
    /\ meant' = Update(meant, o, { value })

CopyConstruct(o, other) ==
    /\ o \notin Constructed /\ other \in Constructed
    /\ IF object[other].hasValue THEN Allocate(o, heap, heap[object[other].internalValue])
       ELSE object' = Update(object, o, Holding(nullptr)) /\ UNCHANGED heap
    /\ meant' = Update(meant, o, meant[other])

MoveConstruct(o, other) ==
    /\ o \notin Constructed /\ other \in Constructed
    /\ object' = Update(Update(object, o, object[other]), other, Holding(nullptr))
    /\ meant' = Update(Update(meant, o, meant[other]), other, { })
    /\ UNCHANGED heap

Destroy(o) ==
    /\ o \in Constructed
    /\ object' = [ p \in Constructed \ { o } |-> object[p] ]
    /\ heap' = Deleted(object[o].internalValue)
    /\ meant' = [ p \in Constructed \ { o } |-> meant[p] ]

(***************************************************************************)
(* Assignments.                                                            *)
(***************************************************************************)
\* From an empty object only hasValue is assigned: internalValue stays what it was.
CopyAssign(o, other) ==
    /\ o \in Constructed /\ other \in Constructed \ { o }
    /\ object[o].hasValue /\ ~object[other].hasValue => CopiesEmpty
    /\ IF object[other].hasValue
       THEN Allocate(o, Deleted(object[o].internalValue), heap[object[other].internalValue])
       ELSE /\ object' = [ object EXCEPT ![o].hasValue = FALSE ]
            /\ heap' = Deleted(object[o].internalValue)
    /\ meant' = Update(meant, o, meant[other])

\* Fault: the other object keeps what it has given away.
MoveAssign_Shared(o, other) ==
    /\ o \in Constructed /\ other \in Constructed \ { o }
    /\ heap' = Deleted(object[o].internalValue)
    /\ object' = [ object EXCEPT ![o] = object[other] ]
    /\ meant' = Update(Update(meant, o, meant[other]), other, { })

MoveAssign(o, other) ==
    /\ o \in Constructed /\ other \in Constructed \ { o }
    /\ heap' = Deleted(object[o].internalValue)
    /\ object' = [ object EXCEPT ![o] = object[other], ![other] = Holding(nullptr) ]
    /\ meant' = Update(Update(meant, o, meant[other]), other, { })

OptionalNext ==
    \E o \in OptionalObjects :
        \/ Construct(o)
        \/ \E value \in OptionalValues : ConstructFrom(o, value)
        \/ Destroy(o)
        \/ \E other \in OptionalObjects \ { o } :
              \/ CopyConstruct(o, other)
              \/ MoveConstruct(o, other)
              \/ CopyAssign(o, other)
              \/ MoveAssign(o, other)

OptionalSpec == OptionalInit /\ [][OptionalNext]_optionalVars

(***************************************************************************)
(* Observers: what they return, a set that is empty when they throw.       *)
(***************************************************************************)
has_value(o) == object[o].hasValue

valueOf(o) == IF object[o].hasValue THEN { heap[object[o].internalValue] } ELSE { }

\* operator->, the cell itself.
Pointee(o) == IF object[o].hasValue THEN { object[o].internalValue } ELSE { }

Equal(o, other) ==
    /\ object[o].hasValue = object[other].hasValue
    /\ object[o].hasValue =>
         heap[object[o].internalValue] = heap[object[other].internalValue]

EqualToValue(o, value) == object[o].hasValue /\ heap[object[o].internalValue] = value

(***************************************************************************)
(* Properties.                                                             *)
(***************************************************************************)
Owned == { object[o].internalValue : o \in Constructed } \ { nullptr }

\* After any sequence of constructions, copies, moves and destructions each cell of
\* the heap belongs to one object, which will delete it once, and every object answers
\* with the value that it was last given (Optional.h 46-166). It holds as long as no
\* empty object is copied over one with a value (line 62 leaves the pointer to the
\* deleted cell behind), which the program, that only moves, does not do.
OptionalsKeepTheirValues ==
    /\ Owned = DOMAIN heap
    /\ \A o, other \in Constructed :
         /\ o # other /\ object[o].internalValue # nullptr =>
              object[o].internalValue # object[other].internalValue
         /\ Equal(o, other) = (meant[o] = meant[other])
    /\ \A o \in Constructed :
         /\ valueOf(o) = meant[o]
         /\ { heap[cell] : cell \in Pointee(o) } = meant[o]
         /\ has_value(o) = (meant[o] # { })
         /\ \A value \in OptionalValues : EqualToValue(o, value) = (value \in meant[o])
===============================================================================
