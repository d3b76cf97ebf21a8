------------------------------- MODULE PemChain -------------------------------
(***************************************************************************)
(* CertificateChain::splitChain (CertificateChain.cpp): the text of a      *)
(* chain is cut into certificates, one end marker after the other.  A      *)
(* piece runs from the first dash after the last end marker, which may be  *)
(* one in the text between two certificates, to the next end marker; where *)
(* it begins is worked out from the end markers alone.  A text is a        *)
(* sequence of markers, dashes outside of them, and other text.            *)
(***************************************************************************)
EXTENDS Naturals, Sequences, FiniteSets

CONSTANT ChainTexts

Tokens == { "BEGIN", "END", "dash", "text" }

VARIABLES
    chainText,
    splitStep,     \* "start", "loop" or "done"
    newStartPos,
    foundEndPos,   \* Npos when there is no further end marker
    certStrs       \* the pieces: each the positions of its first and last token

splitVars == <<chainText, splitStep, newStartPos, foundEndPos, certStrs>>

Npos == 10000

\* A chain ends before Npos.
ASSUME ChainsAssumption ==
    \A txt \in ChainTexts : txt \in Seq(Tokens) /\ Len(txt) + 1 < Npos

\* std::string::find from a position on.
Find(txt, token, from) ==
    LET found == { k \in from..Len(txt) : txt[k] = token }
    IN  IF found = {} THEN Npos ELSE CHOOSE k \in found : \A j \in found : k <= j

SplitStart ==
    /\ splitStep = "start"
    /\ newStartPos = 0
    /\ foundEndPos = 0
    /\ certStrs = << >>

SplitInit == chainText \in ChainTexts /\ SplitStart

Split(pieces) == splitStep' = "done" /\ certStrs' = pieces

\* The first markers, the other way round or missing: no chain.
FindFirst ==
    /\ splitStep = "start"
    /\ LET begPos == Find(chainText, "BEGIN", 1)
           endPos == Find(chainText, "END", 1)
       IN  /\ newStartPos' = begPos
           /\ foundEndPos' = endPos
           /\ IF begPos = Npos \/ endPos = Npos \/ begPos >= endPos
              THEN Split(<< >>)
              ELSE splitStep' = "loop" /\ UNCHANGED certStrs
    /\ UNCHANGED chainText

\* Where the next dash is: every token but other text begins with one.
SkipToDash(txt, from) ==
    CHOOSE k \in from..Len(txt) : txt[k] # "text" /\ \A j \in from..(k - 1) : txt[j] = "text"

HasBegin(txt, first, last) == \E k \in first..last : txt[k] = "BEGIN"

\* Fault: text before a certificate is taken for one.
NextPiece_AnyText ==
    /\ splitStep = "loop"
    /\ LET start == SkipToDash(chainText, newStartPos)
           next  == Find(chainText, "END", foundEndPos + 1)
       IN  /\ newStartPos' = foundEndPos + 1
           /\ foundEndPos' = next
           /\ IF next = foundEndPos + 1 THEN Split(<< >>)
              ELSE /\ certStrs' = Append(certStrs, <<start, foundEndPos>>)
                   /\ splitStep' = IF next = Npos THEN "done" ELSE "loop"
    /\ UNCHANGED chainText

\* A turn of the loop.  Two end markers in a row give up the chain; a piece without
\* a begin marker is dropped, and so is what follows the last end marker.
NextPiece ==
    /\ splitStep = "loop"
    /\ LET start  == SkipToDash(chainText, newStartPos)
           next   == Find(chainText, "END", foundEndPos + 1)
           pieces == IF HasBegin(chainText, start, foundEndPos)
                     THEN Append(certStrs, <<start, foundEndPos>>) ELSE certStrs
       IN  /\ newStartPos' = foundEndPos + 1
           /\ foundEndPos' = next
           /\ IF next = foundEndPos + 1 THEN Split(<< >>)
              ELSE /\ certStrs' = pieces
                   /\ splitStep' = IF next = Npos THEN "done" ELSE "loop"
    /\ UNCHANGED chainText

SplitNext == FindFirst \/ NextPiece

SplitSpec == SplitInit /\ [][SplitNext]_splitVars

(***************************************************************************)
(* Properties.                                                             *)
(***************************************************************************)
\* A certificate in the text: a begin marker and the end marker that closes it.
Blocks(txt) ==
    { b \in (1..Len(txt)) \X (1..Len(txt)) :
        /\ b[1] < b[2] /\ txt[b[1]] = "BEGIN" /\ txt[b[2]] = "END"
        /\ \A k \in (b[1] + 1)..(b[2] - 1) : txt[k] \notin { "BEGIN", "END" } }

\* Markers alternate, a begin marker first and an end marker last: each is a certificate's.
IsWellFormed(txt) ==
    \A k \in DOMAIN txt :
        txt[k] \in { "BEGIN", "END" } => \E b \in Blocks(txt) : k \in { b[1], b[2] }

\* Splitting loses no certificate, reads none twice and mixes no two
\* (CertificateChain.cpp:187): of a well-formed text, whatever stands between the
\* certificates, the pieces are its certificates in their order; of any text, when it
\* is not given up, each closed certificate ends exactly one piece, no piece reaches
\* over an end marker, and none is without a begin marker.
SplitsTheChain ==
    splitStep = "done" =>
        /\ IsWellFormed(chainText) => Len(certStrs) = Cardinality(Blocks(chainText))
        /\ certStrs # << >> =>
              \A b \in Blocks(chainText) :
                  Cardinality({ k \in DOMAIN certStrs : certStrs[k][2] = b[2] }) = 1
        /\ \A k \in DOMAIN certStrs :
              /\ \E b \in Blocks(chainText) : certStrs[k][1] <= b[1] /\ b[2] = certStrs[k][2]
              /\ \A j \in certStrs[k][1]..(certStrs[k][2] - 1) : chainText[j] # "END"
              /\ k > 1 => certStrs[k - 1][2] < certStrs[k][1]
===============================================================================
