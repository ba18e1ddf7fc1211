---------------------------- MODULE ExtractedText ----------------------------
(***************************************************************************)
(* From the parts of a document to the private text, its quality and its   *)
(* readiness: the loop of join_bounded_text, one iteration per step, then  *)
(* assess_extracted_text and derive_readiness on its result.  A part is a  *)
(* page of a PDF or a text node of a DOCX.  A character is "x" when strip()*)
(* keeps it and " " when it does not; the separator "\n" is blank too.     *)
(***************************************************************************)
EXTENDS Integers, Sequences

CONSTANTS
    Parts,         \* the strings a part may be
    MaxPages,      \* MAX_PDF_PAGES
    MaxCharacters, \* MAX_EXTRACTED_CHARACTERS
    Recommended    \* MINIMUM_RECOMMENDED_EXTRACTED_CHARACTERS

ASSUME LimitsAssumption ==
    /\ MaxPages \in Nat /\ MaxCharacters \in Nat \ {0} /\ Recommended \in Nat
ASSUME PartsAssumption == Parts \subseteq Seq({"x", " "})

Separator == "\n"

VARIABLES
    source,     \* "pdf" or "docx"
    parts,      \* what is left of the generator
    text,       \* the chunks, joined
    remaining,  \* characters that may still be appended
    read,       \* the parts taken so far
    phase       \* "idle", "joining", "joined" or "rejected"

textVars == <<source, parts, text, remaining, read, phase>>

Smaller(a, b) == IF a < b THEN a ELSE b

Cut(s, n) == SubSeq(s, 1, Smaller(n, Len(s)))

TextInit ==
    /\ source = "pdf" /\ parts = <<>>
    /\ text = <<>> /\ remaining = MaxCharacters
    /\ read = <<>>
    /\ phase = "idle"

\* A document comes in.  A PDF of more than MAX_PDF_PAGES pages is rejected
\* before any is read.
Open ==
    /\ phase = "idle"
    /\ source' \in {"pdf", "docx"}
    /\ \E n \in 0 .. MaxPages + 1 : parts' \in [1 .. n -> Parts]
    /\ phase' = IF source' = "pdf" /\ Len(parts') > MaxPages THEN "rejected" ELSE "joining"
    /\ UNCHANGED <<text, remaining, read>>

\* Variant: the separator is not counted.
AppendUncounted(part) ==
    LET head == IF text = <<>> THEN <<>> ELSE <<Separator>> IN
    /\ text' = text \o head \o Cut(part, remaining)
    /\ remaining' = remaining - Smaller(Len(part), remaining)

\* chunks.append("\n") and chunks.append(value[:remaining]).
AppendPart(part) ==
    LET head == IF text = <<>> THEN <<>> ELSE <<Separator>>
        room == remaining - Len(head)
    IN  /\ text' = text \o head \o Cut(part, room)
        /\ remaining' = room - Smaller(Len(part), room)

Take ==
    /\ phase = "joining" /\ parts # <<>>
    /\ parts' = Tail(parts)
    /\ read' = Append(read, Head(parts))
    /\ UNCHANGED source

\* One iteration: an empty part is skipped, a full text ends the loop.
Join ==
    /\ Take
    /\ \/ /\ Head(parts) # <<>> /\ remaining > 0
          /\ AppendPart(Head(parts))
          /\ UNCHANGED phase
       \/ /\ Head(parts) = <<>>
          /\ UNCHANGED <<text, remaining, phase>>
       \/ /\ Head(parts) # <<>> /\ remaining = 0
          /\ phase' = "joined"
          /\ UNCHANGED <<text, remaining>>

Exhausted ==
    /\ phase = "joining" /\ parts = <<>>
    /\ phase' = "joined"
    /\ UNCHANGED <<source, parts, text, remaining, read>>

TextNext == Open \/ Join \/ Exhausted

TextSpec == TextInit /\ [][TextNext]_textVars

-----------------------------------------------------------------------------
(* The metadata stored with the text, and what the API derives from it.     *)

Blank(s) == \A i \in 1 .. Len(s) : s[i] # "x"

CharacterCount(s) == IF Blank(s) THEN 0 ELSE Len(s)

\* Variant: strip() is applied after the length is compared.
QualityByLength(s) ==
    IF Len(s) = 0 THEN "low" ELSE IF Len(s) < Recommended THEN "limited" ELSE "usable"

Quality(s) ==
    IF Blank(s) THEN "low" ELSE IF Len(s) < Recommended THEN "limited" ELSE "usable"

Warnings(s) ==
    CASE Quality(s) = "low" -> {"NO_EXTRACTABLE_TEXT"}
      [] Quality(s) = "limited" -> {"LIMITED_EXTRACTABLE_TEXT"}
      [] OTHER -> {}

Readiness(status, quality, warnings) ==
    IF \/ status # "succeeded"
       \/ quality \notin {"usable", "limited"}
       \/ "NO_EXTRACTABLE_TEXT" \in warnings THEN "blocked"
    ELSE IF quality = "limited" \/ warnings # {} THEN "warning"
    ELSE "ready"

\* The two outcomes of extract_owned_version.
Stored == Readiness("succeeded", Quality(text), Warnings(text))
Failed == Readiness("failed", "unknown", {})

\* create_or_get analyses a version unless it is blocked or its text is empty.
Analysable == Stored # "blocked" /\ text # <<>>

-----------------------------------------------------------------------------
(* Properties.                                                              *)

\* All the text there is: the non-empty parts, a separator between two.
Whole[s \in Seq(Parts)] ==
    IF s = <<>> THEN <<>>
    ELSE LET before == Whole[SubSeq(s, 1, Len(s) - 1)]
             last == s[Len(s)]
         IN  IF last = <<>> THEN before
             ELSE IF before = <<>> THEN last
             ELSE before \o <<Separator>> \o last

\* At every iteration the text is the whole text of the parts read so far, cut
\* at MaxCharacters: the separators are counted, nothing in the middle is lost,
\* and an end before the last part loses only what is beyond the limit.
TextIsPrefix ==
    /\ text = Cut(Whole[read], MaxCharacters)
    /\ remaining = MaxCharacters - Len(text)
    /\ phase = "joined" => text = Cut(Whole[read \o parts], MaxCharacters)

\* An analysis is made of exactly the documents in which some character can be
\* read, and such a document is ready once it has the recommended length.
ReadableIsAnalysable ==
    phase = "joined" =>
        /\ Analysable <=> \E i \in 1 .. Len(text) : text[i] = "x"
        /\ Analysable => (Stored = "ready" <=> Len(text) >= Recommended)
        /\ ~Analysable <=> CharacterCount(text) = 0
        /\ Failed = "blocked"
=============================================================================
