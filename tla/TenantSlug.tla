----------------------------- MODULE TenantSlug -----------------------------
(***************************************************************************)
(* The tenant's identifier in the form of the page "register": it follows  *)
(* the company's name until the user edits it.  A text is a sequence of    *)
(* kinds of characters: "a" is a lower-case letter or a digit, "A" an      *)
(* upper-case letter, "e'" a letter with an accent, "-" a hyphen and " "   *)
(* anything else.                                                          *)
(***************************************************************************)
EXTENDS Naturals, SequencesExt

Characters == {"a", "A", "e'", "-", " "}

Lower(c) == IF c = "A" THEN "a" ELSE c
WithoutAccent(c) == IF c = "e'" THEN "a" ELSE c

\* Accents go, everything else between letters and digits becomes one hyphen,
\* and none stays at either end.
Slugify(text) ==
  LET Adds(slug, c) ==
        IF WithoutAccent(Lower(c)) = "a" THEN Append(slug, "a")
        ELSE IF slug = << >> \/ Last(slug) = "-" THEN slug ELSE Append(slug, "-")
      joined == FoldLeft(Adds, << >>, text)
  IN  IF joined # << >> /\ Last(joined) = "-" THEN Front(joined) ELSE joined

\* A letter with an accent is dropped here.
SanitizeSlugInput(text) ==
  SelectSeq([i \in 1..Len(text) |-> Lower(text[i])], LAMBDA c : c \in {"a", "-"})

\* The pattern of the field and of RegisterDto: letters and digits, with single
\* hyphens between them.
WellFormed(slug) ==
  /\ slug # << >>
  /\ slug[1] = "a" /\ Last(slug) = "a"
  /\ \A i \in 1..Len(slug) : slug[i] \in {"a", "-"} /\ (i > 1 /\ slug[i] = "-" => slug[i - 1] # "-")

\* What the two fields hold, and whether the slug was touched, after an edit of
\* either: handleTenantNameChange, handleTenantSlugChange.
NameChanged(f, value) ==
  [f EXCEPT !.name = value, !.slug = IF f.touched THEN @ ELSE Slugify(value)]
SlugChanged(f, value) ==
  [f EXCEPT !.touched = TRUE, !.slug = SanitizeSlugInput(value)]
-----------------------------------------------------------------------------
(* Checks over every text of up to four characters *)

Texts == UNION {[1..n -> Characters] : n \in 0..4}
Untouched == [name |-> << >>, slug |-> << >>, touched |-> FALSE]

\* Whatever the company is called, the slug made from its name is one the API
\* accepts, and is missing only if the name has no letter and no digit.
ASSUME NameGivesSlug ==
  \A text \in Texts :
    LET slug == NameChanged(Untouched, text).slug
    IN  IF \E i \in 1..Len(text) : text[i] \in {"a", "A", "e'"}
        THEN WellFormed(slug) ELSE slug = << >>

\* The comment of sanitizeSlugInput: a hyphen in the middle of a slug can be
\* typed with normal keystrokes.  Behind whatever the field holds, a key of the
\* allowed ones adds its character, another one nothing, and the slug no longer
\* follows the name.
ASSUME KeystrokesCount ==
  \A text \in Texts :
    LET f == SlugChanged(Untouched, text) IN
    \A c \in Characters :
      LET g == NameChanged(SlugChanged(f, Append(f.slug, c)), text)
      IN  g.slug = CASE c \in {"a", "A"} -> Append(f.slug, "a")
                     [] c = "-" -> Append(f.slug, "-")
                     [] OTHER -> f.slug
=============================================================================
