----------------------------- MODULE Usernames -----------------------------
(***************************************************************************)
(* checkUsername (packages/shared/src/usernames.ts) on short words over a  *)
(* small alphabet.  A word is a sequence of characters in lower case: both *)
(* forms that are compared fold case and compatibility variants first.     *)
(* The state is a name somebody wants and a disguise of it, made by        *)
(* repeating letters, inserting separators and writing digits for letters. *)
(***************************************************************************)
EXTENDS Integers, Sequences

CONSTANTS
  Letters,        \* of a-z
  Leet,           \* FOLD_MAP: character -> the letter it stands for
  Foreign,        \* letters of another script, some of which are in FOLD_MAP
  MinLength, MaxLength,  \* USERNAME_POLICY
  Reserved,       \* RESERVED
  Fragments,      \* OFFENSIVE_FRAGMENTS
  Impersonation,  \* IMPERSONATION_FRAGMENTS
  ExactWords,     \* OFFENSIVE_EXACT
  WantedLength    \* bound on the names wanted

Separators == {"_", "-"}
Characters == Letters \cup DOMAIN Leet \cup Foreign \cup {"_"}
Listable == Characters \cup {" "}  \* one of the fragments is of two words

ASSUME UsernamesAssumption ==
  /\ Letters # {} /\ Separators \cap (Letters \cup DOMAIN Leet \cup Foreign) = {}
  /\ \A c \in DOMAIN Leet : c \notin Letters /\ Leet[c] \in Letters
  /\ Fragments \subseteq Seq(Listable)
  /\ MinLength \in Nat /\ MaxLength \in Nat /\ WantedLength \in 1 .. MaxLength

VARIABLES
  wanted,   \* the name somebody asks for
  disguise  \* what has become of it

usernamesVars == <<wanted, disguise>>

\* The characters of w at some places, in their order.
Keep(w, places) ==
  LET Kept[n \in 0..Len(w)] ==
        IF n = 0 THEN <<>>
        ELSE IF n \in places THEN Append(Kept[n - 1], w[n]) ELSE Kept[n - 1]
  IN  Kept[Len(w)]

Includes(w, part) ==
  \E i \in 1 .. Len(w) : i + Len(part) - 1 <= Len(w) /\ SubSeq(w, i, i + Len(part) - 1) = part

\* canonicalizeUsername, what uniqueness is about.
Canonical(w) == Keep(w, {i \in DOMAIN w : w[i] \notin Separators})

\* Repeats start at their first character.
Starts(w, i) == i = 1 \/ w[i - 1] # w[i]
FullyCollapse(w) == Keep(w, {i \in DOMAIN w : Starts(w, i)})

\* Runs of three or more become one character, doubled letters stay.
CollapseRuns(w) ==
  Keep(w, {i \in DOMAIN w : Starts(w, i) \/ (Starts(w, i - 1) /\ (i = Len(w) \/ w[i + 1] # w[i]))})

\* normalizeForScreening.
Fold(c) == IF c \in DOMAIN Leet THEN Leet[c] ELSE c
LettersOf(w) == Keep(w, {i \in DOMAIN w : w[i] \in Letters})
Normalized(w) == CollapseRuns(LettersOf([i \in DOMAIN w |-> Fold(w[i])]))

\* What is left of a listed fragment is matched as it is and, if it has no
\* doubled letters, against the collapsed form: padding does not hide it.
Needle(fragment) == LettersOf(fragment)
Plain(needle) == needle = FullyCollapse(needle)

\* Mutated: the collapsed form is not looked at.
HitsMut(n, fragment) == Len(Needle(fragment)) >= 3 /\ Includes(n, Needle(fragment))

Hits(n, fragment) ==
  LET needle == Needle(fragment)
  IN  /\ Len(needle) >= 3
      /\ \/ Includes(n, needle)
         \/ Plain(needle) /\ Includes(FullyCollapse(n), needle)

Mixed(w) ==
  (\E i \in DOMAIN w : w[i] \in Letters) /\ (\E i \in DOMAIN w : w[i] \in Foreign)

Malformed(w) ==
  \/ Len(w) < MinLength \/ Len(w) > MaxLength
  \/ \E i \in DOMAIN w : w[i] \in Foreign
  \/ w[1] \in Separators \/ w[Len(w)] \in Separators
  \/ \E i \in 1 .. Len(w) - 1 : {w[i], w[i + 1]} \subseteq Separators

\* checkUsername, with the first reason that applies.
CheckUsername(w) ==
  LET n == Normalized(w)
  IN  CASE Mixed(w) -> "confusable"
        [] ~ Mixed(w) /\ Malformed(w) -> "malformed"
        [] OTHER ->
             IF {Canonical(w), n} \cap Reserved # {} THEN "reserved"
             ELSE IF \E f \in Impersonation : Includes(n, f) THEN "impersonation"
             ELSE IF n \in ExactWords \/ \E f \in Fragments : Hits(n, f) THEN "offensive"
             ELSE "ok"

\* isAbusiveRejection.
AbusiveRejection(reason) == reason \in {"offensive", "impersonation", "confusable"}

Insert(w, i, c) ==
  [j \in 1..(Len(w) + 1) |-> IF j <= i THEN w[j] ELSE IF j = i + 1 THEN c ELSE w[j - 1]]

DisguiseMore ==
  /\ \E i \in DOMAIN disguise :
       \/ Len(disguise) < MaxLength /\ disguise' = Insert(disguise, i, disguise[i])
       \/ Len(disguise) < MaxLength /\ disguise' = Insert(disguise, i, "_")
       \/ \E c \in DOMAIN Leet : Leet[c] = disguise[i] /\ disguise' = [disguise EXCEPT ![i] = c]
  /\ UNCHANGED wanted

UsernamesInit ==
  /\ wanted \in UNION {[1 .. n -> Characters] : n \in 1 .. WantedLength}
  /\ disguise = wanted

UsernamesNext == DisguiseMore

UsernamesSpec == UsernamesInit /\ [][UsernamesNext]_usernamesVars

(***************************************************************************)
(* Properties                                                              *)
(***************************************************************************)

\* Repeated letters, separators and digits hide no fragment without doubled
\* letters; and two spellings of one canonical name that are well formed and
\* not reserved are both abusive or neither is, which is why uniqueness and
\* screening may look at different forms.
DisguiseRefused ==
  /\ (\E f \in Fragments : Plain(Needle(f)) /\ Hits(Normalized(wanted), f))
       => CheckUsername(disguise) # "ok"
  /\ Canonical(wanted) = Canonical(disguise)
       /\ {CheckUsername(wanted), CheckUsername(disguise)} \cap {"malformed"} = {}
     => AbusiveRejection(CheckUsername(wanted)) = AbusiveRejection(CheckUsername(disguise))
=============================================================================
