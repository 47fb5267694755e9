---------------------------- MODULE ScratchSource ----------------------------
(***************************************************************************)
(* The source algorithms of the scratch checker                            *)
(* (formal/shinka/shinka_lean_check.py): the evolve block and its append   *)
(* point, appending a snippet, applying a unified diff, the source policy  *)
(* and imports.  A source is a sequence of lines, and a line is a token:   *)
(* one of the markers, an import line, the namespace line, a declaration.  *)
(***************************************************************************)
EXTENDS Integers, Sequences, FiniteSets

CONSTANTS Lines,      \* the lines that a source may have
          Names,      \* names of Lean modules
          InLibrary,  \* those that the project's library may contain
          Forbidden   \* lines that the source policy bans

StartMark == "-- EVOLVE-BLOCK-START"
EndMark   == "-- EVOLVE-BLOCK-END"
Sentinel  == "-- SHINKA-APPEND-HERE"
Namespace == "namespace"
Import(n) == <<"import", n>>

Markers == {<<StartMark>>, <<EndMark>>, <<Sentinel>>}
IsImport(line) == line[1] = "import"
Imported(line) == line[2]

Where(s, mark) == {i \in DOMAIN s : s[i] = <<mark>>}
At(s, mark) == CHOOSE i \in Where(s, mark) : TRUE

\* The elements of s at the positions I, in order.
Picked(s, I) ==
    LET kept[i \in 0 .. Len(s)] == IF i = 0 THEN <<>>
                                   ELSE IF i \in I THEN Append(kept[i - 1], s[i])
                                   ELSE kept[i - 1]
    IN  kept[Len(s)]
ASSUME SourceAssumption ==
    /\ Markers \cup {<<Namespace>>} \subseteq Lines
    /\ \A line \in Lines : IsImport(line) => Imported(line) \in Names
    /\ InLibrary \subseteq Names
    /\ Markers \cap Forbidden = {}
-------------------------------------------------------------------------------
(* The evolve block *)

Bounded(s) == /\ Cardinality(Where(s, StartMark)) = 1
              /\ Cardinality(Where(s, EndMark)) = 1
              /\ At(s, StartMark) < At(s, EndMark)

Outside(s) == <<SubSeq(s, 1, At(s, StartMark)), SubSeq(s, At(s, EndMark), Len(s))>>

\* Where text may be added: before the sentinel, or at the end of the block.
Insertion(s) == IF Where(s, Sentinel) = {} THEN At(s, EndMark) ELSE At(s, Sentinel)

Anchored(s) == /\ Bounded(s)
               /\ Cardinality(Where(s, Sentinel)) \leq 1
               /\ \A i \in Where(s, Sentinel) : At(s, StartMark) < i /\ i < At(s, EndMark)

Prefix(s) == SubSeq(s, 1, Insertion(s) - 1)
Suffix(s) == SubSeq(s, Insertion(s), Len(s))

StartsWith(s, t) == Len(t) \leq Len(s) /\ SubSeq(s, 1, Len(t)) = t

\* Mutant: the old text may be anywhere before the append point.
ExtendsShuffled(parent, s) ==
    /\ Anchored(parent) /\ Anchored(s)
    /\ Suffix(s) = Suffix(parent)
    /\ {Prefix(parent)[i] : i \in DOMAIN Prefix(parent)}
          \subseteq {Prefix(s)[i] : i \in DOMAIN Prefix(s)}

\* validate_append_only_extension
Extends(parent, s) == /\ Anchored(parent) /\ Anchored(s)
                      /\ Suffix(s) = Suffix(parent)
                      /\ StartsWith(Prefix(s), Prefix(parent))
-------------------------------------------------------------------------------
(* append_to_parent and apply_unified_diff *)

\* A PolicyFailure: no source, which the policy refuses like the empty one.
Rejected == <<>>

AppendToParent(parent, snippet) ==
    IF /\ snippet # <<>>
       /\ \A i \in DOMAIN snippet : snippet[i] \notin {<<StartMark>>, <<EndMark>>}
       /\ Bounded(parent)
       /\ Cardinality(Where(parent, Sentinel)) \leq 1
       /\ At(parent, StartMark) < Insertion(parent)
       /\ Insertion(parent) \leq At(parent, EndMark)
    THEN Prefix(parent) \o snippet \o Suffix(parent)
    ELSE Rejected

\* A hunk: the first line and the number of lines of either side, and its body
\* of <<sign, line>>.  Side keeps the lines with a sign of signs.
Side(body, signs) ==
    LET kept == Picked(body, {i \in DOMAIN body : body[i][1] \in signs})
    IN  [i \in DOMAIN kept |-> kept[i][2]]

\* One hunk, after `cursor` lines of the parent gave `output`.
Target(h, state) ==
    (IF h.newCount > 0 THEN h.new - 1 ELSE h.new) - (Len(state.output) - state.cursor)

HunkFits(parent, h, state) ==
    LET target == Target(h, state)
        old    == Side(h.body, {" ", "-"})
    IN  /\ \/ target = (IF h.oldCount > 0 THEN h.old - 1 ELSE h.old)
           \/ h.oldCount = 0 /\ h.old = 1 /\ target = 0
        /\ state.cursor \leq target
        /\ target + Len(old) \leq Len(parent)
        /\ SubSeq(parent, target + 1, target + Len(old)) = old
        /\ Len(old) = h.oldCount
        /\ Len(Side(h.body, {" ", "+"})) = h.newCount

ApplyHunk(parent, h, state) ==
    LET target == Target(h, state)
    IN  [cursor |-> target + h.oldCount,
         output |-> state.output \o SubSeq(parent, state.cursor + 1, target)
                                 \o Side(h.body, {" ", "+"}),
         ok     |-> TRUE]

ApplyUnifiedDiff(parent, hunks) ==
    LET state[i \in 0 .. Len(hunks)] ==
            IF i = 0 THEN [cursor |-> 0, output |-> <<>>, ok |-> hunks # <<>>]
            ELSE IF state[i - 1].ok /\ HunkFits(parent, hunks[i], state[i - 1])
            THEN ApplyHunk(parent, hunks[i], state[i - 1])
            ELSE [state[i - 1] EXCEPT !.ok = FALSE]
        last == state[Len(hunks)]
    IN  IF last.ok THEN last.output \o SubSeq(parent, last.cursor + 1, Len(parent))
        ELSE Rejected
-------------------------------------------------------------------------------
(* Imports and policy *)

AllImports(s) == {Imported(s[i]) : i \in {j \in DOMAIN s : IsImport(s[j])}}

\* The lines of the header: the imports before anything else.
Header(s) == {i \in DOMAIN s : \A j \in 1 .. i : IsImport(s[j])}
AllHeader(s) == {Imported(s[i]) : i \in Header(s)}
HeaderImports(s) == [i \in 1 .. Cardinality(Header(s)) |-> Imported(s[i])]

\* Mutant: every import line is taken out of the stream.
WithoutAnyImports(s) == Picked(s, {i \in DOMAIN s : ~IsImport(s[i])})

WithoutImports(s) == SubSeq(s, Cardinality(Header(s)) + 1, Len(s))

\* The patterns are looked for where the text is no comment and no string.
Violations(s) == {i \in DOMAIN s : s[i] \in Forbidden}

\* validate_candidate_policy; a parent of <<>> is none.
Permitted(s, parent) ==
    /\ AllImports(s) # {} /\ AllImports(s) \subseteq InLibrary
    /\ <<Namespace>> \in {s[i] : i \in DOMAIN s}
    /\ Bounded(s)
    /\ parent # <<>> => Bounded(parent) /\ Outside(s) = Outside(parent) /\ Extends(parent, s)
    /\ Violations(s) = {}

\* The declarations of a source, in order.
IsDeclaration(line) == line \notin Markers /\ line # <<Namespace>> /\ ~IsImport(line)
Declarations(s) == Picked(s, {i \in DOMAIN s : IsDeclaration(s[i])})
-------------------------------------------------------------------------------
(* checkpoint.materialize_sources *)

EvolveBlock(s) == SubSeq(s, At(s, StartMark) + 1, At(s, EndMark) - 1)
Content(s) == Picked(s, {i \in DOMAIN s : s[i] # <<Sentinel>>})

\* Mutant: the delta goes before what the checkpoint has.
MaterializeBefore(checkpoint, delta) ==
    SubSeq(checkpoint, 1, At(checkpoint, StartMark))
        \o Content(EvolveBlock(delta)) \o Content(EvolveBlock(checkpoint))
        \o <<<<Sentinel>>>>
        \o SubSeq(checkpoint, At(checkpoint, EndMark), Len(checkpoint))

\* One standalone source with one sentinel, at the end of the block.
Materialize(checkpoint, delta) ==
    SubSeq(checkpoint, 1, At(checkpoint, StartMark))
        \o Content(EvolveBlock(checkpoint)) \o Content(EvolveBlock(delta))
        \o <<<<Sentinel>>>>
        \o SubSeq(checkpoint, At(checkpoint, EndMark), Len(checkpoint))
===============================================================================
