--------------------------- MODULE SymbolInterner ---------------------------
(***************************************************************************)
(* The interner of published strings and the merge of the workers' ones    *)
(* (src/src/SymbolInterner.cpp, semantics/SemanticsWorkerSymbolMerge.cpp). *)
(*                                                                         *)
(* A text is a number, in lexical order; NoText is the empty one.  A       *)
(* definition publishes its path, its return kind and, if it has them, an  *)
(* effect, a capability and an error handler.  An origin is the            *)
(* definition's place in stable order and the field of the fact that names *)
(* the text; an interner or a snapshot is the sequence of its texts with   *)
(* their first origins.                                                    *)
(***************************************************************************)
EXTENDS Integers, Sequences, FiniteSets, SequencesExt

NoText == 0

Origin(d, field) == [definition |-> d, field |-> field]

OriginLess(a, b) ==
  \/ a.definition < b.definition
  \/ a.definition = b.definition /\ a.field < b.field

\* What interning without an origin means: after all others.
NoOrigin == Origin(2147483647, 2147483647)

Symbol(text, origin) == [text |-> text, origin |-> origin]

-----------------------------------------------------------------------------
\* A text is added once, and keeps the least of its origins.  KeepOrigin keeps
\* the first one.
KeepOrigin(interner, i, symbol) == interner
LowerOrigin(interner, i, symbol) ==
  IF OriginLess(symbol.origin, interner[i].origin)
  THEN [interner EXCEPT ![i] = symbol] ELSE interner

Intern(interner, symbol) ==
  LET existing == {i \in DOMAIN interner : interner[i].text = symbol.text} IN
  IF symbol.text = NoText THEN interner
  ELSE IF existing = {} THEN Append(interner, symbol)
  ELSE LowerOrigin(interner, CHOOSE i \in existing : TRUE, symbol)

\* The fields of a callable summary and of an on-error fact.
SummaryStrings(d, publication) ==
  <<Symbol(publication.path, Origin(d, 0)), Symbol(publication.returnKind, Origin(d, 1)),
    Symbol(publication.effect, Origin(d, 2)), Symbol(publication.capability, Origin(d, 32)),
    Symbol(publication.handler, Origin(d, 66))>>

OnErrorStrings(d, publication) ==
  IF publication.handler = NoText THEN <<>>
  ELSE <<Symbol(publication.path, Origin(d, 0)), Symbol(publication.returnKind, Origin(d, 1)),
         Symbol(publication.handler, Origin(d, 2))>>

\* Symbols are interned one after the other.
InternAll(interner, symbols) ==
  LET after[n \in 0 .. Len(symbols)] ==
        IF n = 0 THEN interner ELSE Intern(after[n - 1], symbols[n])
  IN after[Len(symbols)]

\* All summaries in their order, then all on-error facts in theirs.
AppendPublicationStrings(interner, publications, summaries, onErrors) ==
  InternAll(interner,
    FlattenSeq([i \in DOMAIN summaries |->
                  SummaryStrings(summaries[i], publications[summaries[i]])]) \o
    FlattenSeq([i \in DOMAIN onErrors |->
                  OnErrorStrings(onErrors[i], publications[onErrors[i]])]))

-----------------------------------------------------------------------------
(***************************************************************************)
(* mergeWorkerSnapshotsDeterministic: of each text the least candidate, in *)
(* the candidates' order.  Snapshots come in the order of their partition  *)
(* keys.                                                                   *)
(***************************************************************************)
Candidates(snapshots) ==
  UNION {{[symbol |-> snapshots[r][i], snapshotRank |-> r, localIndex |-> i] :
            i \in DOMAIN snapshots[r]} : r \in DOMAIN snapshots}

\* BySnapshot looks at the origin last.
BySnapshot(a, b) ==
  \/ a.snapshotRank < b.snapshotRank
  \/ a.snapshotRank = b.snapshotRank /\ a.localIndex < b.localIndex
CandidateLess(a, b) ==
  \/ OriginLess(a.symbol.origin, b.symbol.origin)
  \/ /\ a.symbol.origin = b.symbol.origin
     /\ \/ a.snapshotRank < b.snapshotRank
        \/ a.snapshotRank = b.snapshotRank /\ a.localIndex < b.localIndex

Representatives(candidates) ==
  {c \in candidates : \A other \in candidates :
     other.symbol.text = c.symbol.text => ~CandidateLess(other, c)}

\* The merged interner gets the texts alone.
MergeSnapshots(snapshots) ==
  LET chosen == Representatives(Candidates(snapshots))
      NotAfter(c) == {other \in chosen : ~CandidateLess(c, other)}
  IN [i \in 1 .. Cardinality(chosen) |->
        Symbol((CHOOSE c \in chosen : Cardinality(NotAfter(c)) = i).symbol.text, NoOrigin)]

TextsOf(interner) == [i \in DOMAIN interner |-> interner[i].text]
=============================================================================
