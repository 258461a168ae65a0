----------------------------- MODULE LogCompare -----------------------------
(***************************************************************************)
(* The whole experiment: the hooks of the kernel fill two logs, one of the *)
(* entries that were swapped in (PteLog's variables) and one of those that *)
(* were swapped out (the same with _OUT); when it is over, the module that *)
(* evaluates it (pteExp.c) is loaded.  Its init_module counts the entries  *)
(* of the first log that are in the second, then looks for a copied page   *)
(* that came back with the content it left with.                           *)
(***************************************************************************)
EXTENDS PteLog, FiniteSets

CONSTANTS
  Experiments,      \* what the kernel can have recorded: see ExperimentTypes
  Contents,         \* what a page can hold
  Scanned           \* slots of the store of swap-outs that are looked at (1000)

\* adds: bound of the model, how many entries each hook records; pagesIn:
\* pageContentStore_IN up to pageFilled_IN; pagesOut: as much of the memory behind
\* pageContentStore_OUT as is looked at, of which filledOut slots were stored to.
PageSlots == [value : Entries, content : Contents]
ExperimentTypes ==
  [adds : 0 .. MaxAdds, pagesIn : Seq(PageSlots), pagesOut : [0 .. Scanned - 1 -> PageSlots],
   filledOut : 0 .. Scanned]

ASSUME LogCompareAssumption ==
  Scanned \in Nat \ {0} /\ Experiments \subseteq ExperimentTypes

VARIABLES
  firstTime_OUT, myPtes_OUT, currentArray_OUT, currentIndex_OUT, overrun_OUT, added_OUT,
  experiment,       \* what is recorded
  pc, i, j, x, y, k,            \* where the module is, and its indices
  similarity,       \* of compTwoArrays
  decision          \* of init_module

Out == INSTANCE PteLog WITH
  firstTime <- firstTime_OUT, myPtes <- myPtes_OUT, currentArray <- currentArray_OUT,
  currentIndex <- currentIndex_OUT, overrun <- overrun_OUT, added <- added_OUT

outVars ==
  <<firstTime_OUT, myPtes_OUT, currentArray_OUT, currentIndex_OUT, overrun_OUT, added_OUT>>
logVars == <<vars, outVars, experiment>>
compareVars == <<pc, i, j, x, y, k, similarity, decision>>

ExperimentInit ==
  /\ Init /\ Out!Init
  /\ experiment \in Experiments
  /\ pc = "recording"
  /\ i = 0 /\ j = 0 /\ x = 0 /\ y = 0 /\ k = 0
  /\ similarity = 0
  /\ decision = TRUE

\* The hook of do_swap_page fills one log, that of shrink_page_list the other.
Hooks ==
  /\ pc = "recording"
  /\ \/ Len(added) < experiment.adds /\ (\E e \in Entries : Record(e)) /\ UNCHANGED outVars
     \/ /\ Len(added_OUT) < experiment.adds
        /\ Out!AllocateOnly \/ \E e \in Entries : Out!Record(e)
        /\ UNCHANGED vars
  /\ UNCHANGED <<experiment, compareVars>>

\* What the comparison of two slots can give: a slot that was never stored to holds
\* anything, and behind the last row there is somebody else's memory.
Element(rows, a, b) == IF a \in Rows THEN rows[a][b] ELSE Unset
SameElement ==
  LET e == Element(myPtes, i, j)
      f == Element(myPtes_OUT, x, y)
  IN IF Unset \in {e, f} THEN BOOLEAN ELSE {e = f}
-----------------------------------------------------------------------------
(* init_module, first part: compTwoArrays if both logs were allocated *)

Goto(label) == pc' = label

Start ==
  /\ pc = "recording"
  /\ Goto(IF firstTime \/ firstTime_OUT THEN "pages" ELSE "outer")
  /\ UNCHANGED <<i, j, x, y, k, similarity, decision>>

\* Mutant of PastEnd: the last entry is left out.
PastEndEarly(a, b, lastArray, lastIndex) == a = lastArray /\ b >= lastIndex

\* The test that ends a loop at the cursor.
PastEnd(a, b, lastArray, lastIndex) == a = lastArray /\ b > lastIndex

InEnds == PastEnd(i, j, currentArray, currentIndex)
OutEnds == PastEnd(x, y, currentArray_OUT, currentIndex_OUT)

\* The loops over the log of swap-ins.
Outer ==
  /\ pc = "outer"
  /\ \/ /\ j < MaxSizeArray /\ ~InEnds
        /\ x' = 0 /\ y' = 0
        /\ Goto("inner")
        /\ UNCHANGED <<i, j>>
     \/ /\ j = MaxSizeArray /\ i < currentArray
        /\ i' = i + 1 /\ j' = 0
        /\ UNCHANGED <<pc, x, y>>
     \/ /\ IF j = MaxSizeArray THEN i = currentArray ELSE InEnds
        /\ i' = 0
        /\ Goto("pages")
        /\ UNCHANGED <<j, x, y>>
  /\ UNCHANGED <<k, similarity, decision>>

\* The loops over the log of swap-outs, for one entry.
NextIter == j' = j + 1 /\ Goto("outer") /\ UNCHANGED <<x, y>>

Inner ==
  /\ pc = "inner"
  /\ \/ /\ y < MaxSizeArray /\ ~OutEnds
        /\ \E same \in SameElement :
             IF same
             THEN similarity' = similarity + 1 /\ NextIter
             ELSE y' = y + 1 /\ UNCHANGED <<pc, j, x, similarity>>
     \/ /\ y = MaxSizeArray /\ x < currentArray_OUT
        /\ x' = x + 1 /\ y' = 0
        /\ UNCHANGED <<pc, j, similarity>>
     \/ /\ IF y = MaxSizeArray THEN x = currentArray_OUT ELSE OutEnds
        /\ NextIter
        /\ UNCHANGED similarity
  /\ UNCHANGED <<i, k, decision>>
-----------------------------------------------------------------------------
(* init_module, second part *)

Agree == experiment.pagesOut[k].content = experiment.pagesIn[i + 1].content

\* Mutant of Pages: the verdict on one page is carried over to the next.
PagesKeepDecision ==
  /\ pc = "pages"
  /\ \/ /\ i < Len(experiment.pagesIn) /\ k < Scanned
        /\ IF experiment.pagesOut[k].value = experiment.pagesIn[i + 1].value
           THEN /\ decision' = (decision /\ Agree)
                /\ Goto(IF decision /\ Agree THEN "match" ELSE "pages")
           ELSE UNCHANGED <<decision, pc>>
        /\ k' = k + 1 /\ UNCHANGED i
     \/ /\ i < Len(experiment.pagesIn) /\ k = Scanned
        /\ i' = i + 1 /\ k' = 0
        /\ UNCHANGED <<pc, decision>>
     \/ i = Len(experiment.pagesIn) /\ Goto("end") /\ UNCHANGED <<i, k, decision>>
  /\ UNCHANGED <<j, x, y, similarity>>

\* For each page that came in, the slots of the other store in turn, until one matches.
\* A mismatch clears decision for the rest of the slots.
Pages ==
  /\ pc = "pages"
  /\ \/ /\ i < Len(experiment.pagesIn) /\ k < Scanned
        /\ IF experiment.pagesOut[k].value = experiment.pagesIn[i + 1].value
           THEN /\ decision' = (decision /\ Agree)
                /\ Goto(IF decision /\ Agree THEN "match" ELSE "pages")
           ELSE UNCHANGED <<decision, pc>>
        /\ k' = k + 1 /\ UNCHANGED i
     \/ /\ i < Len(experiment.pagesIn) /\ k = Scanned
        /\ i' = i + 1 /\ k' = 0 /\ decision' = TRUE
        /\ UNCHANGED pc
     \/ i = Len(experiment.pagesIn) /\ Goto("end") /\ UNCHANGED <<i, k, decision>>
  /\ UNCHANGED <<j, x, y, similarity>>

ExperimentNext ==
  Hooks \/ ((Start \/ Outer \/ Inner \/ Pages) /\ UNCHANGED logVars)

ExperimentSpec == ExperimentInit /\ [][ExperimentNext]_<<logVars, compareVars>>
-----------------------------------------------------------------------------
Kept(log) == {n \in DOMAIN log : n <= Capacity}
FoundIn == {n \in Kept(added) : \E m \in Kept(added_OUT) : added_OUT[m] = added[n]}

\* compTwoArrays counts the entries of the first log that are in the second, and never
\* looks at a slot between a cursor and the end of its log: the count is exact unless
\* addInArray stored an entry behind a log, which is then compared too.
CountIsExact ==
  pc \in {"pages", "match", "end"} /\ ~firstTime /\ ~firstTime_OUT =>
    IF overrun = {} /\ overrun_OUT = {}
    THEN similarity = Cardinality(FoundIn)
    ELSE similarity >= Cardinality(FoundIn) /\ similarity <= Len(added)

Pair(m, n) == experiment.pagesIn[m] = experiment.pagesOut[n]
FilledApart ==
  \A m, n \in 0 .. experiment.filledOut - 1 :
    experiment.pagesOut[m].value = experiment.pagesOut[n].value => m = n

\* A match is one.  The slots that were never filled, which are looked at too, can add a
\* match but not hide one, and neither can a page that came back changed, provided no
\* entry was copied out twice.
VerdictIsRight ==
  /\ pc = "match" => \E m \in DOMAIN experiment.pagesIn, n \in 0 .. Scanned - 1 : Pair(m, n)
  /\ pc = "end" /\ FilledApart
       => \A m \in DOMAIN experiment.pagesIn, n \in 0 .. experiment.filledOut - 1 : ~Pair(m, n)
=============================================================================
