------------------------------ MODULE TextMerge ------------------------------
(***************************************************************************)
(* The line diffs and three-way merges of the checkpoints                    *)
(* (internal/checkpoint/textdiff): common blocks of two texts by the linear  *)
(* space algorithm of Myers, the merge of two texts with their base, and the *)
(* hunks of a diff.                                                          *)
(*                                                                          *)
(* The three texts are edited line by line, and compared or merged as they   *)
(* are at any moment. Offsets count from 0, as in the code.                  *)
(*                                                                          *)
(* Abstracted: a line is a value; the labels of the conflict markers.        *)
(***************************************************************************)
EXTENDS Integers, SequencesExt, FiniteSetsExt

CONSTANTS
    Lines,
    MaxTexts,      \* bound: lines of the three texts together
    StepLimits,    \* what the step limit of the search can be
    Contexts       \* lines of context around a hunk

ASSUME TextBounds ==
    /\ MaxTexts \in Nat /\ Contexts \subseteq Nat
    /\ StepLimits \subseteq Nat \ {0}

VARIABLES
    texts,         \* the base and the two sides
    stepLimit,
    answer         \* what the last command has computed, NoAnswer after an edit

textVars == <<texts, stepLimit, answer>>

NoAnswer == [sort |-> "none"]
Sides == {"base", "ours", "theirs"}

TextsInit ==
    /\ texts = [side \in Sides |-> <<>>]
    /\ stepLimit \in StepLimits
    /\ answer = NoAnswer

----------------------------------------------------------------------------
Texts == Seq(Lines)
Bigger(i, j) == IF i > j THEN i ELSE j
Smaller(i, j) == IF i < j THEN i ELSE j
From(s, i) == SubSeq(s, i + 1, Len(s))
To0(s, i) == SubSeq(s, 1, i)

\* How many lines two texts share at their start, and at their end.
Prefix(a, b) ==
    Max({n \in 0..Smaller(Len(a), Len(b)) : To0(a, n) = To0(b, n)})
Suffix(a, b) == Prefix(Reverse(a), Reverse(b))

\* The next n lines after i and j, as pairs of a line and its partner.
Pairs(i, j, n) == [l \in 1..n |-> <<i + l, j + l>>]

----------------------------------------------------------------------------
\* diagonalBounds.
Diagonals(step, n, m) == {k \in Bigger(-step, -m)..Smaller(step, n) : (k + step) % 2 = 0}

\* reachable: the furthest point on diagonal k, one edit after the last step.
Reachable(paths, k, n, m) ==
    Max({-1} \cup {x + 1 : x \in {paths[k - 1]} \cap 0..(n - 1)}
             \cup {x \in {paths[k + 1]} : x >= 0 /\ x - (k + 1) < m})

\* One step of split on every diagonal. The diagonals next to those of a step
\* are of the step before, so that their order does not matter.
Advance(paths, a, b, step) ==
    [k \in DOMAIN paths |->
        IF k \notin Diagonals(step, Len(a), Len(b)) THEN paths[k]
        ELSE LET x == Reachable(paths, k, Len(a), Len(b)) IN
             IF x < 0 THEN x ELSE x + Prefix(From(a, x), From(b, x - k))]

\* split: the first point where the paths from both ends meet, or the furthest
\* one that a path from the start has reached when the steps run out.
split[a, b \in Texts] ==
    LET n == Len(a)
        m == Len(b)
        delta == n - m
        most == Smaller((n + m + 1) \div 2, stepLimit)
        start == [k \in -(n + m + 1)..(n + m + 1) |-> IF k = 0 THEN 0 ELSE -1]
        ahead[step \in 0..most] ==
            IF step = 0 THEN start ELSE Advance(ahead[step - 1], a, b, step)
        back[step \in 0..most] ==
            IF step = 0 THEN start ELSE Advance(back[step - 1], Reverse(a), Reverse(b), step)
        Meets(x, y) == x >= 0 /\ y >= 0 /\ x + y >= n
        \* An odd distance is found by the paths from the start, an even one by
        \* those from the end.
        MeetsAt(step, k) ==
            /\ k \in Diagonals(step, n, m) /\ delta - k \in DOMAIN start
            /\ IF delta % 2 # 0 THEN Meets(ahead[step][k], back[step - 1][delta - k])
               ELSE Meets(back[step][k], ahead[step][delta - k])
        ReachedAt(step, k) == k \in Diagonals(step, n, m) /\ ahead[step][k] >= 0
        met == {p \in (1..most) \X DOMAIN start : MeetsAt(p[1], p[2])}
        reached == {p \in (1..most) \X DOMAIN start : ReachedAt(p[1], p[2])}
        Sum(p) == 2 * ahead[p[1]][p[2]] - p[2]
        Before(p, q) == p[1] < q[1] \/ (p[1] = q[1] /\ p[2] <= q[2])
        first == CHOOSE p \in met : \A q \in met : Before(p, q)
        furthest == CHOOSE p \in reached : \A q \in reached :
                      Sum(q) < Sum(p) \/ (Sum(q) = Sum(p) /\ Before(p, q))
        Point(step, k) == <<ahead[step][k], ahead[step][k] - k>>
    IN
    IF met = {} THEN Point(furthest[1], furthest[2])
    ELSE IF delta % 2 # 0 THEN Point(first[1], first[2])
    ELSE Point(first[1], delta - first[2])

\* align: the pairs of equal lines between two places of each text.
aligned[a, b \in Texts] ==
    LET align[aLow, aHigh \in 0..Len(a), bLow, bHigh \in 0..Len(b)] ==
          LET low == Prefix(SubSeq(a, aLow + 1, aHigh), SubSeq(b, bLow + 1, bHigh))
              high == Suffix(SubSeq(a, aLow + low + 1, aHigh), SubSeq(b, bLow + low + 1, bHigh))
              midA == SubSeq(a, aLow + low + 1, aHigh - high)
              midB == SubSeq(b, bLow + low + 1, bHigh - high)
              halves[x, y \in Nat] ==
                align[aLow + low, aLow + low + x, bLow + low, bLow + low + y]
                  \o align[aLow + low + x, aHigh - high, bLow + low + y, bHigh - high]
          IN  Pairs(aLow, bLow, low)
                \o (IF midA = <<>> \/ midB = <<>> THEN <<>> ELSE halves[split[midA, midB]])
                \o Pairs(aHigh - high, bHigh - high, high)
    IN  align[0, Len(a), 0, Len(b)]

\* appendMiddleBlocks: lines of one side only are left out of the search.
Middle(a, b, offset) ==
    LET Kept(s, other) == SetToSortSeq({i \in DOMAIN s : Contains(other, s[i])}, <)
        keptA == Kept(a, b)
        keptB == Kept(b, a)
        placed[pairs \in Seq(Nat \X Nat)] ==
          [l \in DOMAIN pairs |-> <<keptA[pairs[l][1]] + offset, keptB[pairs[l][2]] + offset>>]
    IN  placed[aligned[[i \in DOMAIN keptA |-> a[keptA[i]]],
                       [i \in DOMAIN keptB |-> b[keptB[i]]]]]

AppendBlockOfOneText(blocks, pair) ==
    IF blocks # <<>> /\ Last(blocks).aStart + Last(blocks).length + 1 = pair[1]
    THEN Append(Front(blocks), [Last(blocks) EXCEPT !.length = @ + 1])
    ELSE Append(blocks, [aStart |-> pair[1] - 1, bStart |-> pair[2] - 1, length |-> 1])

\* appendBlock: what goes on where the last block ends extends it.
AppendBlock(blocks, pair) ==
    IF blocks # <<>> /\ Last(blocks).aStart + Last(blocks).length + 1 = pair[1]
                     /\ Last(blocks).bStart + Last(blocks).length + 1 = pair[2]
    THEN Append(Front(blocks), [Last(blocks) EXCEPT !.length = @ + 1])
    ELSE Append(blocks, [aStart |-> pair[1] - 1, bStart |-> pair[2] - 1, length |-> 1])

commonBlocks(a, b) ==
    LET prefix == Prefix(a, b)
        suffix == Suffix(From(a, prefix), From(b, prefix))
        blocks[pairs \in Seq(Nat \X Nat)] == FoldLeft(AppendBlock, <<>>, pairs)
    IN  blocks[Pairs(0, 0, prefix)
                 \o Middle(SubSeq(a, prefix + 1, Len(a) - suffix),
                           SubSeq(b, prefix + 1, Len(b) - suffix), prefix)
                 \o Pairs(Len(a) - suffix, Len(b) - suffix, suffix)]

Edits(op, lines) == [i \in DOMAIN lines |-> [op |-> op, line |-> lines[i]]]

\* Diff: between the blocks, first what is deleted and then what is inserted.
Diff(a, b) ==
    LET Gap(done, block) ==
            [aAt |-> block.aStart + block.length, bAt |-> block.bStart + block.length,
             script |-> done.script
                \o Edits("delete", SubSeq(a, done.aAt + 1, block.aStart))
                \o Edits("insert", SubSeq(b, done.bAt + 1, block.bStart))
                \o Edits("equal", SubSeq(a, block.aStart + 1, block.aStart + block.length))]
    IN  FoldLeft(Gap, [aAt |-> 0, bAt |-> 0, script |-> <<>>],
                 Append(commonBlocks(a, b),
                        [aStart |-> Len(a), bStart |-> Len(b), length |-> 0])).script

----------------------------------------------------------------------------
\* syncRegions: a round of the walk over the blocks of both sides finds what two
\* of them have in common, and leaves the one that ends first.
Walk(ours, theirs, at) ==
    LET o == ours[at.our]
        t == theirs[at.their]
        oEnd == o.aStart + o.length
        tEnd == t.aStart + t.length
        region == [start |-> Bigger(o.aStart, t.aStart), end |-> Smaller(oEnd, tEnd),
                   our |-> o.bStart - o.aStart, their |-> t.bStart - t.aStart]
    IN  IF at.our > Len(ours) \/ at.their > Len(theirs) THEN at
        ELSE [our |-> IF oEnd < tEnd THEN at.our + 1 ELSE at.our,
              their |-> IF oEnd < tEnd THEN at.their ELSE at.their + 1,
              regions |-> IF region.start < region.end THEN Append(at.regions, region)
                          ELSE at.regions]

Walks(ours, theirs) ==
    LET walk[n \in 0..(Len(ours) + Len(theirs))] ==
          IF n = 0 THEN [our |-> 1, their |-> 1, regions |-> <<>>]
          ELSE Walk(ours, theirs, walk[n - 1])
    IN  walk

\* The stretches of the base that both sides have, with the offsets of the sides
\* in them.
syncRegions(ours, theirs) == Walks(ours, theirs)[Len(ours) + Len(theirs)].regions

Markers == {"ours:", "base:", "theirs:", "end"}

\* A stretch that the sides have changed: both alike, one of them, or both in
\* different ways, which are written between markers.
Resolve(base, ours, theirs) ==
    IF ours = theirs \/ theirs = base THEN ours
    ELSE IF ours = base THEN theirs
    ELSE <<"ours:">> \o ours \o <<"base:">> \o base \o <<"theirs:">> \o theirs \o <<"end">>
Clashes(base, ours, theirs) == ours # theirs /\ theirs # base /\ ours # base

\* Merge3: the lines of a region, after those that the sides have changed before it.
Next3(base, ours, theirs, done, region) ==
    LET b == SubSeq(base, done.at + 1, region.start)
        o == SubSeq(ours, done.our + 1, region.start + region.our)
        t == SubSeq(theirs, done.their + 1, region.start + region.their)
    IN  [lines |-> done.lines \o Resolve(b, o, t) \o SubSeq(base, region.start + 1, region.end),
         conflicts |-> done.conflicts + IF Clashes(b, o, t) THEN 1 ELSE 0,
         at |-> region.end, our |-> region.end + region.our,
         their |-> region.end + region.their]

Merging(base, ours, theirs, regions) ==
    LET done[n \in 0..Len(regions)] ==
          IF n = 0 THEN [lines |-> <<>>, conflicts |-> 0, at |-> 0, our |-> 0, their |-> 0]
          ELSE Next3(base, ours, theirs, done[n - 1], regions[n])
    IN  done

Regions(base, ours, theirs, ourBlocks, theirBlocks) ==
    Append(syncRegions(ourBlocks, theirBlocks),
           [start |-> Len(base), end |-> Len(base),
            our |-> Len(ours) - Len(base), their |-> Len(theirs) - Len(base)])

Merge3(base, ours, theirs) ==
    LET regions == Regions(base, ours, theirs, commonBlocks(base, ours), commonBlocks(base, theirs))
    IN  Merging(base, ours, theirs, regions)[Len(regions)]

----------------------------------------------------------------------------
Counts(edits, op) == Len(SelectSeq(edits, LAMBDA e : e.op # op))

\* Hunks: changes with at most 2*context lines between them are in one hunk.
Hunks(edits, context) ==
    LET last == Len(edits)
        hunkEnd[end \in 0..last] ==
          LET gap == Max({n \in 0..(last - end) : \A i \in 1..n : edits[end + i].op = "equal"})
          IN  IF end = last THEN last
              ELSE IF gap = 0 THEN hunkEnd[end + 1]
              ELSE IF gap > 2 * context \/ end + gap = last THEN Smaller(end + context, last)
              ELSE hunkEnd[end + gap]
        \* From an edit on, at positions aAt and bAt of the texts.
        hunks[index, aAt, bAt \in 0..last] ==
          IF index = last THEN <<>>
          ELSE IF edits[index + 1].op = "equal" THEN hunks[index + 1, aAt + 1, bAt + 1]
          ELSE LET start == Bigger(index - context, 0)
                   lines == SubSeq(edits, start + 1, hunkEnd[index])
                   hunk == [aStart |-> aAt - (index - start), aCount |-> Counts(lines, "insert"),
                            bStart |-> bAt - (index - start), bCount |-> Counts(lines, "delete"),
                            lines |-> lines]
               IN  <<hunk>> \o hunks[hunkEnd[index], hunk.aStart + hunk.aCount,
                                                    hunk.bStart + hunk.bCount]
    IN  hunks[0, 0, 0]

----------------------------------------------------------------------------
Size == Len(texts["base"]) + Len(texts["ours"]) + Len(texts["theirs"])

\* The user, the box or a checkpoint changes one of the texts.
EditText ==
    /\ \E side \in Sides :
       \/ /\ Size < MaxTexts
          /\ \E line \in Lines : texts' = [texts EXCEPT ![side] = Append(@, line)]
       \/ /\ texts[side] # <<>>
          /\ texts' = [texts EXCEPT ![side] = Tail(@)]
    /\ answer' = NoAnswer
    /\ UNCHANGED stepLimit

\* Unified, of the base and ours.
Unified ==
    /\ answer = NoAnswer
    /\ \E context \in Contexts :
       \E script \in {Diff(texts["base"], texts["ours"])} :
         answer' = [sort |-> "diff", script |-> script, context |-> context,
                    hunks |-> Hunks(script, context)]
    /\ UNCHANGED <<texts, stepLimit>>

\* planMergedFile, for texts.
MergeFile ==
    /\ answer = NoAnswer
    /\ \E merged \in {Merge3(texts["base"], texts["ours"], texts["theirs"])} :
       answer' = [sort |-> "merge", lines |-> merged.lines, conflicts |-> merged.conflicts]
    /\ UNCHANGED <<texts, stepLimit>>

TextsNext == EditText \/ Unified \/ MergeFile

TextsSpec == TextsInit /\ [][TextsNext]_textVars
----------------------------------------------------------------------------
Times(line, lines) == Cardinality({i \in DOMAIN lines : lines[i] = line})
LinesOf(edits, op) ==
    LET kept == SelectSeq(edits, LAMBDA e : e.op # op)
    IN  [i \in DOMAIN kept |-> kept[i].line]

\* Reference: the most lines, in order, that two texts have in common.
Common(a, b) ==
    LET most[i \in 0..Len(a), j \in 0..Len(b)] ==
            IF i = 0 \/ j = 0 THEN 0
            ELSE IF a[i] = b[j] THEN 1 + most[i - 1, j - 1]
            ELSE Bigger(most[i - 1, j], most[i, j - 1])
    IN  most[Len(a), Len(b)]

Block == [aStart : Nat, bStart : Nat, length : Nat]
Blocks == Seq(Block)

\* Blocks are stretches that two texts have in common, in the order of both, and
\* those of a text with itself are where they are.
BlocksFit(a, b, blocks) ==
    /\ blocks \in Blocks
    /\ \A i \in DOMAIN blocks :
         LET x == blocks[i] IN
         /\ x.aStart + x.length <= Len(a) /\ x.bStart + x.length <= Len(b)
         /\ \A l \in 1..x.length : a[x.aStart + l] = b[x.bStart + l]
    /\ \A i, j \in DOMAIN blocks : i < j =>
         /\ blocks[i].aStart + blocks[i].length <= blocks[j].aStart
         /\ blocks[i].bStart + blocks[i].length <= blocks[j].bStart
    /\ a = b => \A i \in DOMAIN blocks : blocks[i].aStart = blocks[i].bStart

\* A merge whose result is lines takes the changes of both sides.
SidesAreTaken(base, ours, theirs, lines, conflicts) ==
    /\ base = ours => conflicts = 0 /\ lines = theirs
    /\ base = theirs \/ ours = theirs => conflicts = 0 /\ lines = ours
    /\ \A line \in Lines \ Markers :
         /\ ~Contains(base, line) =>
              /\ ~Contains(theirs, line) => Times(line, lines) = Times(line, ours)
              /\ ~Contains(ours, line) => Times(line, lines) = Times(line, theirs)
         /\ conflicts = 0 /\ ~Contains(ours, line) /\ ~Contains(theirs, line)
              => ~Contains(lines, line)

\* The script turns one text into the other, with as few edits as possible
\* unless the step limit cuts the search.
DiffIsExact(a, b, script) ==
    /\ LinesOf(script, "insert") = a /\ LinesOf(script, "delete") = b
    /\ 2 * stepLimit >= Len(a) + Len(b) =>
         Cardinality({i \in DOMAIN script : script[i].op = "equal"}) = Common(a, b)

\* Every change is in one hunk, and the lines of a hunk are where it says.
HunksApply(a, b, script, hunks) ==
    /\ LET Changes(edits) == SelectSeq(edits, LAMBDA e : e.op # "equal")
       IN  Changes(FlattenSeq([i \in DOMAIN hunks |-> hunks[i].lines])) = Changes(script)
    /\ \A i \in DOMAIN hunks :
         LET h == hunks[i] IN
         /\ SubSeq(a, h.aStart + 1, h.aStart + h.aCount) = LinesOf(h.lines, "insert")
         /\ SubSeq(b, h.bStart + 1, h.bStart + h.bCount) = LinesOf(h.lines, "delete")
         /\ i > 1 => /\ h.aStart >= hunks[i - 1].aStart + hunks[i - 1].aCount
                     /\ h.bStart >= hunks[i - 1].bStart + hunks[i - 1].bCount

\* Reference: between two lines of the base that both sides have kept, and none
\* in between, what both sides have changed in different ways is one conflict.
Conflicts(base, ours, theirs, ourBlocks, theirBlocks) ==
    LET Kept(blocks) == UNION {{<<run.aStart + i, run.bStart + i>> : i \in 1..run.length} :
                                 run \in ToSet(blocks)}
        stable == {<<pair[1][1], pair[1][2], pair[2][2]>> : pair \in
                     {x \in Kept(ourBlocks) \X Kept(theirBlocks) : x[1][1] = x[2][1]}}
        anchors == {<<0, 0, 0>>, <<Len(base) + 1, Len(ours) + 1, Len(theirs) + 1>>} \cup stable
        Between(text, from, to) == SubSeq(text, from + 1, to - 1)
    IN  Cardinality({p \in anchors : \E q \in anchors :
          /\ p[1] < q[1] /\ ~\E r \in anchors : p[1] < r[1] /\ r[1] < q[1]
          /\ Clashes(Between(base, p[1], q[1]), Between(ours, p[2], q[2]),
                     Between(theirs, p[3], q[3]))})

\* The blocks that a merge of the texts compares.
AlignmentFits ==
    /\ BlocksFit(texts["base"], texts["ours"], commonBlocks(texts["base"], texts["ours"]))
    /\ BlocksFit(texts["base"], texts["theirs"], commonBlocks(texts["base"], texts["theirs"]))

\* A merge takes the changes of both sides of its texts.
MergeTakesBoth ==
    answer.sort = "merge" =>
      SidesAreTaken(texts["base"], texts["ours"], texts["theirs"], answer.lines, answer.conflicts)

(* A diff is exact and its hunks can be applied (diff.go, hunk.go). A merge  *)
(* takes the changes of both sides: a side that has changed nothing gives    *)
(* way to the other, a line that only one side has is in the result exactly  *)
(* as often as in that side, whether or not there are conflicts, a line that *)
(* both have dropped does not come back, and what is a conflict does not     *)
(* depend on how the walk over the blocks of the two sides cuts them         *)
(* (merge.go). The search by diagonals, which an off-by-one would spoil for  *)
(* a few inputs only, never leaves its arrays.                               *)
MergeIsFaithful ==
    LET base == texts["base"]
        ours == texts["ours"]
        theirs == texts["theirs"]
    IN
    /\ answer.sort = "diff" =>
         /\ DiffIsExact(base, ours, answer.script)
         /\ HunksApply(base, ours, answer.script, answer.hunks)
    /\ MergeTakesBoth
    /\ answer.sort = "merge" =>
         LET ourBlocks == commonBlocks(base, ours)
             theirBlocks == commonBlocks(base, theirs)
         IN  /\ BlocksFit(base, ours, ourBlocks) /\ BlocksFit(base, theirs, theirBlocks)
             /\ answer.conflicts = Conflicts(base, ours, theirs, ourBlocks, theirBlocks)
============================================================================
