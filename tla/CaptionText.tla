---------------------------- MODULE CaptionText ----------------------------
(***************************************************************************)
(* The caption document and its pure algorithms: paging of words           *)
(* (segmentation.ts), line breaking (lines.ts), constrained edits          *)
(* (patch.ts, state.ts), fidelity (qa.ts) and the normalization of what a  *)
(* transcription provider returns (normalize.ts).                          *)
(*                                                                         *)
(* A word is an id, its length in characters and its time.  A range of     *)
(* words is written with the boundaries around it: from..to holds the      *)
(* words from+1 .. to.                                                     *)
(***************************************************************************)
EXTENDS Integers, SequencesExt

CONSTANTS
    PauseMs,        \* pauseBreakMs
    MinPageMs,      \* minPageDurationMs
    MaxPageMs,      \* maxPageDurationMs
    TargetCps,      \* targetCps and maxCps: characters per second
    MaxCps,
    TailMs,         \* tailPaddingMs
    MinWordMs,      \* minWordMs of normalizeWords
    Unit,           \* the costs of pages are counted in 1/Unit
    LimitsOf,       \* style.lines -> [words, chars, line, lines]:
                    \* segmentationForStyle
    Look(_)         \* what the text of a word tells: [end: how it ends, "sentence",
                    \* "clause" or "none", quote: it opens one, starter: it is a
                    \* clause starter, weak: a weak tail], and its speaker (0: unknown)

Ids(words) == {words[k].id : k \in DOMAIN words}
Index(words, id) == CHOOSE k \in DOMAIN words : words[k].id = id

\* Math.round(a / b) for natural numbers.
Rounded(a, b) == (2 * a + b) \div (2 * b)

-----------------------------------------------------------------------------
(* Paging.                                                                 *)

\* The length of words from+1 .. to on one line.
CharsOf(chars, from, to) ==
    MapThenSumSet(LAMBDA k : chars[k], from+1 .. to) + (to - from - 1)

Lengths(words) == [k \in DOMAIN words |-> words[k].chars]

\* a / b in 1/Unit, rounded down.
Part(a, b) == (a * Unit) \div b

\* boundaryScore: how bad it is to end a page with the word `to'.
PauseScore(gap) ==
    IF gap >= PauseMs THEN -(4 * Unit + Min({4 * Unit, Part(gap, PauseMs)}))
    ELSE IF 2 * gap >= PauseMs THEN -Part(3, 2)
    ELSE IF gap < 60 THEN Part(6, 5) ELSE 0

TextScore(prev, next) ==
    (CASE prev.end = "sentence" -> -6 [] prev.end = "clause" -> -3 [] OTHER -> 0)
    + (IF next.quote THEN -1 ELSE 0) + (IF next.starter THEN -2 ELSE 0)
    + (IF prev.weak THEN 3 ELSE 0)
    + (IF prev.speaker # 0 /\ next.speaker # 0 /\ prev.speaker # next.speaker THEN -5 ELSE 0)

BoundaryScore(words, to) ==
    PauseScore(words[to+1].start - words[to].end)
    + Unit * TextScore(Look(words[to]), Look(words[to+1]))

\* A page of too many characters; a single long word cannot be helped.
Overlong(chars, limits, single) ==
    IF chars <= limits.chars THEN 0
    ELSE IF single THEN 10 ELSE 40 + 6 * (chars - limits.chars)

\* A page that is shown too long, or too briefly, and one to be read too fast.
DurationCost(ms, final) ==
    (IF ms > MaxPageMs THEN 12 * Unit + Part(ms - MaxPageMs, 250) ELSE 0)
    + (IF ms < MinPageMs /\ ~final THEN 3 * Unit ELSE 0)

SpeedCost(chars, ms) ==
    IF 1000 * chars > MaxCps * ms THEN 8 * Unit + Part(2 * (1000 * chars - MaxCps * ms), ms)
    ELSE IF 1000 * chars > TargetCps * ms THEN Part(6 * (1000 * chars - TargetCps * ms), 10 * ms)
    ELSE 0

\* A page that is nearly empty, an orphan, or two words left over at the end.
FillCost(chars, limits, final) ==
    IF 100 * chars < 35 * limits.chars /\ ~final
    THEN Part(12 * (35 * limits.chars - 100 * chars), 100 * limits.chars) ELSE 0

OrphanCost(size, n, final) ==
    CASE size = 1 /\ n > 1 -> IF final THEN 6 * Unit ELSE 4 * Unit
      [] size = 2 /\ n > 4 /\ final -> Part(3, 2)
      [] OTHER -> 0

\* The cost of a page, and 1 for there being one more.
PageCost(words, limits, from, to) ==
    LET n == Len(words)
        chars == CharsOf(Lengths(words), from, to)
        ms == Max({1, words[to].end - words[from+1].start})
    IN  Unit * Overlong(chars, limits, to - from = 1)
        + DurationCost(ms, to = n) + SpeedCost(chars, ms)
        + FillCost(chars, limits, to = n) + OrphanCost(to - from, n, to = n)
        + (IF to = n THEN 0 ELSE BoundaryScore(words, to)) + Unit

\* Slip: the last word of a page is not looked at.
PageStartsLoose(limits, forced, forbidden, to) ==
    {from \in Max({0, to - limits.words}) .. (to - 1) :
        /\ from \notin forbidden
        /\ \A k \in (from + 1) .. (to - 2) : k \notin forced}

\* Where a page that ends at `to' may start: not at a forbidden boundary, with
\* no forced one strictly inside.
PageStarts(limits, forced, forbidden, to) ==
    {from \in Max({0, to - limits.words}) .. (to - 1) :
        /\ from \notin forbidden
        /\ \A k \in (from + 1) .. (to - 1) : k \notin forced}

\* The cheapest starts of the last range of a cut.
Cheapest(cost) == {f \in DOMAIN cost : \A g \in DOMAIN cost : cost[f] <= cost[g]}

\* A cut of a prefix: whether one was found (the cost is finite), its cost and its
\* ranges.  `cuts' are those of the shorter prefixes, `cost' what the last range
\* from each start brings the cost to.
NoCut == [found |-> FALSE, cost |-> 0, ranges |-> <<>>]
CutOfNothing == [to \in {0} |-> [found |-> TRUE, cost |-> 0, ranges |-> <<>>]]
Cut(cuts, cost, from, to) ==
    [found |-> TRUE, cost |-> cost[from], ranges |-> Append(cuts[from].ranges, <<from, to>>)]

Chunks(n, size) ==
    [p \in 1 .. (n + size - 1) \div size |-> <<(p - 1) * size, Min({n, p * size})>>]

\* The later start wins a tie.
PageCut(cuts, cost, to) ==
    IF DOMAIN cost = {} THEN NoCut ELSE Cut(cuts, cost, Max(Cheapest(cost)), to)

\* The cuts of the prefixes 0 .. `to', one more than `cuts' has.
ExtendCuts(cuts, words, limits, forced, forbidden, to) ==
    LET cost == [from \in {f \in PageStarts(limits, forced, forbidden, to) : cuts[f].found} |->
                    cuts[from].cost + PageCost(words, limits, from, to)]
    IN  [t \in 0..to |-> IF t = to THEN PageCut(cuts, cost, to) ELSE cuts[t]]

\* segmentWords: dynamic programming over the boundaries; if no paging is
\* allowed, chunks of the greatest size.
SegmentWords(words, limits, forced, forbidden) ==
    LET cuts[to \in 0 .. Len(words)] ==
            IF to = 0 THEN CutOfNothing ELSE ExtendCuts(cuts[to-1], words, limits, forced, forbidden, to)
        Ranges(cut) == IF cut.found THEN cut.ranges ELSE Chunks(Len(words), limits.words)
    IN  Ranges(cuts[Len(words)][Len(words)])

-----------------------------------------------------------------------------
(* Lines of a page.                                                        *)

LineCost(length, perLine) ==
    IF length > perLine THEN 40 * (length - perLine) * (length - perLine)
                        ELSE (perLine - length) * (perLine - length)

\* One line more than `fewer' has: the earliest start wins a tie.
LineCut(fewer, chars, perLine, to) ==
    LET cut(cost) == Cut(fewer, cost, Min(Cheapest(cost)), to)
    IN  cut([f \in {f \in DOMAIN fewer : f < to} |->
                fewer[f].cost + LineCost(CharsOf(chars, f, to), perLine)])

\* breakLines: the words in k lines at the least cost, for every k; the fewest
\* lines win a tie; overflow is dear but never impossible.
BreakLines(chars, perLine, maxLines) ==
    LET n == Len(chars)
        lines[k \in 0..maxLines] ==     \* of every prefix of the words
            IF k = 0 THEN CutOfNothing ELSE [to \in k..n |-> LineCut(lines[k-1], chars, perLine, to)]
        Best(cost) == lines[Min(Cheapest(cost))][n].ranges
    IN  IF n <= 1 \/ maxLines <= 1 THEN <<<<0, n>>>>
        ELSE Best([k \in 1 .. Min({n, maxLines}) |-> lines[k][n].cost + (k - 1) * 4])

-----------------------------------------------------------------------------
(* Pages.                                                                  *)

\* Slip: the padding does not stop before the next word.
PageEndPadded(words, from, to) ==
    Max({words[to].end + TailMs, words[from+1].start + MinPageMs})

\* When the page that holds from..to disappears: it is stretched into the
\* silence that follows, up to the next word.
PageEnd(words, from, to) ==
    LET first == words[from+1]
        last == words[to]
        final == to = Len(words)
        gap == words[to+1].start - last.end
        padded == last.end + IF final THEN TailMs ELSE Min({TailMs, Max({0, gap - 1})})
        stretched == IF final THEN first.start + MinPageMs
                     ELSE Min({first.start + MinPageMs, words[to+1].start - 1})
    IN  IF padded - first.start >= MinPageMs THEN padded ELSE Max({stretched, last.end})

\* buildPages.  A page's id is derived from the revision and its range.
BuildPages(words, limits, ranges, revision, forced) ==
    [p \in DOMAIN ranges |->
        LET from == ranges[p][1]  to == ranges[p][2]
            lines == BreakLines(Lengths(SubSeq(words, from + 1, to)), limits.line, limits.lines)
        IN  [id |-> <<revision, from, to>>, from |-> from, to |-> to,
             start |-> words[from+1].start, end |-> PageEnd(words, from, to),
             lines |-> [l \in DOMAIN lines |-> <<from + lines[l][1], from + lines[l][2]>>],
             manual |-> from \in forced]]

\* The boundaries that the manual breaks and joins name.
Forced(words, breaks) == {k \in 1 .. Len(words) - 1 : words[k+1].id \in breaks}
Forbidden(words, breaks, joins) ==
    {k \in 1 .. Len(words) - 1 : words[k+1].id \in joins} \ Forced(words, breaks)

PagesOf(words, limits, breaks, joins, revision) ==
    LET forced == Forced(words, breaks)
    IN  BuildPages(words, limits,
                   SegmentWords(words, limits, forced, Forbidden(words, breaks, joins)),
                   revision, forced)

\* resegmentState: constraints on words that are gone are dropped.
Resegmented(doc) ==
    [doc EXCEPT !.breaks = @ \cap Ids(doc.words), !.joins = @ \cap Ids(doc.words),
                !.pages = PagesOf(doc.words, doc.limits, doc.breaks, doc.joins, doc.revision)]

\* createCaptionState.
NewDocument(words, style, limits, revision) ==
    Resegmented([words |-> words, style |-> style, limits |-> limits, breaks |-> {},
                 joins |-> {}, pages |-> <<>>, revision |-> revision])

\* What evaluateCaptions asks of pages and lines, without the texts: they hold
\* every word once and in order.
Covers(words, pages) ==
    /\ \A p \in DOMAIN pages :
          /\ pages[p].from = IF p = 1 THEN 0 ELSE pages[p-1].to
          /\ pages[p].to > pages[p].from
          /\ \A l \in DOMAIN pages[p].lines :
                /\ pages[p].lines[l][1] =
                      IF l = 1 THEN pages[p].from ELSE pages[p].lines[l-1][2]
                /\ pages[p].lines[l][2] > pages[p].lines[l][1]
          /\ pages[p].lines[Len(pages[p].lines)][2] = pages[p].to
    /\ Len(words) = IF pages = <<>> THEN 0 ELSE pages[Len(pages)].to

\* And of their times: no page is stretched beyond the next one's start.  Only
\* words that overlap make pages overlap.
InTime(words, pages) ==
    \A p \in 1 .. Len(pages) - 1 :
        words[pages[p].to].end <= pages[p+1].start => pages[p].end <= pages[p+1].start

-----------------------------------------------------------------------------
(* Edits (applyPatchOps).                                                  *)

WordOps == {"replace", "timing", "delete", "insert"}

\* A style is a function of its fields, a style patch one of some of them.
ApplyStyle(style, patch) == [f \in DOMAIN style |-> IF f \in DOMAIN patch THEN patch[f] ELSE style[f]]

HasWord(doc, id) == id \in Ids(doc.words)
PageIndex(doc, id) == {p \in DOMAIN doc.pages : doc.pages[p].id = id}

\* A word's time must lie between its neighbours'.
Between(words, before, after, start, end) ==
    /\ start < end
    /\ before \in DOMAIN words => start >= words[before].end
    /\ after \in DOMAIN words => end <= words[after].start

\* What applyPatchOps does not refuse.  The pages are those of the last paging:
\* earlier operations of the same patch may have moved the words under them.
Accepts(doc, op) ==
    CASE op.op \in {"style", "preset", "resegment"} -> TRUE
      [] op.op \in {"replace", "delete"} -> HasWord(doc, op.word)
      [] op.op = "timing" ->
            /\ HasWord(doc, op.word)
            /\ LET k == Index(doc.words, op.word)
               IN  Between(doc.words, k - 1, k + 1, op.start, op.end)
      [] op.op = "insert" ->
            /\ op.after = 0 \/ HasWord(doc, op.after)
            /\ LET k == IF op.after = 0 THEN 0 ELSE Index(doc.words, op.after)
               IN  Between(doc.words, k, k + 1, op.start, op.end)
      [] op.op = "split" ->
            /\ HasWord(doc, op.word)
            /\ \E p \in PageIndex(doc, op.page) :
                  /\ Index(doc.words, op.word) > doc.pages[p].from + 1
                  /\ Index(doc.words, op.word) <= doc.pages[p].to
      [] op.op = "merge" ->
            \E p \in PageIndex(doc, op.page) :
               p < Len(doc.pages) /\ doc.pages[p+1].from < Len(doc.words)

\* Slip: every token keeps the id of the word.
TokenIdKept(word, fresh, k) == word.id

TokenId(word, fresh, k) == IF k = 1 THEN word.id ELSE fresh + k - 2

\* replace_word_text: one word per token, the time shared by length.
Replacements(word, tokens, fresh) ==
    LET total == MapThenSumSet(LAMBDA k : tokens[k], DOMAIN tokens)
        share(k) == Max({1, Rounded((word.end - word.start) * tokens[k], total)})
        start[k \in 1 .. Len(tokens)] == IF k = 1 THEN word.start ELSE start[k-1] + share(k-1)
    IN  [k \in 1 .. Len(tokens) |->
            [id |-> TokenId(word, fresh, k), chars |-> tokens[k],
             start |-> start[k],
             end |-> Max({start[k] + 1,
                          IF k = Len(tokens) THEN word.end ELSE start[k] + share(k)})]]

\* The document after one operation, not yet paged anew.
Edited(doc, op, fresh) ==
    LET k == IF op.op \in {"replace", "timing", "delete"} THEN Index(doc.words, op.word) ELSE 0
        w == doc.words
    IN  CASE op.op = "style" ->
                [doc EXCEPT !.style = ApplyStyle(@, op.patch),
                            !.limits = IF ApplyStyle(doc.style, op.patch).lines # doc.style.lines
                                       THEN LimitsOf[ApplyStyle(doc.style, op.patch).lines] ELSE @]
          [] op.op = "preset" -> [doc EXCEPT !.style = op.style, !.limits = LimitsOf[op.style.lines]]
          [] op.op = "resegment" -> [doc EXCEPT !.limits = op.limits, !.breaks = {}, !.joins = {}]
          [] op.op = "replace" ->
                [doc EXCEPT !.words = SubSeq(w, 1, k - 1) \o Replacements(w[k], op.tokens, fresh)
                                      \o SubSeq(w, k + 1, Len(w))]
          [] op.op = "timing" -> [doc EXCEPT !.words[k].start = op.start, !.words[k].end = op.end]
          [] op.op = "delete" ->
                [doc EXCEPT !.words = RemoveAt(w, k), !.breaks = @ \ {op.word},
                            !.joins = @ \ {op.word}]
          [] op.op = "insert" ->
                [doc EXCEPT !.words = InsertAt(w, IF op.after = 0 THEN 1 ELSE Index(w, op.after) + 1,
                    [id |-> fresh, chars |-> op.chars, start |-> op.start, end |-> op.end])]
          [] op.op = "split" -> [doc EXCEPT !.breaks = @ \cup {op.word}, !.joins = @ \ {op.word}]
          [] op.op = "merge" ->
                LET p == CHOOSE p \in PageIndex(doc, op.page) : TRUE
                    first == w[doc.pages[p+1].from + 1].id
                IN  [doc EXCEPT !.joins = @ \cup {first}, !.breaks = @ \ {first}]

\* Slip: a style never changes the pages.
RepagesNever(doc, op) == op.op \notin {"style"}

\* Whether the operation makes applyPatchOps page anew at its end.
Repages(doc, op) ==
    op.op = "style" => ApplyStyle(doc.style, op.patch).lines # doc.style.lines

NewIds(op) == CASE op.op = "insert" -> 1
                [] op.op = "replace" -> Len(op.tokens) - 1
                [] OTHER -> 0

\* One operation after others; once one is refused the rest does not matter.
Applied(s, op) ==
    IF s.ok /\ Accepts(s.doc, op)
    THEN [ok |-> TRUE, doc |-> Edited(s.doc, op, s.fresh), fresh |-> s.fresh + NewIds(op),
          repage |-> s.repage \/ Repages(s.doc, op)]
    ELSE [s EXCEPT !.ok = FALSE]

\* All the operations of a patch, or none.  A patch of the words makes a new
\* revision, which seeds the ids of its pages.
Patched(doc, ops, fresh, nextRevision) ==
    LET reworded == \E n \in DOMAIN ops : ops[n].op \in WordOps
        seeded(d) == IF reworded THEN [d EXCEPT !.revision = nextRevision] ELSE d
        outcome(s) == [ok |-> s.ok, fresh |-> s.fresh, reworded |-> reworded,
                       doc |-> IF s.repage THEN Resegmented(seeded(s.doc)) ELSE s.doc]
    IN  outcome(FoldLeft(Applied, [ok |-> TRUE, doc |-> doc, fresh |-> fresh, repage |-> FALSE], ops))

-----------------------------------------------------------------------------
(* normalizeWords.                                                         *)

\* Times in order, without overlap, of a minimal length.
Repaired(raw) ==
    LET word[k \in 0 .. Len(raw)] ==
            IF k = 0 THEN [id |-> 0, chars |-> 0, start |-> 0, end |-> 0]
            ELSE LET start == Max({raw[k].start, word[k-1].end})
                 IN  [id |-> k, chars |-> raw[k].chars, start |-> start,
                      end |-> Max({raw[k].end, start + MinWordMs})]
    IN  [k \in 1 .. Len(raw) |-> word[k]]

\* A token of punctuation only is glued to the word before it.
Merged(raw) ==
    LET merge(words, token) ==
            IF token.punctuation /\ words # <<>>
            THEN [words EXCEPT ![Len(words)].chars = @ + token.chars,
                               ![Len(words)].end = Max({@, token.end})]
            ELSE Append(words, token)
    IN  FoldLeft(merge, <<>>, raw)

\* fitToDuration: compressed in proportion, each word leaving the later ones a
\* slot of their own.
Fitted(words, duration) ==
    LET n == Len(words)
        max == Max({1, duration})
        slot == Max({1, max \div n})
        total == words[n].end
        word[k \in 0..n] ==
            IF k = 0 THEN [id |-> 0, chars |-> 0, start |-> 0, end |-> 0]
            ELSE LET w == words[k]
                     start == Min({max - slot * (n - k + 1),
                                   Max({word[k-1].end, Rounded(w.start * max, total)})})
                 IN  [w EXCEPT !.start = start,
                               !.end = Min({max - slot * (n - k),
                                            Max({start + 1, Rounded(w.end * max, total)})})]
    IN  IF n = 0 \/ total <= max THEN words ELSE [k \in 1..n |-> word[k]]

NormalizeWords(raw, duration) == Fitted(Repaired(Merged(raw)), duration)
=============================================================================
