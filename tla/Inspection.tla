------------------------------ MODULE Inspection ------------------------------
(***************************************************************************)
(* The inspect tool: which lines of which files it sends to the model, and *)
(* for which it answers ALREADY_SEEN instead, because the active source    *)
(* records of the ledger say that they were sent before.                   *)
(*                                                                         *)
(* A file is a sequence of lines of which only the sizes matter.  The      *)
(* ledger is the set of its active source records; EvidenceLedger models   *)
(* how they are stored.  A tool call is one step: the tools of Pi run one  *)
(* after the other and nothing else writes the worktree meanwhile.         *)
(***************************************************************************)
EXTENDS Integers, Sequences, FiniteSets, SequencesExt

CONSTANTS
    Paths,          \* the files
    Versions,       \* the contents a file can have
    Base,           \* the content every file begins with
    Text,           \* the sizes of the lines of each content
    Secret,         \* the lines <<version, line>> the ledger must not keep
    ReadBytes,      \* MAX_INSPECT_BODY_BYTES
    WindowBytes,    \* MAX_BUNDLE_SOURCE_BYTES, for one window of several
    BodyBytes,      \* the budget of the windows of one answer
    WindowLines,    \* lines of a bundle window, by the number of files
    MaxStart,       \* bound on the first line asked for
    Counts,         \* the numbers of lines that are asked for
    MaxRecords      \* bound on the active records

ASSUME InspectionAssumption ==
    /\ Base \in Versions
    /\ Text \in [Versions -> Seq(Nat \ {0})]
    /\ Secret \subseteq Versions \X Nat
    /\ {ReadBytes, WindowBytes, BodyBytes} \subseteq Nat \ {0}
    /\ WindowLines \in [{1, 2} -> Nat \ {0}]
    /\ MaxStart \in Nat /\ Counts \subseteq Nat \ {0}

VARIABLES
    content,    \* the content of every file
    records,    \* the active source records of reads
    searches,   \* the active source records of bundles
    shown       \* the lines the model was sent in full, for this goal and
                \* since the file has its content (history)

vars == <<content, records, searches, shown>>

Init ==
    /\ content = [p \in Paths |-> Base]
    /\ records = {}
    /\ searches = {}
    /\ shown = {}

-------------------------------------------------------------------------------
(* One window: what readPage and clipInspectionText make of it.            *)

ReadRange(p, s, n) == [path |-> p, start |-> s, count |-> n]
Ranges == [path : Paths, start : 1 .. MaxStart, count : Counts]

(* The bytes of lines a to b with the newlines between them.               *)
Bytes(v, a, b) ==
    LET upTo[k \in a .. Len(Text[v])] ==
            IF k = a THEN Text[v][k] ELSE upTo[k - 1] + 1 + Text[v][k]
    IN  upTo[b]

Rows(v, s, n) == {k \in s .. s + n - 1 : k <= Len(Text[v])}

(* The text is cut after `limit` bytes wherever that falls, and the lines  *)
(* are counted in what is left: a line that lost its end counts, and so    *)
(* does the empty line behind a newline that just fits.                    *)
Clip(v, s, n, limit) ==
    LET rows == Rows(v, s, n)
        cut == \E k \in rows : Bytes(v, s, k) > limit
    IN  [whole |-> {k \in rows : Bytes(v, s, k) <= limit},
         lines |-> Cardinality({k \in rows :
                       k = s \/ Bytes(v, s, k - 1) < limit}),
         cut   |-> cut]

-------------------------------------------------------------------------------
(* What the ledger says of a file.                                         *)

CoverageEnd_Bug(r) == r.start + r.requested

(* evidenceCoverageEnd: a window that ended with the file covers all it    *)
(* was asked for, any other one what was counted.                          *)
CoverageEnd(r) == r.start + (IF r.eof THEN r.requested ELSE r.lines)

Seen(p) ==
    {r \in records : r.keyed /\ r.path = p /\ r.base = content[p]}

Covered(p) == UNION {r.start .. CoverageEnd(r) - 1 : r \in Seen(p)}

(* uncoveredIntervals: the maximal runs of lines no record covers.         *)
Uncovered(range) ==
    LET open == (range.start .. range.start + range.count - 1)
                    \ Covered(range.path)
        runs == {ab \in open \X open :
                    /\ ab[1] <= ab[2] /\ ab[1] .. ab[2] \subseteq open
                    /\ ab[1] - 1 \notin open /\ ab[2] + 1 \notin open}
    IN  {ReadRange(range.path, ab[1], ab[2] - ab[1] + 1) : ab \in runs}

Preview_Bug(range, limit) ==
    {[range |-> range,
      text  |-> Clip(content[range.path], range.start, range.count, limit)]}

(* previewReadRange: every hole of the range is read, and cut, by itself.  *)
Preview(range, limit) ==
    {[range |-> hole,
      text  |-> Clip(content[range.path], hole.start, hole.count, limit)] :
        hole \in Uncovered(range)}

(* captureText: text that had to be redacted gets no action key, so that   *)
(* it is never taken for seen.                                             *)
Reusable(v, ks) == \A k \in ks : <<v, k>> \notin Secret

(* The record sourceEvidence and windowEvidence make of a window.          *)
RecordOf(window) ==
    LET v == content[window.range.path]
        first == window.range.start
    IN  [path      |-> window.range.path,
         base      |-> v,
         start     |-> first,
         lines     |-> window.text.lines,
         requested |-> window.range.count,
         eof       |-> ~ window.text.cut /\ window.text.lines < window.range.count,
         cut       |-> window.text.cut,
         keyed     |-> Reusable(v, first .. first + window.text.lines - 1)]

(* The fingerprint of a window: its path and its text, which begins with   *)
(* the line number unless it is empty.                                     *)
SameText(r, q) ==
    /\ r.path = q.path /\ r.base = q.base /\ r.lines = q.lines
    /\ r.cut = q.cut
    /\ r.start = q.start \/ r.lines = 0

(* capturePreviewReadRange: a text on record already adds no record.       *)
CaptureWindows(windows) ==
    LET new == {RecordOf(w) : w \in windows}
    IN  /\ \E fresh \in SUBSET {r \in new :
                          \A q \in records : ~ SameText(r, q)} :
            /\ \A r \in new : \E q \in records \cup fresh : SameText(r, q)
            /\ \A r, q \in fresh : SameText(r, q) => r = q
            /\ records' = records \cup fresh
        /\ shown' = shown \cup UNION
               {{<<w.range.path, content[w.range.path], k>> : k \in w.text.whole} :
                   w \in windows}

Room == Cardinality(records) + Cardinality(searches) < MaxRecords

-------------------------------------------------------------------------------
(* The actions of the tool.                                                *)

(* read: only the holes are sent; without one the answer is a receipt.     *)
Read(range) ==
    /\ Room
    /\ Uncovered(range) # {}
    /\ CaptureWindows(Preview(range, ReadBytes))
    /\ UNCHANGED <<content, searches>>

Size(windows) ==
    MapThenSumSet(LAMBDA w : Bytes(content[w.range.path], w.range.start,
                                   w.range.start + w.text.lines - 1),
                  {w \in windows : w.text.lines > 0})

TotalSize(ranges, ks) ==
    MapThenSumSet(LAMBDA k : Size(Preview(ranges[k], WindowBytes)), ks)

(* The previews of several ranges, all made before the first is captured,  *)
(* are taken in order while they fit; one that does not is passed over.    *)
Fitting(ranges) ==
    LET taken[k \in 0 .. Len(ranges)] ==
            IF k = 0 THEN {}
            ELSE taken[k - 1] \cup
                    {j \in {k} : TotalSize(ranges, taken[k - 1] \cup {j}) <= BodyBytes}
    IN  taken[Len(ranges)]

Windows(ranges) ==
    UNION {Preview(ranges[k], WindowBytes) : k \in Fitting(ranges)}

ReadMany(ranges) ==
    /\ Room
    /\ Fitting(ranges) # {}
    /\ CaptureWindows(Windows(ranges))
    /\ UNCHANGED <<content, searches>>

(* bundleRanges: a window around each match, shorter when the matches are  *)
(* in several files, two for one file at most, none over another.          *)
Around(m, size) ==
    ReadRange(m.path, IF m.line > size \div 3 THEN m.line - size \div 3 ELSE 1, size)

Clear(chosen, r) ==
    /\ Cardinality({k \in 1 .. Len(chosen) : chosen[k].path = r.path}) < 2
    /\ \A k \in 1 .. Len(chosen) :
        \/ chosen[k].path # r.path
        \/ r.start >= chosen[k].start + r.count
        \/ chosen[k].start >= r.start + r.count

BundleRanges(matches) ==
    LET files == Cardinality({m.path : m \in ToSet(matches)})
        size == WindowLines[IF files > 1 THEN 2 ELSE 1]
        chosen[k \in 0 .. Len(matches)] ==
            IF k = 0 THEN <<>>
            ELSE chosen[k - 1] \o
                    IF Clear(chosen[k - 1], Around(matches[k], size))
                    THEN <<Around(matches[k], size)>> ELSE <<>>
    IN  chosen[Len(matches)]

(* findCachedInspection: the same query of the same worktree.              *)
Cached(search) == search \in searches

Matches == [path : Paths, line : 1 .. MaxStart]

(* bundle: unless the search can be answered from the ledger, the windows  *)
(* that fit are captured and then the answer as a whole.                   *)
Bundle(matches) ==
    LET search == [query |-> matches, at |-> content]
    IN  /\ Room
        /\ ~ Cached(search)
        /\ \A k \in 1 .. Len(matches) :
            matches[k].line <= Len(Text[content[matches[k].path]])
        /\ CaptureWindows(Windows(BundleRanges(matches)))
        /\ searches' = searches \cup {search}
        /\ UNCHANGED content

(* invalidatePaths after an edit: the windows of the file and the searches *)
(* of another worktree are stale.                                          *)
Edit(p, v) ==
    /\ v # content[p]
    /\ content' = [content EXCEPT ![p] = v]
    /\ records' = {r \in records : r.path # p}
    /\ searches' = {s \in searches : s.at = content'}
    /\ shown' = {line \in shown : line[1] # p}

(* supersedeGoalEvidence.                                                  *)
NewGoal ==
    /\ records # {} \/ searches # {}
    /\ records' = {}
    /\ searches' = {}
    /\ shown' = {}
    /\ UNCHANGED content

Next ==
    \/ \E range \in Ranges : Read(range)
    \/ \E r, q \in Ranges : ReadMany(<<r, q>>)
    \/ \E m, n \in Matches : Bundle(<<m, n>>)
    \/ \E p \in Paths, v \in Versions : Edit(p, v)
    \/ NewGoal

Spec == Init /\ [][Next]_vars

-------------------------------------------------------------------------------
(* Properties.                                                             *)

Lines(v) == 1 .. Len(Text[v])

(* The line a window was cut in, which it counts as its last.              *)
CutLine(r, k) == r.cut /\ k = r.start + r.lines - 1

(* projector.ts: lines that were not displayed, behind the end of a file   *)
(* or of a window, must not count as ALREADY_SEEN, or a later precise read *)
(* is answered with a receipt only.  Every line a read would skip was sent *)
(* for this goal, since the file has this content, and in full but for the *)
(* one a window was cut in.                                                *)
OnlyCutLinesHidden ==
    \A p \in Paths : \A k \in Covered(p) \cap Lines(content[p]) :
        \/ <<p, content[p], k>> \in shown
        \/ \E r \in Seen(p) : CutLine(r, k)

(* A read is either a receipt or brings the model further: of the lines of *)
(* the file that were asked for, at least one more is covered, unless they *)
(* are sensitive.                                                          *)
ReadAdvances ==
    [][\A range \in Ranges :
        Read(range) =>
            LET p == range.path
                asked == Rows(content[p], range.start, range.count)
            IN  \/ Uncovered(range) = {}
                \/ asked \subseteq Covered(p)
                \/ \E k \in asked : k \in Covered(p)' /\ k \notin Covered(p)
                \/ \E k \in asked : <<content[p], k>> \in Secret]_vars
===============================================================================
