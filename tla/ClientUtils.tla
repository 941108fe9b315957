---------------------------- MODULE ClientUtils ----------------------------
(***************************************************************************)
(* The client's pure functions: what is checked before a request is sent   *)
(* (shared/utils/validation.ts), the CSV of the charts and the kind of     *)
(* chart drawn from it (shared/utils/csv.ts), the footnotes of the intent  *)
(* document and its division into blocks.                                  *)
(***************************************************************************)
EXTENDS Integers, Sequences, FiniteSets, SequencesExt

-----------------------------------------------------------------------------
\* Sizes in MB; a name is the sequence of its parts between the dots.
PLAN_ALLOWED_EXTENSIONS == {"docx", "txt", "md"}
PLAN_MAX == 10
ARTIFACT_FILE_MAX == 20
ARTIFACT_MAX_COUNT == 20
ANSWER_MAX_LENGTH == 2000
TIME_LIMIT_SEC_MIN == 60
TIME_LIMIT_SEC_MAX == 3600

getFileExtension(name) == IF Len(name) > 1 THEN name[Len(name)] ELSE "none"
validatePlanFile(file) ==
    getFileExtension(file.name) \in PLAN_ALLOWED_EXTENSIONS /\ file.size <= PLAN_MAX
validateArtifactFile(file, currentCount) ==
    currentCount < ARTIFACT_MAX_COUNT /\ file.size <= ARTIFACT_FILE_MAX
validateAnswer(value) == value.trimmed > 0 /\ value.length <= ANSWER_MAX_LENGTH
validateHttpsUrl(url) == url.parses /\ url.protocol = "https"
validateGithubUrl(url) == validateHttpsUrl(url) /\ url.hostname = "github.com"
\* NoLimit stands for null.
NoLimit == -1
validateTimeLimitSec(value) ==
    value = NoLimit \/ value \in TIME_LIMIT_SEC_MIN..TIME_LIMIT_SEC_MAX

\* The threshold in hundredths, its step 5; Math.round goes up at the half.
THRESHOLD_MAX == 100
THRESHOLD_STEP == 5
clampConfuseThreshold(value) ==
    LET clamped == CASE value < 0 -> 0 [] value > THRESHOLD_MAX -> THRESHOLD_MAX [] OTHER -> value
    IN  ((2 * clamped + THRESHOLD_STEP) \div (2 * THRESHOLD_STEP)) * THRESHOLD_STEP

-----------------------------------------------------------------------------
\* parseCsv, a character at a time: the quote, the comma, the newline, the
\* carriage return and the others.  "closing" has read a quote inside quotes,
\* the code's look at the character that follows.
Scanner == [rows |-> <<>>, row |-> <<>>, current |-> <<>>, mode |-> "plain"]
pushField(s) == [s EXCEPT !.row = Append(@, s.current), !.current = <<>>]
pushRow(s) ==
    LET p == pushField(s)
    IN  [p EXCEPT !.row = <<>>, !.rows = IF p.row = << <<>> >> THEN @ ELSE Append(@, p.row)]
keep(s, ch) == [s EXCEPT !.current = Append(@, ch)]
Unquoted(s, ch) ==
    CASE ch = "quote" -> [s EXCEPT !.mode = "quoted"]
      [] ch = "comma" -> pushField(s)
      [] ch = "newline" -> pushRow(s)
      [] ch = "return" -> s
      [] OTHER -> keep(s, ch)
Scan(s, ch) ==
    CASE s.mode = "plain" -> Unquoted(s, ch)
      [] s.mode = "quoted" -> IF ch = "quote" THEN [s EXCEPT !.mode = "closing"] ELSE keep(s, ch)
      [] s.mode = "closing" -> IF ch = "quote" THEN keep([s EXCEPT !.mode = "quoted"], ch)
                               ELSE Unquoted([s EXCEPT !.mode = "plain"], ch)
parseCsv(csv) ==
    LET s == FoldLeft(Scan, Scanner, csv)
        rows == (IF s.current # <<>> \/ s.row # <<>> THEN pushRow(s) ELSE s).rows
    IN  IF rows = <<>> THEN [headers |-> <<>>, rows |-> <<>>]
        ELSE [headers |-> rows[1], rows |-> Tail(rows)]

\* A chart's cells are "number", "text" or "blank"; a row may be short, and its
\* missing cells are blank.  timeLike and themeLike: what the words of the first
\* header and of the axis suggest.
Cell(row, i) == IF i \in DOMAIN row THEN row[i] ELSE "blank"
isNumericColumn(rows, i) ==
    rows # <<>> /\ \A r \in DOMAIN rows : Cell(rows[r], i) = "number"
inferChartType(parsed, timeLike, themeLike) ==
    LET headers == parsed.headers
        rows == parsed.rows
    IN  IF \/ Len(headers) < 2 \/ rows = <<>>
           \/ \E i \in 2..Len(headers) : ~isNumericColumn(rows, i) THEN "table"
        ELSE IF Len(rows) = 1 /\ Len(headers) = 2 THEN "metric"
        ELSE IF timeLike THEN "line"
        ELSE IF themeLike /\ Len(rows) <= 6 THEN "pie" ELSE "bar"

\* A row as the chart reads it: its name, and a value by header, the last of the
\* columns that share a header; a header "name" takes the place of the name.
toChartData(parsed) ==
    LET series == {parsed.headers[i] : i \in 2..Len(parsed.headers)}
        column(header) == CHOOSE i \in 2..Len(parsed.headers) :
            /\ parsed.headers[i] = header
            /\ \A j \in (i + 1)..Len(parsed.headers) : parsed.headers[j] # header
    IN  [r \in DOMAIN parsed.rows |->
           [h \in series \cup {"name"} |->
              Cell(parsed.rows[r], IF h \in series THEN column(h) ELSE 1)]]

-----------------------------------------------------------------------------
\* The footnote of block i by the numbers in the ids, UnknownSeq for an id that
\* is not "ib-<seq>"; the sort is stable.
UnknownSeq == 9007
deriveFootnotes(seqs) ==
    [i \in DOMAIN seqs |->
        1 + Cardinality({j \in DOMAIN seqs : seqs[j] < seqs[i] \/ (seqs[j] = seqs[i] /\ j < i)})]

\* The document's lines are "heading" (of a block) or "line".  Without a heading
\* the whole of it is one segment.
splitIntentDoc(lines, blocks) ==
    LET headings == {i \in DOMAIN lines : lines[i] = "heading"}
        first == CHOOSE i \in headings : \A j \in headings : i <= j
        addLine(segments, line) ==
            IF line = "heading" THEN Append(segments, <<line>>)
            ELSE [segments EXCEPT ![Len(segments)] = Append(@, line)]
    IN  IF headings = {} THEN [header |-> <<>>, segments |-> <<lines>>, mapped |-> blocks = 1]
        ELSE LET segments == FoldLeft(addLine, <<>>, SubSeq(lines, first, Len(lines)))
             IN  [header |-> SubSeq(lines, 1, first - 1), segments |-> segments,
                  mapped |-> Len(segments) = blocks]

\* A document that cannot be mapped is shown whole.
ShownDocument(lines, blocks) ==
    LET split == splitIntentDoc(lines, blocks)
    IN  IF split.mapped THEN FoldLeft(LAMBDA all, s : all \o s, split.header, split.segments)
        ELSE lines

\* The finding selected by a footnote of its block, by its card (again: none).
\* A finding is the set of the blocks it names.
selectByFootnote(findings, block, selected) ==
    LET named == {i \in DOMAIN findings : block \in findings[i]}
    IN  IF named = {} THEN selected ELSE CHOOSE i \in named : \A j \in named : i <= j
selectByCard(finding, selected) == IF selected = finding THEN 0 ELSE finding
=============================================================================
