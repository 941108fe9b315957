-------------------------- MODULE FrontendFunctions --------------------------
(***************************************************************************)
(* What the client's pure functions must do, checked for every input of a  *)
(* small size.  TLC evaluates the assumptions before a run.                *)
(***************************************************************************)
EXTENDS QuestionTree, ClientUtils

-----------------------------------------------------------------------------
\* Every tree of four questions: a parent has a smaller id and was asked no
\* later; two questions may have been asked at the same moment.
Ids == 1..4
QuestionTrees ==
    LET asked(parent, time) == \A i \in Ids : parent[i] < i /\ (parent[i] # 0 => time[parent[i]] <= time[i])
        depth(parent) == LET d[i \in Ids] == IF parent[i] = 0 THEN 0 ELSE 1 + d[parent[i]] IN d
        tree(parent, time) ==
            {[questionId |-> i, parentId |-> parent[i], depth |-> depth(parent)[i], createdAt |-> time[i]] :
                i \in Ids}
    IN  {tree(pt[1], pt[2]) : pt \in
            {pt \in [Ids -> 0..3] \X [Ids -> 1..2] : asked(pt[1], pt[2])}}
At(nodes, id) == CHOOSE n \in nodes : n.questionId = id

\* The list of the questions holds each of them once, a parent before its
\* children, and of the children of a parent the earlier ones first.
ASSUME ListedOnce ==
    \A nodes \in QuestionTrees :
        LET visual == flattenQuestionTree(nodes)
            place(n) == IndexOf(visual, n)
        IN  /\ Len(visual) = Cardinality(nodes) /\ \A n \in nodes : place(n) # 0
            /\ \A m, n \in nodes :
                 n.parentId = m.questionId \/ (n.parentId = m.parentId /\ compareQuestion(m, n))
                     => place(m) < place(n)

\* No two questions are drawn over each other, and a parent stands between its
\* first and its last child.
ASSUME DrawnApart ==
    \A nodes \in QuestionTrees :
        LET position == layoutQuestionTree(nodes)
        IN  /\ \A m, n \in nodes : position[m] = position[n] => m = n
            /\ \A n \in nodes :
                 LET kids == {k \in nodes : k.parentId = n.questionId}
                 IN  kids # {} => /\ \E k \in kids : position[k].y <= position[n].y
                                  /\ \E k \in kids : position[k].y >= position[n].y

\* No key leaves the tree; the arrows undo each other; from the first question
\* the down arrow reaches every other.
ASSUME KeysReachAll ==
    \A nodes \in QuestionTrees :
        LET visual == flattenQuestionTree(nodes)
            press(id, key) == onKeyDown(nodes, id, 0, key)
            down[k \in 1..4] == IF k = 1 THEN press(1, "Home") ELSE press(down[k - 1], "ArrowDown")
        IN  /\ \A id \in Ids, key \in Keys : press(id, key) \in Ids
            /\ \A id \in Ids : press(id, "ArrowRight") # id =>
                                  press(press(id, "ArrowRight"), "ArrowLeft") = id
            /\ \A id \in Ids : press(id, "ArrowUp") # id =>
                                  press(press(id, "ArrowUp"), "ArrowDown") = id
            /\ {down[k] : k \in 1..4} = Ids
            /\ press(9, "ArrowDown") \in Ids          \* the focus of an earlier tree

-----------------------------------------------------------------------------
SequencesOf(S, lengths) == UNION {[1..n -> S] : n \in lengths}
Chars == {"a", "quote", "comma", "newline", "return"}

\* A table written with every field in quotes and every quote doubled.
Doubled(field) ==
    LET w[i \in 0..Len(field)] == IF i = 0 THEN <<>>
            ELSE w[i - 1] \o (IF field[i] = "quote" THEN <<"quote", "quote">> ELSE <<field[i]>>)
    IN  <<"quote">> \o w[Len(field)] \o <<"quote">>
Written(table) ==
    LET fields(row) == LET f[i \in 1..Len(row)] == IF i = 1 THEN Doubled(row[1])
                               ELSE f[i - 1] \o <<"comma">> \o Doubled(row[i])
                       IN  f[Len(row)]
        lines[r \in 0..Len(table)] == IF r = 0 THEN <<>>
                                      ELSE lines[r - 1] \o fields(table[r]) \o <<"newline">>
    IN  lines[Len(table)]

\* What was written with quotes is read back, whatever the fields hold; only a
\* row of one empty field is lost.
ASSUME CsvReadBack ==
    LET readBack(table) == LET parsed == parseCsv(Written(table))
                           IN  <<parsed.headers>> \o parsed.rows = table
        short == SequencesOf({"a", "quote", "newline"}, 0..1)
    IN  /\ \A row \in [1..2 -> SequencesOf(Chars, 0..2)] : readBack(<<row>>)
        /\ \A table \in [1..2 -> [1..2 -> short]] : readBack(table)
        /\ \A field \in SequencesOf(Chars, 1..2) : readBack(<< <<field>> >>)

\* Without quotes a field holds no comma, no line ends inside a row, and no row
\* of one empty field is kept.
ASSUME CsvPlain ==
    \A csv \in SequencesOf(Chars \ {"quote"}, 0..5) :
        LET parsed == parseCsv(csv)
            rows == <<parsed.headers>> \o parsed.rows
        IN  \/ parsed.headers = <<>> /\ parsed.rows = <<>>
            \/ \A r \in DOMAIN rows : rows[r] # << <<>> >>
                  /\ \A i \in DOMAIN rows[r] : rows[r][i] \in SequencesOf({"a"}, 0..5)

\* What is drawn as a chart has a number for every series in every row, though
\* the kind of chart and its data are computed apart; one row with one series
\* is a metric, and what is not a number is shown as a table.
ASSUME ChartsHaveNumbers ==
    \A headers \in SequencesOf({"first", "second"}, 0..3),
       rows \in SequencesOf(SequencesOf({"number", "text", "blank"}, 1..3), 0..2),
       timeLike \in BOOLEAN, themeLike \in BOOLEAN :
        LET parsed == [headers |-> headers, rows |-> rows]
            data == toChartData(parsed)
            type == inferChartType(parsed, timeLike, themeLike)
            numeric == \A r \in DOMAIN data : \A h \in {headers[i] : i \in 2..Len(headers)} :
                          data[r][h] = "number"
        IN  /\ type # "table" => numeric
            /\ Len(headers) = 2 /\ rows # <<>> /\ numeric =>
                 (type = "metric" <=> Len(rows) = 1) /\ type # "table"

-----------------------------------------------------------------------------
\* The footnotes number the blocks from 1, each number once, in the order of the
\* numbers in their ids, the other ids last.
ASSUME FootnotesInOrder ==
    \A seqs \in SequencesOf({1, 2, 10, UnknownSeq}, 0..4) :
        LET notes == deriveFootnotes(seqs) IN
        /\ {notes[i] : i \in DOMAIN seqs} = 1..Len(seqs)
        /\ \A i, j \in DOMAIN seqs : seqs[i] < seqs[j] => notes[i] < notes[j]

\* The intent document is shown to its last line, mapped to its blocks or not;
\* a mapped one has a segment, under its heading, for every block.
ASSUME DocumentShownWhole ==
    \A lines \in SequencesOf({"heading", "line"}, 1..5), blocks \in 0..3 :
        LET split == splitIntentDoc(lines, blocks)
            headings == {i \in DOMAIN lines : lines[i] = "heading"}
        IN  /\ ShownDocument(lines, blocks) = lines
            /\ split.mapped /\ headings # {} =>
                 /\ Len(split.segments) = blocks /\ Cardinality(headings) = blocks
                 /\ \A s \in DOMAIN split.segments : split.segments[s][1] = "heading"

\* A footnote selects a finding that names its block, or changes nothing; the
\* card of the selected finding takes the selection back.
ASSUME SelectionNamesBlock ==
    \A findings \in SequencesOf(SUBSET {1, 2}, 0..3), block \in {1, 2} :
        \A selected \in 0..Len(findings) :
            LET chosen == selectByFootnote(findings, block, selected) IN
            /\ chosen # selected => block \in findings[chosen]
            /\ chosen # 0 => selectByCard(chosen, chosen) = 0

\* The threshold sent is a step of the slider, the nearest to what was chosen,
\* and choosing it again changes nothing.
ASSUME ThresholdOnSlider ==
    \A value \in -10..110 :
        LET sent == clampConfuseThreshold(value) IN
        /\ sent \in 0..THRESHOLD_MAX /\ sent % THRESHOLD_STEP = 0
        /\ value \in 0..THRESHOLD_MAX => 2 * (sent - value) \in (-THRESHOLD_STEP)..THRESHOLD_STEP
        /\ clampConfuseThreshold(sent) = sent

\* The checks before a request: a file is looked at before it is sent, and a
\* GitHub address passes for a web address too.
ASSUME ChecksAtLimits ==
    /\ \A size \in {PLAN_MAX, PLAN_MAX + 1} :
          validatePlanFile([name |-> <<"plan", "v2", "md">>, size |-> size]) <=> size = PLAN_MAX
    /\ ~validatePlanFile([name |-> <<"md">>, size |-> 1])
    /\ \A count \in {ARTIFACT_MAX_COUNT - 1, ARTIFACT_MAX_COUNT},
          size \in {ARTIFACT_FILE_MAX, ARTIFACT_FILE_MAX + 1} :
          validateArtifactFile([size |-> size], count)
              <=> count = ARTIFACT_MAX_COUNT - 1 /\ size = ARTIFACT_FILE_MAX
    /\ \A trimmed \in {0, 1, 2000}, length \in {2000, 2001} :
          validateAnswer([trimmed |-> trimmed, length |-> length]) <=> trimmed > 0 /\ length = 2000
    /\ \A parses \in BOOLEAN, protocol \in {"https", "http"}, host \in {"github.com", "example.org"} :
          LET url == [parses |-> parses, protocol |-> protocol, hostname |-> host]
          IN  validateGithubUrl(url) => validateHttpsUrl(url)
    /\ \A value \in {NoLimit, 59, 60, 3600, 3601} :
          validateTimeLimitSec(value) <=> value \notin {59, 3601}
=============================================================================
