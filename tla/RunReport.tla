------------------------------ MODULE RunReport ------------------------------
(***************************************************************************)
(* tools/run_report.py drives the server with local images and writes what *)
(* came back to a Markdown report; tools/bench_translate_concurrency.py    *)
(* reads the source texts back out of that report and fires them at the    *)
(* translation backend, P at a time.  Both share out their jobs over a     *)
(* thread pool whose threads end in any order.                             *)
(*                                                                         *)
(* A text is a sequence of characters, of which the report's tables tell   *)
(* apart the space "sp", the newline "nl", the carriage return "cr"        *)
(* (Python's splitlines cuts at more of them: "ls"), the separator "bar",  *)
(* the backslash "bs" and the sign "ret" a newline is written as.          *)
(* Headings, tallies of the single stages and the rest of the layout are   *)
(* left out.                                                               *)
(***************************************************************************)
EXTENDS StableLists, SequencesExt

CONSTANTS
    Inputs,      \* the images' base names, in the order they are given
    Costs,       \* [input -> the time the server reports for it]
    Alphabet,    \* the characters of texts
    PageTexts,   \* what the recognizer may read: functions from inputs to texts
    Caps,        \* --concurrency: sequences of one number, or none
    Sweep        \* -P of the bench

ASSUME InputsAreGiven == Inputs \in Seq(STRING) /\ Inputs # <<>>
ASSUME CostsAreGiven == Costs \in [DOMAIN Inputs -> Nat]
ASSUME SignsAreCharacters == {"sp", "nl", "cr", "ls", "bar", "bs", "ret"} \subseteq Alphabet
ASSUME CapsAreNumbers == Caps \subseteq Seq(Int)
ASSUME SweepIsPositive == Sweep \in Seq(Nat \ {0}) /\ Sweep # <<>>

VARIABLES
    step,        \* "args", "drive", "report", "parse", "bench" or "ended"
    opts,        \* --use-cache negated, --no-translate
    texts,       \* what the recognizer reads on each image
    limit,       \* threads of the pool
    jobs,        \* how many jobs the pool was given
    handed,      \* jobs it has handed to a thread
    flight,      \* jobs in a thread
    answered,    \* job -> what came of it
    runs,        \* the report's records
    bodies,      \* the pages the bench read from the report
    rounds,      \* P of the passes still to come
    posted       \* requests this pass has sent, per job

reportVars == <<step, opts, texts, limit, jobs, handed, flight, answered, runs,
                bodies, rounds, posted>>
poolVars == <<limit, jobs, handed, flight, answered, posted>>

ReportInit ==
    /\ step = "args" /\ opts = [force |-> TRUE, skip |-> FALSE] /\ texts \in PageTexts
    /\ limit = 0 /\ jobs = 0 /\ handed = 0 /\ flight = {} /\ answered = <<>>
    /\ runs = <<>> /\ bodies = <<>> /\ rounds = <<>> /\ posted = <<>>
-----------------------------------------------------------------------------
(* Cells of a Markdown table, and back.                                    *)

White == {"sp", "nl", "cr", "ls"}
Strip(t) ==
    LET black == {i \in DOMAIN t : t[i] \notin White}
    IN  IF black = {} THEN <<>>
        ELSE SubSeq(t, CHOOSE i \in black : \A j \in black : i <= j,
                       CHOOSE i \in black : \A j \in black : i >= j)

\* The pipeline strips what the recognizer reads.
ASSUME TextsAreStripped ==
    \A p \in PageTexts : /\ p \in Seq(Seq(Seq(Alphabet))) /\ DOMAIN p = DOMAIN Inputs
                         /\ \A i \in DOMAIN p : \A k \in DOMAIN p[i] : Strip(p[i][k]) = p[i][k]

Written(c) == CASE c = "bs" -> <<"bs", "bs">> [] c = "bar" -> <<"bs", "bar">>
                [] c = "nl" -> <<"sp", "ret", "sp">> [] c = "cr" -> <<"sp">>
                [] OTHER -> <<c>>

\* Defect: the separator is escaped before the backslash.
MdCellBarsFirst(t) ==
    FlattenSeq([i \in DOMAIN t |->
                  IF t[i] = "bar" THEN <<"bs", "bs", "bar">> ELSE Written(t[i])])

MdCell(t) == FlattenSeq([i \in DOMAIN t |-> Written(t[i])])

\* str.replace, from the left, none overlapping: of the last n characters.
Replace(t, old, new) ==
    LET Old(n) == SubSeq(t, Len(t) - n + 1, Len(t) - n + Len(old)) = old
        last[n \in 0..Len(t)] ==
          IF n = 0 THEN <<>>
          ELSE IF Len(old) <= n /\ Old(n) THEN new \o last[n - Len(old)]
          ELSE <<t[Len(t) - n + 1]>> \o last[n - 1]
    IN  last[Len(t)]

Unescape(c) ==
    Replace(Replace(Replace(Strip(c), <<"sp", "ret", "sp">>, <<"nl">>),
                    <<"bs", "bar">>, <<"bar">>),
            <<"bs", "bs">>, <<"bs">>)

Heading(r) == [row |-> FALSE, chars |-> <<r.image>>]
Row(source, destination) ==
    [row |-> TRUE,
     chars |-> <<"bar", "sp", "n", "sp", "bar", "sp", "bounds", "sp", "bar", "sp">>
                 \o MdCell(source) \o <<"sp", "bar", "sp">> \o MdCell(destination)
                 \o <<"sp", "bar">>]

\* The times of the single images stand below a heading that reads like an
\* image's; none of these lines does like a row, which opens with a number.
CasesHeading == [row |-> FALSE, chars |-> <<"cases">>]
CaseTimes(rs) == IF \E i \in DOMAIN rs : rs[i].ok /\ rs[i].timing # <<>>
                   THEN <<CasesHeading>> ELSE <<>>

\* Then the part on each image; one that failed has no rows.
BuildMarkdown(rs) ==
    CaseTimes(rs) \o FlattenSeq([i \in DOMAIN rs |->
        <<Heading(rs[i])>>
          \o [k \in DOMAIN rs[i].regions |-> Row(rs[i].regions[k].source,
                                                 rs[i].regions[k].destination)]])

Positions(places) == Pick([i \in places |-> i], places)

\* A row as far as splitlines leaves it; the rest of it is no row and no
\* heading.
FirstLine(chars) ==
    LET cut == SelectInSeq(chars, LAMBDA c : c = "ls")
    IN  IF cut = 0 THEN chars ELSE SubSeq(chars, 1, cut - 1)

\* The separators are the bars no backslash precedes.
Separators(chars) ==
    {i \in DOMAIN chars : chars[i] = "bar" /\ (i = 1 \/ chars[i - 1] # "bs")}

\* The fourth cell of a row; a row cut short before its end is not read.
SourceOf(line) ==
    LET chars == FirstLine(line.chars)
        at == Positions(Separators(chars))
    IN  IF Len(at) < 4 THEN <<>> ELSE Unescape(SubSeq(chars, at[3] + 1, at[4] - 1))

Solid(cells) == Where(cells, LAMBDA t : Strip(t) # <<>>)
Full(pages) == Where(pages, LAMBDA p : p # <<>>)

\* The non-blank texts of each page that has any.
ParsePages(lines) ==
    LET heads == Positions({i \in DOMAIN lines : ~lines[i].row})
        End(k) == IF k = Len(heads) THEN Len(lines) ELSE heads[k + 1] - 1
        Rows(k) == [j \in 1..End(k) - heads[k] |-> SourceOf(lines[heads[k] + j])]
    IN  Full([k \in DOMAIN heads |-> Solid(Rows(k))])

\* Twice _median's value.
TwiceMedian(vals) ==
    LET s == StableSort(vals, LAMBDA x, y : x < y)
        mid == Len(s) \div 2
    IN  IF Len(s) % 2 = 1 THEN 2 * s[mid + 1] ELSE s[mid] + s[mid + 1]

\* build_report: what is counted and timed.
Aggregate(rs) ==
    [ok |-> Cardinality({i \in DOMAIN rs : rs[i].ok}),
     failed |-> Cardinality({i \in DOMAIN rs : ~rs[i].ok}),
     times |-> LET timed == Where(rs, LAMBDA r : r.ok /\ r.timing # <<>>)
               IN  [i \in DOMAIN timed |-> timed[i].timing[1]]]
-----------------------------------------------------------------------------
(* A pool of `limit` threads, and run_report on it.                        *)

Smaller(a, b) == IF a < b THEN a ELSE b
Larger(a, b) == IF a < b THEN b ELSE a

\* --concurrency over --parallel over serial, clamped to the inputs.
Concurrency(cap, parallel) ==
    Smaller(Len(Inputs), IF cap # <<>> THEN Larger(1, cap[1])
                         ELSE IF parallel THEN Len(Inputs) ELSE 1)

OpenPool(n, threads) ==
    /\ limit' = threads /\ jobs' = n /\ handed' = 0 /\ flight' = {} /\ answered' = <<>>
    /\ posted' = [k \in 1..n |-> 0]

StartsRun ==
    /\ step = "args" /\ step' = "drive"
    /\ \E cap \in Caps, parallel, force, skip \in BOOLEAN :
         /\ OpenPool(Len(Inputs), Concurrency(cap, parallel))
         /\ opts' = [force |-> force, skip |-> skip]
    /\ UNCHANGED <<texts, runs, bodies, rounds>>

Record(i, ok, regions, timing) ==
    [image |-> Inputs[i], ok |-> ok, regions |-> regions, timing |-> timing]

\* A thread takes the next job and posts it.
Posts ==
    /\ step \in {"drive", "bench"} /\ handed < jobs /\ Cardinality(flight) < limit
    /\ handed' = handed + 1 /\ flight' = flight \cup {handed + 1}
    /\ posted' = [posted EXCEPT ![handed + 1] = @ + 1]
    /\ UNCHANGED <<step, opts, texts, limit, jobs, answered, runs, bodies, rounds>>

Ends(i, result) ==
    /\ i \in flight /\ flight' = flight \ {i}
    /\ answered' = [k \in DOMAIN answered \cup {i} |->
                      IF k = i THEN result ELSE answered[k]]
    /\ UNCHANGED <<step, opts, texts, limit, jobs, handed, runs, bodies, rounds, posted>>

\* _run_one: the server computes the page or, unless forced, answers from its
\* cache without timing; it never raises.
PageReturns(i) ==
    /\ step = "drive"
    /\ \E timing \in {<<Costs[i]>>} \cup (IF opts.force THEN {} ELSE {<<>>}) :
         Ends(i, Record(i, TRUE,
                        [k \in DOMAIN texts[i] |->
                           [source |-> texts[i][k],
                            destination |-> IF opts.skip THEN <<>> ELSE texts[i][k]]],
                        timing))
PageFailsThere(i) == step = "drive" /\ Ends(i, Record(i, FALSE, <<>>, <<>>))

AllIn == handed = jobs /\ flight = {}

\* Defect: results are kept under the image's name.
CollectsByName ==
    /\ step = "drive" /\ AllIn /\ step' = "report"
    /\ runs' = [i \in 1..jobs |->
                  answered[CHOOSE k \in 1..jobs : Inputs[k] = Inputs[i]]]
    /\ UNCHANGED <<opts, texts, poolVars, bodies, rounds>>

\* "restore input order"
Collects ==
    /\ step = "drive" /\ AllIn /\ step' = "report"
    /\ runs' = [i \in 1..jobs |-> answered[i]]
    /\ UNCHANGED <<opts, texts, poolVars, bodies, rounds>>

WritesReport ==
    /\ step = "report" /\ step' = "parse"
    /\ UNCHANGED <<opts, texts, poolVars, runs, bodies, rounds>>
-----------------------------------------------------------------------------
(* bench_translate_concurrency on the report.                              *)

\* Another process: the bodies, and the passes, of which an untimed one at the
\* highest P comes first.
Parses ==
    LET top == CHOOSE p \in {Sweep[k] : k \in DOMAIN Sweep} :
                 \A k \in DOMAIN Sweep : Sweep[k] <= p
    IN  /\ step = "parse"
        /\ \E pages \in {ParsePages(BuildMarkdown(runs))} :
             /\ bodies' = pages
             /\ step' = IF pages = <<>> THEN "ended" ELSE "bench"
             /\ rounds' = IF pages = <<>> THEN <<>> ELSE Sweep
             /\ OpenPool(Len(pages), top)
        /\ opts' = [force |-> TRUE, skip |-> FALSE] /\ runs' = <<>>
        /\ UNCHANGED texts

BodyReturns(i) == step = "bench" /\ \E ok \in BOOLEAN : Ends(i, ok)

Raised == \E i \in DOMAIN answered :
            /\ ~answered[i] /\ \A j \in 1..i - 1 : j \in DOMAIN answered /\ answered[j]

\* ex.map gives results in order: the first error is raised when those before
\* it are in, and takes back the jobs no thread has begun.
CancelsRest ==
    /\ step = "bench" /\ Raised /\ handed < jobs
    /\ jobs' = handed
    /\ UNCHANGED <<step, opts, texts, limit, handed, flight, answered, runs,
                   bodies, rounds, posted>>

\* The next pass, once all threads have ended; an error ends the bench.
EndsPass ==
    /\ step = "bench" /\ AllIn
    /\ IF Raised \/ rounds = <<>>
         THEN step' = "ended" /\ UNCHANGED <<poolVars, rounds>>
         ELSE /\ OpenPool(Len(bodies), Head(rounds)) /\ rounds' = Tail(rounds)
              /\ UNCHANGED step
    /\ UNCHANGED <<opts, texts, runs, bodies>>

ReportNext ==
    \/ StartsRun \/ Posts \/ Collects \/ WritesReport \/ Parses \/ CancelsRest \/ EndsPass
    \/ \E i \in flight : PageReturns(i) \/ PageFailsThere(i) \/ BodyReturns(i)

ReportSpec == ReportInit /\ [][ReportNext]_reportVars
-----------------------------------------------------------------------------
\* The types of the pool and of the report; never more threads than allowed.
ReportTypeOK ==
    /\ step \in {"args", "drive", "report", "parse", "bench", "ended"}
    /\ flight \subseteq 1..handed /\ handed <= jobs /\ Cardinality(flight) <= limit
    /\ DOMAIN answered \subseteq 1..handed

\* "a name-keyed dict would collide (one result lost, another duplicated) while
\* the count still looked right": the report has one record per input, in the
\* order of the inputs, and it is that input's own.
RecordsFollowInputs ==
    step \in {"report", "parse"} =>
      /\ Len(runs) = Len(Inputs)
      /\ \A i \in DOMAIN Inputs :
           /\ runs[i].image = Inputs[i] /\ runs[i] = answered[i]
           /\ runs[i].ok => Len(runs[i].regions) = Len(texts[i])

\* Every successful page was counted, and the median divides the timed ones.
TalliesAddUp ==
    step = "report" =>
      LET agg == Aggregate(runs)
          times == agg.times
          median == TwiceMedian(times)
      IN  /\ agg.ok + agg.failed = Len(Inputs) /\ Len(times) <= agg.ok
          /\ opts.force => Len(times) = agg.ok
          /\ times # <<>> =>
               /\ 2 * Cardinality({i \in DOMAIN times : 2 * times[i] <= median}) >= Len(times)
               /\ 2 * Cardinality({i \in DOMAIN times : 2 * times[i] >= median}) >= Len(times)

\* A text that holds the sign of a newline amid spaces: it comes back as one.
SignAmidSpaces(t) ==
    \E i \in 1..Len(t) - 2 : /\ t[i] \in {"sp", "cr"} /\ t[i + 1] = "ret"
                             /\ t[i + 2] \in {"sp", "cr", "nl"}

\* What should come back of a text, and of the texts of a page.
ReadBack(t) == [k \in DOMAIN t |-> IF t[k] = "cr" THEN "sp" ELSE t[k]]
Kept(read) == Where([k \in DOMAIN read |-> ReadBack(read[k])],
                    LAMBDA t : t # <<>> /\ \A k \in DOMAIN t : t[k] # "ls")

\* "the REAL page texts from a run_report markdown": the bench fires the texts
\* the recognizer read, page by page, whatever separators and backslashes they
\* hold; a text that splitlines cuts is all that is lost, and a carriage return
\* comes back as a space.
BodiesAreThePages ==
    /\ step = "bench" =>
         /\ \A k \in DOMAIN posted : posted[k] <= 1
         /\ AllIn /\ ~Raised => \A k \in DOMAIN posted : posted[k] = 1
    /\ step = "parse" /\ (\A i \in DOMAIN texts : \A k \in DOMAIN texts[i] :
                            ~SignAmidSpaces(texts[i][k]))
         => ParsePages(BuildMarkdown(runs))
              = Full([i \in DOMAIN Inputs |-> IF runs[i].ok THEN Kept(texts[i]) ELSE <<>>])

\* From the images to the bench's requests, nothing is lost, duplicated or moved
\* to another page, in whatever order the threads end.
ReportKeepsPages ==
    ReportTypeOK /\ RecordsFollowInputs /\ TalliesAddUp /\ BodiesAreThePages

=============================================================================
