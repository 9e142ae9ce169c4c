------------------------------ MODULE Manuscript ------------------------------
(* From an accepted text to the published manuscript: the contract a Scene   *)
(* prose is accepted under (scene_prose_stage.py), the file it goes through, *)
(* and the Markdown publication_builder.py makes of the titles and of all    *)
(* the scenes, and judges by its lines before it is published.               *)
(*                                                                           *)
(* A text is a sequence of pieces.  A piece is what stands between two line  *)
(* breaks: br is the break in front of it, kind is what it looks like and of *)
(* says whose it is.  The breaks are "lf" (\n, \r\n), "cr" (a lone \r) and   *)
(* "ls" (U+2028 and its like): a regular expression starts a line after lf   *)
(* only, reading a text file turns cr into lf, and str.splitlines takes all  *)
(* three.  Blank lines and space around a text are left out.                 *)
EXTENDS Integers, Sequences, FiniteSets, SequencesExt, FiniteSetsExt

CONSTANTS
    SceneCounts,        \* of each volume, of each chapter, how many scenes
    Kinds,              \* what a piece may look like
    MaxPieces,          \* bound: the pieces of a text
    MaxUnusual          \* bound: texts other than one line of plain text

Breaks == {"lf", "cr", "ls"}
\* "item" is a list item or another beginning the prose contract refuses,
\* "bare" the mark of a heading with nothing behind it, "front" the three
\* hyphens front matter begins with, "control" a piece with a control
\* character other than NUL in it.
Marks == {"item", "heading2", "heading3", "bare", "separator"}
AllKinds == Marks \union {"text", "front", "control"}

ASSUME ManuscriptAssumption ==
    /\ SceneCounts \in Seq(Seq(Nat \ {0}) \ {<<>>}) \ {<<>>}
    /\ "text" \in Kinds /\ Kinds \subseteq AllKinds
    /\ MaxPieces \in Nat \ {0} /\ MaxUnusual \in Nat

VARIABLES
    texts,              \* the adopted titles and proses, by name
    accepted,           \* the reviewed prose on its way into the scene
    files               \* the publication

vars == <<texts, accepted, files>>

\* The series is named <<>>, a volume <<v>>, a chapter <<v, c>> and a scene
\* <<v, c, s>>; the run works through them in this order.
Volumes == DOMAIN SceneCounts
Chapters(v) == [c \in DOMAIN SceneCounts[v] |-> <<v, c>>]
Scenes(n) == [s \in 1 .. SceneCounts[n[1]][n[2]] |-> n \o <<s>>]
Each(F(_), ns) == FlattenSeq([i \in DOMAIN ns |-> <<ns[i]>> \o F(ns[i])])
Work ==
    << <<>> >> \o Each(LAMBDA n : Each(Scenes, Chapters(n[1])),
                      [v \in Volumes |-> <<v>>])

NoText == <<>>
NoFiles == <<>>

\* The texts a Provider may answer with: one line of plain text or, if the
\* bound allows, another text; the first piece opens a line.
Plain(name) == <<[br |-> "lf", kind |-> "text", of |-> name]>>
Answers(name) ==
    {Plain(name)} \union
        IF Cardinality({n \in DOMAIN texts : texts[n] # Plain(n)}) < MaxUnusual
        THEN {<<first>> \o rest : first \in [br : {"lf"}, kind : Kinds, of : {name}],
                                 rest \in SeqOf([br : Breaks, kind : Kinds, of : {name}],
                                               MaxPieces - 1)}
        ELSE {}

LineStarts(t, breaks) == {i \in DOMAIN t : t[i].br \in breaks}

Init == texts = <<>> /\ accepted = NoText /\ files = NoFiles
-----------------------------------------------------------------------------
(* Titles and prose are adopted.                                             *)

\* Front matter is three hyphens that are the whole first line of the text, for
\* a regular expression: a lone cr behind them does not end it.
FrontMatter(t) == t[1].kind = "front" /\ (Len(t) = 1 \/ t[2].br = "lf")

\* A plausible slip: the scene separator is taken for text.
ProseWithSeparators(t) ==
    /\ ~FrontMatter(t)
    /\ \A i \in LineStarts(t, {"lf"}) :
        /\ t[i].kind \notin {"heading2", "heading3", "item"}
        /\ t[i].kind = "bare" => i = Len(t)
    /\ \E i \in DOMAIN t : t[i].kind \notin {"bare", "front"}

\* _validate_prose_text: no line begins with a heading or an item, as the
\* separator does too; the mark of a heading needs white space behind it to be
\* seen, and every break is such.  Nor is there front matter, and there must be
\* Japanese in it.
ValidProse(t) ==
    /\ ~FrontMatter(t)
    /\ \A i \in LineStarts(t, {"lf"}) :
        /\ t[i].kind \notin {"heading2", "heading3", "item", "separator"}
        /\ t[i].kind = "bare" => i = Len(t)
    /\ \E i \in DOMAIN t : t[i].kind \notin {"bare", "separator", "front"}

\* What read_text makes of what was written.
ReadBack(t) ==
    [i \in DOMAIN t |-> [t[i] EXCEPT !.br = IF @ = "cr" THEN "lf" ELSE @]]

Written == Cardinality(DOMAIN texts) = Len(Work)
Upcoming == Work[Cardinality(DOMAIN texts) + 1]
IsScene(n) == Len(n) = 3

\* The plans are adopted with any title; it is kept in JSON, as it came.
AdoptTitle ==
    /\ ~Written /\ ~IsScene(Upcoming)
    /\ \E t \in Answers(Upcoming) : texts' = texts @@ (Upcoming :> t)
    /\ UNCHANGED <<accepted, files>>

\* The candidate passes the contract and its review, and is stored.
AcceptProse ==
    /\ ~Written /\ IsScene(Upcoming) /\ accepted = NoText
    /\ \E t \in Answers(Upcoming) :
        /\ ValidProse(t)
        /\ accepted' = t
    /\ UNCHANGED <<texts, files>>

\* It is read back, judged again and adopted; the commit moves it to the scene.
AdoptProse ==
    /\ accepted # NoText /\ ValidProse(ReadBack(accepted))
    /\ texts' = texts @@ (Upcoming :> ReadBack(accepted))
    /\ accepted' = NoText
    /\ UNCHANGED files

\* The adoption is refused at this step and at every later one.
AdoptionRefused ==
    /\ accepted # NoText /\ ~ValidProse(ReadBack(accepted))
    /\ UNCHANGED vars
-----------------------------------------------------------------------------
(* The manuscript.                                                           *)

\* _required_heading_text and _normalize_prose, on text without lone cr.
Printable(t) == \A i \in DOMAIN t : t[i].kind # "control"
ValidTitle(t) == Printable(t) /\ LineStarts(t, {"lf", "cr"}) = {1}
PublishableProse(t) ==
    /\ Printable(t)
    /\ \A i \in LineStarts(t, {"lf"}) :
        /\ t[i].kind \notin {"heading2", "heading3"}
        /\ t[i].kind = "bare" => i < Len(t) /\ t[i + 1].br = "ls"
        /\ t[i].kind = "separator" => i < Len(t) /\ t[i + 1].br = "ls"

\* A title behind the mark and the number that make it a line of the book.
\* The number of a heading is that of the name.
Line(kind, t) == <<[t[1] EXCEPT !.kind = kind]>> \o Tail(t)
Mark(kind) == <<[br |-> "lf", kind |-> kind, of |-> "builder"]>>

\* A plausible slip: the scenes of every chapter are read from the first.
CollectedFromFirst(c) == [s \in DOMAIN Scenes(c) |-> texts[<<c[1], 1>> \o <<s>>]]

\* _load_volumes: the scenes of a chapter in the order of its plan.
Collected(c) == [s \in DOMAIN Scenes(c) |-> texts[Scenes(c)[s]]]

\* _build_volume_markdown
VolumeFile(v) ==
    LET chapter(c) ==
            Line("chapter", texts[c]) \o Collected(c)[1]
                \o FlattenSeq([s \in 1 .. Len(Scenes(c)) - 1 |->
                                  Mark("separator") \o Collected(c)[s + 1]])
    IN Line("title", texts[<<>>]) \o Line("volume", texts[<<v>>])
        \o Mark("contents")
        \o FlattenSeq([c \in DOMAIN Chapters(v) |-> Line("entry", texts[<<v, c>>])])
        \o FlattenSeq([c \in DOMAIN Chapters(v) |-> chapter(<<v, c>>)])

\* _extract_volume_headings: what splitlines calls a line.
VolumeHeadings(file) == SelectSeq(file, LAMBDA p : p.kind \in {"volume", "heading2"})
ChapterHeadings(file) == SelectSeq(file, LAMBDA p : p.kind \in {"chapter", "heading3"})
Entries(headings) == [i \in DOMAIN headings |-> [headings[i] EXCEPT !.kind = "entry"]]

\* _build_series_markdown: the volumes without their first line, behind a
\* table of contents made of the headings found in them.
SeriesFile(volumes) ==
    Line("title", texts[<<>>]) \o Mark("contents")
        \o FlattenSeq([v \in DOMAIN volumes |->
                Entries(<<VolumeHeadings(volumes[v])[1]>>
                            \o ChapterHeadings(volumes[v]))])
        \o FlattenSeq([v \in DOMAIN volumes |->
                SubSeq(volumes[v], Len(texts[<<>>]) + 1, Len(volumes[v]))])

\* What validate_publication_files finds in a volume: one heading of the
\* volume, as many of chapters as planned by either way of counting, and
\* between them the contents that repeat the latter; and all the scenes.
ValidVolume(file, v) ==
    LET chapters == ChapterHeadings(file)
        atLine(kinds) == {i \in LineStarts(file, {"lf"}) : file[i].kind \in kinds}
        top == Min(atLine({"volume"}))
    IN /\ Len(VolumeHeadings(file)) = 1
       /\ Len(chapters) = Len(Chapters(v))
       /\ Cardinality(atLine({"chapter", "heading3"})) = Len(Chapters(v))
       /\ <<file[top + 1]>> = Mark("contents")
       /\ SubSeq(file, top + 2, top + 1 + Len(chapters)) = Entries(chapters)
       /\ file[top + 2 + Len(chapters)].br = "lf"
       /\ Cardinality(atLine({"separator"})) + Len(Chapters(v))
              = Len(Each(Scenes, Chapters(v))) - Len(Chapters(v))

CanPublish ==
    /\ \A n \in DOMAIN texts :
        IF IsScene(n) THEN PublishableProse(texts[n]) ELSE ValidTitle(texts[n])
    /\ \A v \in Volumes : ValidVolume(VolumeFile(v), v)

Publish ==
    /\ Written /\ files = NoFiles /\ CanPublish
    /\ LET volumes == [v \in Volumes |-> VolumeFile(v)]
       IN files' = <<SeriesFile(volumes)>> \o volumes
    /\ UNCHANGED <<texts, accepted>>

\* The publication stage is refused at this step and at every later one.
PublicationRefused == Written /\ ~CanPublish /\ UNCHANGED vars

Done == files # NoFiles /\ UNCHANGED vars

Next ==
    \/ AdoptTitle \/ AcceptProse \/ AdoptProse \/ AdoptionRefused
    \/ Publish \/ PublicationRefused \/ Done

Spec == Init /\ [][Next]_vars
-----------------------------------------------------------------------------
(* The numbers of volumes and chapters.                                      *)

Digits == <<"one", "two", "three", "four", "five", "six", "seven", "eight", "nine">>

\* _japanese_number: a hundred and a ten go without a one, a one does not.
JapaneseNumber(n) ==
    LET part(d, unit) ==
            IF d = 0 THEN <<>> ELSE IF d = 1 THEN unit ELSE <<Digits[d]>> \o unit
    IN part(n \div 100, <<"hundred">>) \o part((n % 100) \div 10, <<"ten">>)
           \o IF n % 10 = 0 THEN <<>> ELSE <<Digits[n % 10]>>
-----------------------------------------------------------------------------
(* The properties.                                                           *)

\* A text that passed its contract and review is lost later only for a mark
\* the prose contract does not see as one: behind a lone cr at the adoption, or
\* front matter in front of one there, and at the publication a control character, a bare heading mark at the end
\* or a heading behind a break of splitlines; and for a title of more than one
\* line or with a control character in it, which the plans let through.
LostOnlyForUnseenMarks ==
    /\ accepted # NoText /\ ~ValidProse(ReadBack(accepted)) =>
        \E i \in LineStarts(accepted, {"cr"}) :
            accepted[i].kind \in Marks \/ (i = 2 /\ accepted[1].kind = "front")
    /\ Written /\ ~CanPublish =>
        \E n \in DOMAIN texts :
            LET t == texts[n]
            IN \/ ~Printable(t)
               \/ IsScene(n) /\ Last(t).kind = "bare"
               \/ ~IsScene(n) /\ n # <<>> /\ Len(t) > 1
               \/ n = <<>> /\ LineStarts(t, {"lf", "cr"}) # {1}
               \/ \E i \in LineStarts(t, {"ls"}) : t[i].kind \in {"heading2", "heading3"}

\* A reader of the Markdown: a scene begins behind a heading of a chapter or a
\* separator and ends before the next of these or the heading of a volume.
ReadScenes(file) ==
    LET marks == {i \in LineStarts(file, {"lf"}) :
                    file[i].kind \in {"chapter", "heading3", "separator"}}
        stops == marks \union {i \in LineStarts(file, {"lf"}) :
                                  file[i].kind \in {"volume", "heading2"}}
                       \union {Len(file) + 1}
    IN {<<i, SubSeq(file, i + 1, Min({j \in stops : j > i}) - 1)>> : i \in marks}

ScenesInOrder(file, names) ==
    LET read == ReadScenes(file)
    IN [k \in 1 .. Cardinality(read) |->
            (CHOOSE r \in read : Cardinality({q \in read : q[1] <= r[1]}) = k)[2]]
        = [k \in DOMAIN names |-> texts[names[k]]]

NumberRead(w) ==
    LET digit(x) == CHOOSE d \in DOMAIN Digits : Digits[d] = x
        read == FoldLeft(LAMBDA acc, x :
                    IF x = "hundred" THEN <<acc[1] + 100 * Max({1, acc[2]}), 0>>
                    ELSE IF x = "ten" THEN <<acc[1] + 10 * Max({1, acc[2]}), 0>>
                    ELSE <<acc[1], digit(x)>>, <<0, 0>>, w)
    IN read[1] + read[2]
AllNumbersReadBack == \A n \in 1 .. 999 : NumberRead(JapaneseNumber(n)) = n

\* What is published reads back as what was written: every volume holds its
\* scenes and no other text, in reading order, the series those of all the
\* volumes, and its contents name the volumes and chapters as they come, with
\* numbers that tell them apart.
PublishedReadsBack ==
    files # NoFiles =>
        /\ \A v \in Volumes :
            ScenesInOrder(files[v + 1], SelectSeq(Work, LAMBDA n : IsScene(n) /\ n[1] = v))
        /\ ScenesInOrder(files[1], SelectSeq(Work, IsScene))
        /\ LET headings == SelectSeq(Work, LAMBDA n : Len(n) \in 1 .. 2)
           IN \A i \in DOMAIN headings :
                LET p == files[1][Len(texts[<<>>]) + 1 + i]
                IN p.kind = "entry" /\ p.of = headings[i]
        /\ AllNumbersReadBack
===============================================================================
