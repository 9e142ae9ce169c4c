---------------------------- MODULE AtomicSeries ----------------------------
(***************************************************************************)
(* What a whole run promises: a series is founded on one generation of its *)
(* story, its scenes are written one at a time in the order of reading,    *)
(* with no gap and each on the generation the one before it left, a volume *)
(* is handed over when it is written, and at the end everything is printed *)
(* once.  No plan, stage, review or interruption is visible at this level. *)
(***************************************************************************)
EXTENDS Naturals

CONSTANTS
    Last,           \* the number of the last volume
    Unfounded,      \* instead of a generation before the first
    Places          \* <<volume, chapter, scene>>

VARIABLES
    history,        \* written scenes with their generation and its parent
    head,           \* the current generation
    handed,         \* volumes handed over with their scenes and generation
    books           \* what is printed

seriesVars == <<history, head, handed, books>>

SeriesInit ==
    /\ history = {} /\ handed = {} /\ books = {}
    /\ head = Unfounded

ScenesIn(v) == {r.scene : r \in {w \in history : w.scene[1] = v}}
VolumesHanded == {h.volume : h \in handed}

\* The scene after x in a volume, and the one a volume begins with.
Follows(x, y) ==
    /\ y[1] = x[1]
    /\ \/ y[2] = x[2] /\ y[3] = x[3] + 1
       \/ y[2] = x[2] + 1 /\ y[3] = 1
Opens(v) == <<v, 1, 1>>

Found(g) ==
    /\ head = Unfounded
    /\ head' = g
    /\ UNCHANGED <<history, handed, books>>

Write(x, g) ==
    /\ head # Unfounded /\ g > head
    /\ VolumesHanded = 1 .. x[1] - 1
    /\ \/ x = Opens(x[1]) /\ ScenesIn(x[1]) = {}
       \/ \E r \in history : r.generation = head /\ Follows(r.scene, x)
    /\ history' = history \cup
            {[scene |-> x, generation |-> g, parent |-> head]}
    /\ head' = g
    /\ UNCHANGED <<handed, books>>

HandOver(v) ==
    /\ VolumesHanded = 1 .. v - 1
    /\ ScenesIn(v) # {}
    /\ handed' = handed \cup
            {[volume |-> v, scenes |-> ScenesIn(v), generation |-> head]}
    /\ UNCHANGED <<history, head, books>>

PrintBook ==
    /\ books = {}
    /\ VolumesHanded = 1 .. Last
    /\ books' = {[scenes |-> {r.scene : r \in history}, generation |-> head]}
    /\ UNCHANGED <<history, head, handed>>

SeriesNext ==
    \/ \E g \in Nat : Found(g) \/ \E x \in Places : Write(x, g)
    \/ \E v \in 1 .. Last : HandOver(v)
    \/ PrintBook

SeriesSpec == SeriesInit /\ [][SeriesNext]_seriesVars
=============================================================================
