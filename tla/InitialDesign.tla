---------------------------- MODULE InitialDesign ----------------------------
(* The contracts of the Initial Design (series_contracts.py): characters,    *)
(* relationships, world, knowledge, threads and ending are adopted one after *)
(* the other, each judged against the ones before it and immutable from then *)
(* on; initial_integrate revises them all at once without touching an id,    *)
(* and initial_accept builds the first Generation from the result            *)
(* (initial_generation.py).  The scenes, the handoffs and the Completion     *)
(* live on what these contracts let through.                                 *)
(*                                                                           *)
(* Records are kept by their number, which is their id: the adopters number  *)
(* them in the order of the candidate.  Of a record only the fields another  *)
(* contract looks at are kept; names, titles and texts are left out, and with *)
(* them the checks that they differ.  What the Brief bans is looked for in   *)
(* the JSON text of the whole concept, cast or world, names of fields and    *)
(* values of enumerations included (:126-145, :243-257, :602-616).           *)
EXTENDS Integers, Sequences, FiniteSets, SequencesExt, Functions

CONSTANTS
    Roles,              \* the roles a character may have
    Types,              \* the types of relationship a candidate may use
    Truths,             \* the truth_status values it may use
    Beliefs,            \* the states of character_knowledge it may use
    MaxCharacters,      \* bound: characters a candidate may list
    MaxRelationships,   \* bound: relationships
    MaxLocations,       \* bound: locations
    MaxThreads,         \* bound: threads
    Words,              \* the words a Brief may ask to avoid
    Sayings,            \* of a part, the sets of them its JSON text may contain
    PlaceholderWords    \* those in the world made up to check the threads

ASSUME InitialAssumption ==
    /\ {MaxCharacters, MaxRelationships, MaxLocations, MaxThreads} \subseteq Nat \ {0}
    /\ "protagonist" \in Roles /\ Types # {}
    /\ "true" \in Truths /\ "believes" \in Beliefs
    /\ Sayings \in [{"concept", "cast", "world"} -> SUBSET SUBSET Words]
    /\ PlaceholderWords \subseteq Words

VARIABLES
    avoid,              \* the words the Brief asks to avoid
    stage,              \* the stage whose candidate is looked for
    design,             \* what is adopted so far, and by integrate revised
    generation          \* state.json of the first Generation

designVars == <<avoid, stage, design, generation>>

NoFact == [truth |-> "none", known |-> <<>>]
NoEnding == [characters |-> {}, relationships |-> {}, threads |-> {}, arcs |-> {}]
NoDesign == [says |-> {}, characters |-> <<>>, relationships |-> <<>>,
             locations |-> <<>>, fact |-> NoFact, threads |-> <<>>,
             ending |-> NoEnding]
NoGeneration == [characters |-> <<>>, relationships |-> {}, threads |-> <<>>]

DesignInit ==
    /\ avoid \in SUBSET Words
    /\ stage = "initial_concept" /\ design = NoDesign
    /\ generation = NoGeneration
-----------------------------------------------------------------------------
(* What a contract asks of a part by itself: the parts a candidate may bring. *)
(* d is the design the candidate belongs to.                                 *)

\* What of the words to avoid the JSON text of a part contains, whatever else
\* the part says.  A word that is in the name of a required field is in every
\* text.
Texts(part) == {ws \intersect avoid : ws \in Sayings[part]}

CharacterCandidates ==
    {cs \in SeqOf(Roles, MaxCharacters) : "protagonist" \in Range(cs)}

\* Two to four participants in each, no two alike in them and in their type.
RelationshipRecords ==
    [who : {c \in SUBSET (1 .. MaxCharacters) : Cardinality(c) \in 2 .. 4},
     type : Types]
RelationshipCandidates ==
    {rs \in SeqOf(RelationshipRecords, MaxRelationships) :
        rs # <<>> /\ IsInjective(rs)}

\* A location is the number of its parent, 0 for none, and lies in one listed
\* before it; the first one has no parent.
LocationCandidates ==
    {ls \in SeqOf(0 .. MaxLocations, MaxLocations) :
        ls # <<>> /\ \A l \in DOMAIN ls : ls[l] < l}

\* One fact stands for the facts.  Every character has a state for it; nobody
\* knows what is not true, and a belief is somebody's.
KnowledgeCandidates(d) ==
    {f \in [truth : Truths, known : [DOMAIN d.characters -> Beliefs]] :
        /\ f.truth # "true" => "knows" \notin Range(f.known)
        /\ f.truth = "belief_only" =>
            \E c \in DOMAIN f.known : f.known[c] # "unknown"}

\* Whether the reader sees a thread matters for a planned one only.
ThreadRecords ==
    {t \in [major : BOOLEAN, required : BOOLEAN,
            status : {"planned", "open"}, hidden : BOOLEAN] :
        /\ t.status = "planned" <=> t.hidden
        /\ t.major => t.status = "open"}

\* A plausible slip: a major thread need not be required.
ThreadsUnrequired ==
    {ts \in SeqOf(ThreadRecords, MaxThreads) : \E t \in Range(ts) : t.major}

ThreadCandidates ==
    {ts \in SeqOf(ThreadRecords, MaxThreads) :
        /\ \E t \in Range(ts) : t.major
        /\ \A t \in Range(ts) : t.major => t.required}

RequiredThreads(d) == {t \in DOMAIN d.threads : d.threads[t].required}
Principals(d) ==
    {c \in DOMAIN d.characters :
        d.characters[c] \in {"protagonist", "co_protagonist"}}

\* A long-term arc is that of a character, a relationship or a thread, at most
\* one for each.
ArcTargets(d) ==
    ({"character"} \X DOMAIN d.characters)
        \union ({"relationship"} \X DOMAIN d.relationships)
        \union ({"thread"} \X DOMAIN d.threads)

\* Those that must have one.
ArcsOwed(d) ==
    ({"character"} \X Principals(d)) \union ({"thread"} \X RequiredThreads(d))

\* The ending settles every principal, at least one relationship and exactly
\* the threads required for completion.
EndingCandidates(d) ==
    [characters : {cs \in SUBSET DOMAIN d.characters :
                      cs # {} /\ Principals(d) \subseteq cs},
     relationships : (SUBSET DOMAIN d.relationships) \ {{}},
     threads : {RequiredThreads(d)} \ {{}},
     arcs : {ArcsOwed(d) \union as : as \in SUBSET (ArcTargets(d) \ ArcsOwed(d))}]
-----------------------------------------------------------------------------
(* The contracts: a part by itself and held against the parts before it.     *)

\* Nothing of what the concept, the cast and the world say is to be avoided.
Avoids(d) == d.says = {}

ValidCharacters(d) == d.characters \in CharacterCandidates /\ Avoids(d)

ValidRelationships(d) ==
    /\ d.relationships \in RelationshipCandidates
    /\ \A r \in Range(d.relationships) : r.who \subseteq DOMAIN d.characters

ValidWorld(d) == d.locations \in LocationCandidates /\ Avoids(d)

ValidKnowledge(d) == d.fact \in KnowledgeCandidates(d)

ValidThreads(d) == d.threads \in ThreadCandidates

\* The prerequisites of the ending judge the threads again, with a made up
\* world and fact in place of the adopted ones: that world is held against
\* the Brief too.
EndingPrerequisites(d) ==
    /\ ValidCharacters(d) /\ ValidRelationships(d) /\ ValidThreads(d)
    /\ PlaceholderWords \intersect avoid = {}

ValidEnding(d) == d.ending \in EndingCandidates(d) /\ EndingPrerequisites(d)
-----------------------------------------------------------------------------
(* Each stage adopts a candidate its contract accepts; another one leaves    *)
(* the run at the stage.  The sets are the designs that the candidates of a  *)
(* stage may make of the design d.                                           *)

Concepts(d) == {e \in {[d EXCEPT !.says = ws] : ws \in Texts("concept")} : Avoids(e)}

WithCast(d, cs, ws) == [d EXCEPT !.characters = cs, !.says = @ \union ws]
Casts(d) ==
    {e \in {WithCast(d, cs, ws) : cs \in CharacterCandidates, ws \in Texts("cast")} :
        ValidCharacters(e)}

RelationshipSets(d) ==
    {e \in {[d EXCEPT !.relationships = rs] : rs \in RelationshipCandidates} :
        ValidRelationships(e)}

WithWorld(d, ls, ws) == [d EXCEPT !.locations = ls, !.says = @ \union ws]
Worlds(d) ==
    {e \in {WithWorld(d, ls, ws) : ls \in LocationCandidates, ws \in Texts("world")} :
        ValidWorld(e)}

Facts(d) == {[d EXCEPT !.fact = f] : f \in KnowledgeCandidates(d)}

ThreadSets(d) == {[d EXCEPT !.threads = ts] : ts \in ThreadCandidates}

Endings(d) ==
    IF EndingPrerequisites(d)
    THEN {[d EXCEPT !.ending = e] : e \in EndingCandidates(d)}
    ELSE {}

\* What the integrating candidate may not touch: the ids, their number and
\* their order.
SameShape(d) ==
    /\ Len(d.characters) = Len(design.characters)
    /\ Len(d.relationships) = Len(design.relationships)
    /\ Len(d.locations) = Len(design.locations)
    /\ DOMAIN d.fact.known = DOMAIN design.fact.known
    /\ Len(d.threads) = Len(design.threads)
    /\ Cardinality(d.ending.arcs) = Cardinality(design.ending.arcs)
Alike(D) == {d \in D : SameShape(d)}

Adopted(next) == stage' = next /\ UNCHANGED <<avoid, generation>>

InitialConcept ==
    /\ stage = "initial_concept"
    /\ design' \in Concepts(design)
    /\ Adopted("initial_characters")

InitialCharacters ==
    /\ stage = "initial_characters"
    /\ design' \in Casts(design)
    /\ Adopted("initial_relationships")

InitialRelationships ==
    /\ stage = "initial_relationships"
    /\ design' \in RelationshipSets(design)
    /\ Adopted("initial_world")

InitialWorld ==
    /\ stage = "initial_world"
    /\ design' \in Worlds(design)
    /\ Adopted("initial_knowledge")

InitialKnowledge ==
    /\ stage = "initial_knowledge"
    /\ design' \in Facts(design)
    /\ Adopted("initial_threads")

InitialThreads ==
    /\ stage = "initial_threads"
    /\ design' \in ThreadSets(design)
    /\ Adopted("initial_ending")

InitialEnding ==
    /\ stage = "initial_ending"
    /\ design' \in Endings(design)
    /\ Adopted("initial_integrate")

\* A plausible slip: a revised part is held against the adopted ones, not the
\* ones it comes with.
IntegratedAgainstAdopted ==
    /\ stage = "initial_integrate"
    /\ \E c \in Casts(design), e \in Endings(design) :
        design' \in Alike({[c EXCEPT !.ending = e.ending]})
    /\ Adopted("initial_accept")

\* The integrating candidate may change every part at once: each is held, in
\* the order of the stages, against the others as they come with it.
InitialIntegrate ==
    /\ stage = "initial_integrate"
    /\ \E concept \in Alike(Concepts(design)) :
       \E cast \in Alike(Casts(concept)) :
       \E related \in Alike(RelationshipSets(cast)) :
       \E world \in Alike(Worlds(related)) :
       \E fact \in Alike(Facts(world)) :
       \E threaded \in Alike(ThreadSets(fact)) :
       \E ended \in Alike(Endings(threaded)) :
          design' = ended
    /\ Adopted("initial_accept")

\* build_initial_generation: everybody at the first location without a parent.
InitialState(d) ==
    LET root == CHOOSE l \in DOMAIN d.locations :
                    d.locations[l] = 0 /\ \A m \in 1 .. l - 1 : d.locations[m] # 0
    IN [characters |-> [c \in DOMAIN d.characters |->
                           [place |-> root, belief |-> d.fact.known[c]]],
        relationships |-> DOMAIN d.relationships,
        threads |-> [t \in DOMAIN d.threads |-> d.threads[t].status]]

InitialAccept ==
    /\ stage = "initial_accept"
    /\ generation' = InitialState(design)
    /\ stage' = "series_plan"
    /\ UNCHANGED <<avoid, design>>

\* A refused candidate changes nothing; initial_accept has none.
Refused == stage # "initial_accept" /\ UNCHANGED designVars

Adopt ==
    \/ InitialConcept \/ InitialCharacters \/ InitialRelationships
    \/ InitialWorld \/ InitialKnowledge \/ InitialThreads
    \/ InitialEnding \/ InitialIntegrate \/ InitialAccept

DesignNext == Adopt \/ Refused

DesignSpec == DesignInit /\ [][DesignNext]_designVars
-----------------------------------------------------------------------------
(* The properties.                                                           *)

\* The Brief avoids words no text of this part can do without: the name of a
\* required field, a value one of its records must have, all values of an
\* enumeration.
Unspeakable(part) == \A ws \in Sayings[part] : ws \intersect avoid # {}
AvoidsForm ==
    \/ stage = "initial_concept" /\ Unspeakable("concept")
    \/ stage = "initial_characters" /\ Unspeakable("cast")
    \/ stage = "initial_world" /\ Unspeakable("world")

\* A cast of one can have no relationship, and the relationships stage wants one.
Alone == stage = "initial_relationships" /\ Len(design.characters) < 2

\* The Brief avoids a word of the made up world, which no adopted part need say.
AvoidsPlaceholder ==
    stage = "initial_ending" /\ PlaceholderWords \intersect avoid # {}

\* The design as adopted, for an integrating candidate that changes nothing.
HandedBack ==
    /\ design \in Concepts(design) \intersect Casts(design)
    /\ design \in RelationshipSets(design) \intersect Worlds(design)
    /\ design \in Facts(design) \intersect ThreadSets(design)
    /\ design \in Endings(design)

\* No contract lets a design through that leaves a later one nothing to
\* accept: at every stage some candidate would be adopted.  The parts are
\* immutable, so a design for which this fails is lost.  The three cases named
\* above are such dead ends in series_contracts.py.
DesignGoesOn ==
    /\ stage = "initial_concept" => Concepts(design) # {} \/ AvoidsForm
    /\ stage = "initial_characters" => Casts(design) # {} \/ AvoidsForm
    /\ stage = "initial_relationships" => RelationshipSets(design) # {} \/ Alone
    /\ stage = "initial_world" => Worlds(design) # {} \/ AvoidsForm
    /\ stage = "initial_knowledge" => Facts(design) # {}
    /\ stage = "initial_threads" => ThreadSets(design) # {}
    /\ stage = "initial_ending" => Endings(design) # {} \/ AvoidsPlaceholder
    /\ stage = "initial_integrate" => HandedBack

\* What the end of the series will be asked for is in the first Generation,
\* in a state the scenes can work from: each principal is there and has an end
\* state to reach, the threads the ending requires exist, at least one, and
\* have an arc, everybody is at a location without a parent and has a state
\* for the fact, and knows it only if it is true.  Integrate revises all
\* parts at once, so this rests on their being held against each other.
GenerationServesEnding ==
    stage = "series_plan" =>
        LET e == design.ending
        IN /\ e.characters \subseteq DOMAIN generation.characters
           /\ Principals(design) # {} /\ Principals(design) \subseteq e.characters
           /\ e.relationships # {} /\ e.relationships \subseteq generation.relationships
           /\ e.threads # {} /\ e.threads \subseteq DOMAIN generation.threads
           /\ \A t \in e.threads : <<"thread", t>> \in e.arcs
           /\ \A t \in DOMAIN generation.threads \ e.threads : ~design.threads[t].major
           /\ \A c \in DOMAIN generation.characters :
               /\ design.locations[generation.characters[c].place] = 0
               /\ generation.characters[c].belief = "knows" => design.fact.truth = "true"
=============================================================================
